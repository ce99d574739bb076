-------------------------------- MODULE Keys --------------------------------
(***************************************************************************)
(* Keys (bitcoin/src/crypto/key.rs): public keys with their compressed     *)
(* flag, compressed public keys, private keys and their wallet import      *)
(* format, and the taproot tweak; the network kinds of network.rs.         *)
(*                                                                         *)
(* Keys are scaled: KeyBytes stands for the 32 bytes of a scalar, so a     *)
(* public key is 1 + KeyBytes or 1 + 2 * KeyBytes bytes.  The secp256k1    *)
(* crate is external: a group of prime order in which a point stands for   *)
(* its discrete logarithm.  The last two bytes of a scalar carry its value.*)
(* A point and its negative share the x coordinate; y tells them apart.    *)
(***************************************************************************)
EXTENDS Base58

-----------------------------------------------------------------------------
(* The curve (external) *)

CONSTANT KeyBytes       \* 32 in the code; at least 2

Order == 65521
Scalars == 1..(Order - 1)

ScalarBytes(k) == Zeroes(KeyBytes - 2) \o <<k \div 256, k % 256>>
ScalarValue(b) ==
    IF \E i \in 1..(KeyBytes - 2) : b[i] # 0 THEN Order
    ELSE b[KeyBytes - 1] * 256 + b[KeyBytes]

Found(v) == [err |-> "none", v |-> v]
NotFound(e) == [err |-> e]

\* SecretKey::from_slice, negate and add_tweak.
SecretFromSlice(b) ==
    IF Len(b) = KeyBytes /\ ScalarValue(b) \in Scalars THEN Found(ScalarValue(b))
                                                        ELSE NotFound("Secp256k1")
Negate(k) == Order - k
TweakAdd(k, t) ==
    IF (k + t) % Order = 0 THEN NotFound("Secp256k1") ELSE Found((k + t) % Order)

\* PublicKey::from_secret_key, serialize and serialize_uncompressed.
PointOf(k) == k
XOnly(p) == IF p > Order \div 2 THEN Negate(p) ELSE p
IsOdd(p) == p # XOnly(p)
Serialize(p) == <<IF IsOdd(p) THEN 3 ELSE 2>> \o ScalarBytes(XOnly(p))
SerializeUncompressed(p) == <<4>> \o ScalarBytes(XOnly(p)) \o ScalarBytes(p)

\* PublicKey::from_slice: a compressed point, or both coordinates behind 4, or
\* behind 6 or 7, which repeat the parity.
PointFromSlice(b) ==
    LET x == ScalarValue(SubSeq(b, 2, KeyBytes + 1))
        y == ScalarValue(SubSeq(b, KeyBytes + 2, 2 * KeyBytes + 1))
        short == Len(b) = KeyBytes + 1 /\ b[1] \in {2, 3} /\ x \in 1..(Order \div 2)
        long == /\ Len(b) = 2 * KeyBytes + 1 /\ b[1] \in {4, 6, 7}
                /\ y \in Scalars /\ XOnly(y) = x
                /\ b[1] # 4 => (b[1] = 7) = IsOdd(y)
    IN IF short THEN Found(IF b[1] = 3 THEN Negate(x) ELSE x)
       ELSE IF long THEN Found(y) ELSE NotFound("Secp256k1")

\* XOnlyPublicKey::add_tweak and Keypair::add_xonly_tweak: the tweak is added
\* to the point with even y, the secret key is negated first when its point
\* has odd y.
XOnlyAddTweak(x, t) ==
    LET sum == TweakAdd(x, t)
    IN IF sum.err # "none" THEN sum ELSE Found([x |-> XOnly(sum.v), odd |-> IsOdd(sum.v)])
KeypairAddXOnlyTweak(k, t) == TweakAdd(IF IsOdd(PointOf(k)) THEN Negate(k) ELSE k, t)

\* hash160 of serialized keys and scripts, HMAC-SHA512 as two halves, and the
\* scalar of a tagged hash.
hash160(b) == Digest(2, b, 20)
HashScalar(salt, b) ==
    LET d == Digest(salt, b, 2) IN Zeroes(KeyBytes - 2) \o <<d[1], d[2]>>
hmac_sha512(key, b) == [left |-> HashScalar(3, key \o b), right |-> HashScalar(4, key \o b)]

-----------------------------------------------------------------------------
(* Keys *)

Compressed == KeyBytes + 1
Uncompressed == 2 * KeyBytes + 1

FromSliceErrors == {"InvalidKeyPrefix", "Secp256k1", "InvalidLength"}
FromWifErrors == Base58Errors
    \cup {"InvalidBase58PayloadLength", "InvalidAddressVersion", "Secp256k1"}
ParsePublicKeyErrors == {"Encoding", "InvalidChar", "InvalidHexLength"}
ParseCompressedPublicKeyErrors == {"Secp256k1", "Hex"}

(***************************************************************************)
(* PublicKey and CompressedPublicKey.                                      *)
(***************************************************************************)
PublicKey(compressed, inner) == [compressed |-> compressed, inner |-> inner]
PublicKeys(points) == {PublicKey(c, p) : c \in BOOLEAN, p \in points}

\* with_serialized: write_into, to_bytes, to_sort_key, pubkey_hash and Display.
with_serialized(pk) ==
    IF pk.compressed THEN Serialize(pk.inner) ELSE SerializeUncompressed(pk.inner)
pubkey_hash(pk) == hash160(with_serialized(pk))
wpubkey_hash(pk) ==
    IF pk.compressed THEN Found(hash160(Serialize(pk.inner)))
                     ELSE NotFound("UncompressedPublicKeyError")

\* PublicKey::from_slice.
PublicKeyFromSlice(data) ==
    LET compressed == Len(data) = Compressed
        inner == PointFromSlice(data)
    IN IF Len(data) \notin {Compressed, Uncompressed} THEN NotFound("InvalidLength")
       ELSE IF ~compressed /\ data[1] # 4 THEN NotFound("InvalidKeyPrefix")
       ELSE IF inner.err # "none" THEN inner
       ELSE Found(PublicKey(compressed, inner.v))

\* PublicKey::read_from: the first byte decides how many are read; a stream
\* that ends early is an error, and what was read is gone either way.
read_from(stream) ==
    LET n == IF stream[1] < 4 THEN Compressed ELSE Uncompressed
    IN IF stream = << >> THEN [key |-> NotFound("UnexpectedEof"), rest |-> << >>]
       ELSE IF Len(stream) < n THEN [key |-> NotFound("UnexpectedEof"), rest |-> << >>]
       ELSE [key |-> PublicKeyFromSlice(SubSeq(stream, 1, n)), rest |-> SubSeq(stream, n + 1, Len(stream))]

\* FromStr for PublicKey and CompressedPublicKey, and Display of both, which
\* writes hexadecimal digits.
PublicKeyFromStr(text) ==
    IF Len(text) \notin {2 * Compressed, 2 * Uncompressed} THEN NotFound("InvalidHexLength")
    ELSE IF ~is_hex(text) THEN NotFound("InvalidChar")
    ELSE LET key == PublicKeyFromSlice(from_hex(text)[1])
         IN IF key.err = "none" THEN key ELSE NotFound("Encoding")
CompressedFromStr(text) ==
    IF Len(text) # 2 * Compressed \/ ~is_hex(text) THEN NotFound("Hex")
    ELSE PointFromSlice(from_hex(text)[1])

\* CompressedPublicKey::from_slice is secp256k1's and takes a point of any
\* form; its bytes are the compressed form.
CompressedFromSlice(data) == PointFromSlice(data)
CompressedReadFrom(stream) ==
    IF Len(stream) < Compressed THEN [key |-> NotFound("UnexpectedEof"), rest |-> << >>]
    ELSE [key |-> CompressedFromSlice(SubSeq(stream, 1, Compressed)),
          rest |-> SubSeq(stream, Compressed + 1, Len(stream))]
CompressedTryFrom(pk) ==
    IF pk.compressed THEN Found(pk.inner) ELSE NotFound("UncompressedPublicKeyError")
FromCompressed(p) == PublicKey(TRUE, p)

\* serde: text when the format is human readable, bytes when it is not.
SerializeKey(pk, human) == IF human THEN to_hex(with_serialized(pk)) ELSE with_serialized(pk)
DeserializeKey(v, human) == IF human THEN PublicKeyFromStr(v) ELSE PublicKeyFromSlice(v)
SerializeCompressed(p, human) == IF human THEN to_hex(Serialize(p)) ELSE Serialize(p)
DeserializeCompressed(v, human) == IF human THEN CompressedFromStr(v) ELSE CompressedFromSlice(v)

(***************************************************************************)
(* PrivateKey.                                                             *)
(***************************************************************************)
NetworkKinds == {"Main", "Test"}
PrivateKey(compressed, network, inner) ==
    [compressed |-> compressed, network |-> network, inner |-> inner]
public_key(sk) == PublicKey(sk.compressed, PointOf(sk.inner))
negate(sk) == [sk EXCEPT !.inner = Negate(@)]
PrivateKeyFromSlice(data, network) ==
    LET k == SecretFromSlice(data)
    IN IF k.err # "none" THEN k ELSE Found(PrivateKey(TRUE, network, k.v))

\* fmt_wif, to_wif, Display and Serialize; from_wif, FromStr and Deserialize.
fmt_wif(sk) ==
    encode_check(<<IF sk.network = "Main" THEN 128 ELSE 239>> \o ScalarBytes(sk.inner)
                 \o (IF sk.compressed THEN <<1>> ELSE << >>))
from_wif(text) ==
    LET data == decode_check(text)
        inner == SecretFromSlice(SubSeq(data.data, 2, KeyBytes + 1))
    IN IF data.err # "none" THEN data
       ELSE IF Len(data.data) \notin {KeyBytes + 1, KeyBytes + 2}
       THEN NotFound("InvalidBase58PayloadLength")
       ELSE IF data.data[1] \notin {128, 239} THEN NotFound("InvalidAddressVersion")
       ELSE IF inner.err # "none" THEN inner
       ELSE Found(PrivateKey(Len(data.data) = KeyBytes + 2,
                             IF data.data[1] = 128 THEN "Main" ELSE "Test", inner.v))

(***************************************************************************)
(* Taproot tweaks: TapTweak for x-only keys and for key pairs.             *)
(***************************************************************************)
\* TapTweakHash::from_key_and_tweak: of the x coordinate and the merkle root.
TapTweakHash(x, merkle_root) == ScalarValue(HashScalar(5, ScalarBytes(x) \o merkle_root))
TapTweakXOnly(x, merkle_root) == XOnlyAddTweak(x, TapTweakHash(x, merkle_root))
TapTweakKeypair(k, merkle_root) ==
    KeypairAddXOnlyTweak(k, TapTweakHash(XOnly(PointOf(k)), merkle_root))
public_parts(k) == [x |-> XOnly(PointOf(k)), odd |-> IsOdd(PointOf(k))]
=============================================================================
