------------------------------- MODULE Wallet -------------------------------
(***************************************************************************)
(* Hierarchical keys (bitcoin/src/bip32.rs): child numbers, derivation     *)
(* paths, extended private and public keys; and sessions over them and over*)
(* crypto/key.rs.                                                          *)
(*                                                                         *)
(* Derivation: an owner walks down from an account's private key, hands    *)
(* the public half to a watch-only wallet that walks on by itself, and     *)
(* both save and reload their keys as text.                                *)
(*                                                                         *)
(* Key stream: public keys are written one after the other and read back   *)
(* by PublicKey::read_from, also from a stream that was cut short or that  *)
(* holds a key in the hybrid form.                                         *)
(*                                                                         *)
(* A u32 is scaled: HardenedBit stands for 2^31.  An extended key keeps    *)
(* its layout of 4 + 1 + 4 + 4 bytes and two keys.                         *)
(***************************************************************************)
EXTENDS Keys

-----------------------------------------------------------------------------
(* Hierarchical keys *)

CONSTANTS
    HardenedBit,        \* 1 << 31, scaled
    Seeds,              \* seeds of master keys
    Indices,            \* child indices used in derivations
    StartDepths,        \* depths of the accounts a session starts with
    MaxCalls            \* calls of a session

U32 == 0..(2 * HardenedBit - 1)
BeBytes(n) == <<0, n \div 65536, (n \div 256) % 256, n % 256>>
FromBe(b) == b[2] * 65536 + b[3] * 256 + b[4]

Bip32Errors ==
    {"CannotDeriveFromHardenedKey", "MaximumDepthExceeded", "Secp256k1", "InvalidChildNumber",
     "InvalidChildNumberFormat", "InvalidDerivationPathFormat", "UnknownVersion",
     "WrongExtendedKeyLength", "Base58", "Hex", "InvalidPublicKeyHexLength",
     "InvalidBase58PayloadLength"}

(***************************************************************************)
(* Child numbers and derivation paths.                                     *)
(***************************************************************************)
Normal(i) == [hardened |-> FALSE, index |-> i]
Hardened(i) == [hardened |-> TRUE, index |-> i]

\* from_normal_idx and from_hardened_idx.
FromIdx(hardened, index) ==
    IF index < HardenedBit THEN Found([hardened |-> hardened, index |-> index])
                           ELSE NotFound("InvalidChildNumber")
increment(cn) == FromIdx(cn.hardened, cn.index + 1)

\* From<u32> for ChildNumber and back; serde goes through them.
ChildFromU32(n) == IF n >= HardenedBit THEN Hardened(n - HardenedBit) ELSE Normal(n)
ChildToU32(cn) == IF cn.hardened THEN cn.index + HardenedBit ELSE cn.index

\* A part of a path as text: a decimal number, the word "m", nothing, or
\* anything else; and the mark behind it, which Display writes as ' or h.
Part(word, n, mark) == [word |-> word, n |-> n, mark |-> mark]
ChildText(cn, alternate) ==
    Part("number", cn.index, IF cn.hardened THEN IF alternate THEN "h" ELSE "'" ELSE "")
ChildFromStr(part) ==
    IF part.word # "number" \/ part.n \notin U32 THEN NotFound("InvalidChildNumberFormat")
    ELSE FromIdx(part.mark \in {"'", "h"}, part.n)

\* A path as text: its parts between slashes; the empty text is one empty part.
EmptyPart == Part("", 0, "")
MasterPart == Part("m", 0, "")
PathText(path) == IF path = << >> THEN <<EmptyPart>>
                  ELSE [i \in DOMAIN path |-> ChildText(path[i], FALSE)]
PathFromStr(text) ==
    LET parts == IF Len(text) > 1 /\ text[1] = MasterPart THEN Tail(text) ELSE text
        bad == {i \in DOMAIN parts : ChildFromStr(parts[i]).err # "none"}
    IN IF text \in {<<EmptyPart>>, <<MasterPart>>, <<MasterPart, EmptyPart>>} THEN Found(<< >>)
       ELSE IF bad # {} THEN ChildFromStr(parts[CHOOSE i \in bad : \A j \in bad : i <= j])
       ELSE Found([i \in DOMAIN parts |-> ChildFromStr(parts[i]).v])

\* DerivationPathIterator over the children of a path from a first one on:
\* the item, and the child to come.
PathNext(base, next_child) ==
    LET after == increment(next_child[1])
    IN [item |-> Append(base, next_child[1]),
        next_child |-> IF after.err = "none" THEN <<after.v>> ELSE << >>]

(***************************************************************************)
(* Extended keys.                                                          *)
(***************************************************************************)
VERSION_BYTES == [Public |-> [Main |-> <<4, 136, 178, 30>>, Test |-> <<4, 53, 135, 207>>],
                  Private |-> [Main |-> <<4, 136, 173, 228>>, Test |-> <<4, 53, 131, 148>>]]

\* An extended key; `key` is a scalar for Xpriv and a point for Xpub.
Extended(network, depth, parent, child, key, chain) ==
    [network |-> network, depth |-> depth, parent_fingerprint |-> parent,
     child_number |-> child, key |-> key, chain_code |-> chain]

new_master(network, seed) ==
    LET hmac == hmac_sha512(<<66>>, seed)
        key == SecretFromSlice(hmac.left)
    IN IF key.err # "none" THEN key
       ELSE Found(Extended(network, 0, Zeroes(4), Normal(0), key.v, hmac.right))

from_priv(sk) == [sk EXCEPT !.key = PointOf(@)]
identifier(pk) == hash160(Serialize(pk.key))
fingerprint(pk) == SubSeq(identifier(pk), 1, 4)
to_priv(sk) == PrivateKey(TRUE, sk.network, sk.key)

\* checked_add(1) on the depth, which is a byte.
Deeper(x, child, key, chain, parent) ==
    IF x.depth = 255 THEN NotFound("MaximumDepthExceeded")
    ELSE Found(Extended(x.network, x.depth + 1, parent, child, key, chain))

\* ckd_priv: the two failures it calls statistically impossible are panics.
ckd_priv(sk, i) ==
    LET data == IF i.hardened THEN <<0>> \o ScalarBytes(sk.key) ELSE Serialize(PointOf(sk.key))
        hmac == hmac_sha512(sk.chain_code, data \o BeBytes(ChildToU32(i)))
        left == SecretFromSlice(hmac.left)
        tweaked == TweakAdd(left.v, sk.key)
    IN IF left.err # "none" THEN NotFound("Panic")
       ELSE IF tweaked.err # "none" THEN NotFound("Panic")
       ELSE Deeper(sk, i, tweaked.v, hmac.right, fingerprint(from_priv(sk)))

ckd_pub_tweak(pk, i) ==
    LET hmac == hmac_sha512(pk.chain_code, Serialize(pk.key) \o BeBytes(i.index))
        key == SecretFromSlice(hmac.left)
    IN IF i.hardened THEN NotFound("CannotDeriveFromHardenedKey")
       ELSE IF key.err # "none" THEN key
       ELSE Found([key |-> key.v, chain_code |-> hmac.right])

\* Mutant: the child keeps the parent's own parent fingerprint.
ckd_pub_OldParent(pk, i) ==
    LET tweak == ckd_pub_tweak(pk, i)
        tweaked == TweakAdd(pk.key, tweak.v.key)
    IN IF tweak.err # "none" THEN tweak
       ELSE IF tweaked.err # "none" THEN tweaked
       ELSE Deeper(pk, i, tweaked.v, tweak.v.chain_code, pk.parent_fingerprint)

ckd_pub(pk, i) ==
    LET tweak == ckd_pub_tweak(pk, i)
        tweaked == TweakAdd(pk.key, tweak.v.key)
    IN IF tweak.err # "none" THEN tweak
       ELSE IF tweaked.err # "none" THEN tweaked
       ELSE Deeper(pk, i, tweaked.v, tweak.v.chain_code, fingerprint(pk))

\* derive_priv and derive_pub: child by child, up to the first error.
RECURSIVE derive_priv(_, _)
derive_priv(sk, path) ==
    IF path = << >> THEN Found(sk)
    ELSE LET child == ckd_priv(sk, Head(path))
         IN IF child.err # "none" THEN child ELSE derive_priv(child.v, Tail(path))
RECURSIVE derive_pub(_, _)
derive_pub(pk, path) ==
    IF path = << >> THEN Found(pk)
    ELSE LET child == ckd_pub(pk, Head(path))
         IN IF child.err # "none" THEN child ELSE derive_pub(child.v, Tail(path))

(***************************************************************************)
(* The 78 bytes of an extended key, and its text.                          *)
(***************************************************************************)
XLen == 14 + 2 * KeyBytes
XEncode(kind, x) ==
    VERSION_BYTES[kind][x.network] \o <<x.depth>> \o x.parent_fingerprint
    \o BeBytes(ChildToU32(x.child_number)) \o x.chain_code
    \o (IF kind = "Private" THEN <<0>> \o ScalarBytes(x.key) ELSE Serialize(x.key))

\* Xpriv::decode, which skips the byte before the key, and Xpub::decode.
XDecode(kind, data) ==
    LET networks == {n \in NetworkKinds : VERSION_BYTES[kind][n] = SubSeq(data, 1, 4)}
        key == IF kind = "Private" THEN SecretFromSlice(SubSeq(data, XLen - KeyBytes + 1, XLen))
                                   ELSE PointFromSlice(SubSeq(data, XLen - KeyBytes, XLen))
    IN IF Len(data) # XLen THEN NotFound("WrongExtendedKeyLength")
       ELSE IF networks = {} THEN NotFound("UnknownVersion")
       ELSE IF key.err # "none" THEN key
       ELSE Found(Extended(CHOOSE n \in networks : TRUE, data[5], SubSeq(data, 6, 9),
                           ChildFromU32(FromBe(SubSeq(data, 10, 13))), key.v,
                           SubSeq(data, 14, 13 + KeyBytes)))

XDisplay(kind, x) == encode_check(XEncode(kind, x))
XFromStr(kind, text) ==
    LET data == decode_check(text)
    IN IF data.err # "none" THEN NotFound("Base58")
       ELSE IF Len(data.data) # XLen THEN NotFound("InvalidBase58PayloadLength")
       ELSE XDecode(kind, data.data)

-----------------------------------------------------------------------------
(* Sessions *)

CONSTANTS
    StreamKeys,         \* secret keys whose public keys are streamed
    MaxStream           \* keys written to a stream

VARIABLES
    account,            \* the Xpriv the session starts from
    owner, opath,       \* the owner's Xpriv and its path from the account
    watch, wpath,       \* << >> or <<the watcher's Xpub>>, and its path
    disk,               \* << >> or <<the text stored last>>, with what was stored
    called,             \* the last call and its outcome
    calls,              \* calls so far
    stream,             \* bytes written and not read
    queued,             \* ghost: what each key on the stream should read as
    wrote               \* keys written so far

derive_vars == <<account, owner, opath, watch, wpath, disk, called, calls>>
stream_vars == <<stream, queued, wrote>>

\* new_master, or an account restored from its text at some depth.
DeriveInit ==
    /\ \E seed \in Seeds, network \in NetworkKinds, depth \in StartDepths :
        account = [new_master(network, seed).v EXCEPT !.depth = depth]
    /\ owner = account /\ opath = << >>
    /\ watch = << >> /\ wpath = << >>
    /\ disk = << >>
    /\ called = [call |-> "none", err |-> "none"]
    /\ calls = 0

ChildNumbers == {FromIdx(h, i).v : h \in BOOLEAN, i \in Indices}

Called(name, result) ==
    /\ calls < MaxCalls
    /\ calls' = calls + 1
    /\ called' = [call |-> name, err |-> result.err]

\* Xpriv::derive_priv by one child; an error leaves the caller's key.
OwnerDerive ==
    \E cn \in ChildNumbers : \E child \in {ckd_priv(owner, cn)} :
        /\ Called(<<"owner", cn>>, child)
        /\ owner' = IF child.err = "none" THEN child.v ELSE owner
        /\ opath' = IF child.err = "none" THEN Append(opath, cn) ELSE opath
        /\ UNCHANGED <<account, watch, wpath, disk>>

\* Xpub::from_priv.
HandOver ==
    /\ Called("hand over", Found(owner))
    /\ watch' = <<from_priv(owner)>>
    /\ wpath' = opath
    /\ UNCHANGED <<account, owner, opath, disk>>

WatchDerive ==
    /\ watch # << >>
    /\ \E cn \in ChildNumbers : \E child \in {ckd_pub(watch[1], cn)} :
        /\ Called(<<"watch", cn>>, child)
        /\ watch' = IF child.err = "none" THEN <<child.v>> ELSE watch
        /\ wpath' = IF child.err = "none" THEN Append(wpath, cn) ELSE wpath
    /\ UNCHANGED <<account, owner, opath, disk>>

\* Display of either key.
Save ==
    /\ \/ disk' = <<[kind |-> "Private", text |-> XDisplay("Private", owner), path |-> opath]>>
       \/ /\ watch # << >>
          /\ disk' = <<[kind |-> "Public", text |-> XDisplay("Public", watch[1]), path |-> wpath]>>
    /\ Called("save", Found(0))
    /\ UNCHANGED <<account, owner, opath, watch, wpath>>

\* FromStr for Xpriv and for Xpub on what is stored.
LoadOwner ==
    /\ disk # << >>
    /\ \E key \in {XFromStr("Private", disk[1].text)} :
        /\ Called("load owner", key)
        /\ owner' = IF key.err = "none" THEN key.v ELSE owner
        /\ opath' = IF key.err = "none" THEN disk[1].path ELSE opath
    /\ UNCHANGED <<account, watch, wpath, disk>>
LoadWatch ==
    /\ disk # << >>
    /\ \E key \in {XFromStr("Public", disk[1].text)} :
        /\ Called("load watch", key)
        /\ watch' = IF key.err = "none" THEN <<key.v>> ELSE watch
        /\ wpath' = IF key.err = "none" THEN disk[1].path ELSE wpath
    /\ UNCHANGED <<account, owner, opath, disk>>

DeriveNext == OwnerDerive \/ HandOver \/ WatchDerive \/ Save \/ LoadOwner \/ LoadWatch

StreamInit == stream = << >> /\ queued = << >> /\ wrote = 0

\* PublicKey::write_into, and another program's hybrid form (6 or 7, then both
\* coordinates).
Write ==
    /\ wrote < MaxStream
    /\ wrote' = wrote + 1
    /\ \E k \in StreamKeys, c \in BOOLEAN, hybrid \in BOOLEAN :
        LET pk == PublicKey(c, PointOf(k))
            bytes == IF hybrid /\ ~c
                     THEN <<IF IsOdd(pk.inner) THEN 7 ELSE 6>> \o Tail(with_serialized(pk))
                     ELSE with_serialized(pk)
        IN /\ stream' = stream \o bytes
           /\ queued' = Append(queued, IF hybrid /\ ~c THEN NotFound("InvalidKeyPrefix") ELSE Found(pk))

\* The connection ends early: the last key has lost its last byte.
Cut ==
    /\ queued # << >> /\ Last(queued).err # "UnexpectedEof"
    /\ wrote' = MaxStream
    /\ stream' = Front(stream)
    /\ queued' = Append(Front(queued), NotFound("UnexpectedEof"))

Read ==
    /\ queued # << >>
    /\ stream' = read_from(stream).rest
    /\ queued' = Tail(queued)
    /\ UNCHANGED wrote

StreamNext == Write \/ Cut \/ Read

(***************************************************************************)
(* The properties.                                                         *)
(***************************************************************************)

\* The two wallets stay one: whatever was derived, handed over, stored and
\* reloaded, the owner's key is the account's at its path and the watcher's key
\* is its public half, with the same depth, parent and child number.  A path
\* walked at once gives the same key as the same path walked child by child,
\* and only a hardened child or the last depth stops the watcher.
WalletsAgree ==
    /\ \A here \in {derive_priv(account, opath)} : here = Found(owner)
    /\ watch # << >> =>
        \A there \in {derive_priv(account, wpath)} :
            /\ watch[1] = from_priv(there.v)
            /\ \A n \in 0..Len(wpath) :
                LET rest == SubSeq(wpath, n + 1, Len(wpath))
                IN (\A j \in DOMAIN rest : ~rest[j].hardened) =>
                    derive_pub(from_priv(derive_priv(account, SubSeq(wpath, 1, n)).v), rest) = Found(watch[1])
    /\ called.call \in {<<"owner", cn>> : cn \in ChildNumbers} =>
        called.err = (IF called.err # "none" THEN "MaximumDepthExceeded" ELSE "none")
        /\ (called.err # "none" => owner.depth = 255)
    /\ called.call \in {<<"watch", cn>> : cn \in ChildNumbers} =>
        called.err = (CASE called.call[2].hardened -> "CannotDeriveFromHardenedKey"
                        [] called.err = "none" -> "none"
                        [] OTHER -> "MaximumDepthExceeded")
        /\ (called.err = "MaximumDepthExceeded" => watch[1].depth = 255)

\* A stored text is read as the key that was stored and never as one of the
\* other kind, and the paths and child numbers next to it are read back, also
\* behind "m/" and with either mark; the children of a path end at the last
\* index.
TextsReadBack ==
    /\ disk # << >> =>
        /\ called.call = "load owner" => called.err = (IF disk[1].kind = "Private" THEN "none" ELSE "UnknownVersion")
        /\ called.call = "load watch" => called.err = (IF disk[1].kind = "Public" THEN "none" ELSE "UnknownVersion")
    /\ PathFromStr(PathText(opath)) = Found(opath)
    /\ opath # << >> => PathFromStr(<<MasterPart>> \o PathText(opath)) = Found(opath)
    /\ \A i \in DOMAIN opath :
        /\ ChildFromU32(ChildToU32(opath[i])) = opath[i]
        /\ ChildFromStr(ChildText(opath[i], TRUE)) = Found(opath[i])
    /\ \A cn \in ChildNumbers :
        LET step == PathNext(opath, <<cn>>)
        IN /\ step.item = Append(opath, cn)
           /\ step.next_child = << >> <=> cn.index = HardenedBit - 1
           /\ step.next_child # << >> =>
                ChildToU32(step.next_child[1]) = ChildToU32(cn) + 1

\* The next key on the stream reads as what was written there, after any
\* mixture of compressed, uncompressed, hybrid and truncated keys before it.
StreamAligned == queued # << >> => read_from(stream).key = Head(queued)

\* A key's other encodings keep its form: hex and serde read back the same key,
\* the wallet import format keeps the compressed flag and the network, and the
\* tweaked key pair has the tweaked public key.
KeysKeepForm ==
    \A k \in StreamKeys, c \in BOOLEAN, network \in NetworkKinds :
        \A pk \in {PublicKey(c, PointOf(k))}, sk \in {PrivateKey(c, network, k)} :
            stream = with_serialized(pk) =>
                /\ \A human \in BOOLEAN : DeserializeKey(SerializeKey(pk, human), human) = Found(pk)
                /\ PublicKeyFromSlice(stream) = Found(pk)
                /\ c => \A human \in BOOLEAN :
                            DeserializeCompressed(SerializeCompressed(pk.inner, human), human) = Found(pk.inner)
                /\ CompressedTryFrom(pk).err = "none" <=> wpubkey_hash(pk).err = "none"
                /\ from_wif(fmt_wif(sk)) = Found(sk)
                /\ public_key(negate(negate(sk))) = pk
                /\ \A root \in {<< >>, <<7>>} :
                    public_parts(TapTweakKeypair(k, root).v) = TapTweakXOnly(XOnly(PointOf(k)), root).v

\* Streams and encodings of keys together.
KeysReadBack == StreamAligned /\ KeysKeepForm
=============================================================================
