----------------------------- MODULE Signatures -----------------------------
(***************************************************************************)
(* Signatures as bytes and text: ECDSA and taproot signatures with their   *)
(* sighash type (bitcoin/src/crypto/{ecdsa,taproot}.rs), the in-line       *)
(* serialized taproot signature and its iterator                           *)
(* (bitcoin/src/taproot/serialized_signature.rs), and signed messages      *)
(* (bitcoin/src/sign_message.rs).                                          *)
(*                                                                         *)
(* A Schnorr signature is 64 bytes; the DER form of an ECDSA signature has *)
(* its length in its second byte; a recoverable signature names the signer *)
(* and the message in its two halves (external: secp256k1).                *)
(***************************************************************************)
EXTENDS Address

CONSTANTS
    SchnorrSigs,        \* 64-byte Schnorr signatures
    DerSigs,            \* DER signatures
    SigKeys,            \* secret keys that sign messages
    Messages            \* message hashes, as scalars

VARIABLES
    signature,          \* the IntoIter: data and len of its SerializedSignature
    pos,                \* the IntoIter's position
    front, back,        \* ghosts: bytes passed over at either end
    returned            \* the last byte returned: << >> or <<byte>>

sig_vars == <<signature, pos, front, back, returned>>

EcdsaErrors == {"Hex", "SighashType", "EmptySignature", "Secp256k1"}
SigFromSliceErrors == {"SighashType", "Secp256k1", "InvalidSignatureSize"}
MessageSignatureErrors == {"InvalidLength", "InvalidEncoding", "InvalidBase64", "UnsupportedAddressType"}

EcdsaTypes == {1, 2, 3, 129, 130, 131}
TapTypes == {0} \cup EcdsaTypes

Sig(signature_, type) == [err |-> "none", signature |-> signature_, sighash_type |-> type]
SigErr(e) == [err |-> e]

(***************************************************************************)
(* ECDSA: from_slice and FromStr meet their errors in different orders.    *)
(***************************************************************************)
is_der(sig) == Len(sig) >= 2 /\ sig[1] = 48 /\ sig[2] = Len(sig) - 2

EcdsaFromSlice(sl) ==
    IF sl = << >> THEN SigErr("EmptySignature")
    ELSE IF Last(sl) \notin EcdsaTypes THEN SigErr("SighashType")
    ELSE IF ~is_der(Front(sl)) THEN SigErr("Secp256k1")
    ELSE Sig(Front(sl), Last(sl))

\* serialize, to_vec and serialize_to_writer; a DER signature has at most 72 bytes.
EcdsaSerialize(s) == Append(s.signature, s.sighash_type)

EcdsaFromStr(text) ==
    LET bytes == from_hex(text)[1]
    IN IF from_hex(text) = << >> THEN SigErr("Hex")
       ELSE IF bytes = << >> THEN SigErr("EmptySignature")
       ELSE IF ~is_der(Front(bytes)) THEN SigErr("Secp256k1")
       ELSE IF Last(bytes) \notin EcdsaTypes THEN SigErr("SighashType")
       ELSE Sig(Front(bytes), Last(bytes))

(***************************************************************************)
(* Taproot: the default type has no byte of its own.                       *)
(***************************************************************************)
TapFromSlice(sl) ==
    CASE Len(sl) = 64 -> Sig(sl, 0)
      [] Len(sl) = 65 /\ Last(sl) \in TapTypes -> Sig(Front(sl), Last(sl))
      [] Len(sl) = 65 /\ Last(sl) \notin TapTypes -> SigErr("SighashType")
      [] OTHER -> SigErr("InvalidSignatureSize")

\* serialize (from_signature, to_vec): the buffer and the length in use.
TapSerialize(s) ==
    [data |-> Append(s.signature, s.sighash_type), len |-> IF s.sighash_type = 0 THEN 64 ELSE 65]
deref(s) == SubSeq(s.data, 1, s.len)

(***************************************************************************)
(* The iterator over a serialized taproot signature, from both ends.       *)
(***************************************************************************)
IterInit ==
    /\ \E s \in SchnorrSigs, type \in TapTypes : signature = TapSerialize(Sig(s, type))
    /\ pos = 0 /\ front = << >> /\ back = << >> /\ returned = << >>

as_slice == SubSeq(deref(signature), pos + 1, signature.len)

\* next: get(pos)? and then one further.
Advance(from) ==
    IF from < signature.len
    THEN /\ pos' = from + 1
         /\ returned' = <<signature.data[from + 1]>>
    ELSE pos' = from /\ returned' = << >>

IterNext ==
    /\ Advance(pos)
    /\ front' = front \o returned'
    /\ UNCHANGED <<signature, back>>

IterNth ==
    \E n \in {1, 40, 63, 64} :
        /\ IF n >= signature.len - pos THEN pos' = signature.len /\ returned' = << >>
                                       ELSE Advance(pos + n)
        /\ front' = front \o SubSeq(as_slice, 1, pos' - pos)
        /\ UNCHANGED <<signature, back>>

\* Mutant: the end is not compared with the position.
IterNextBack_PastFront ==
    /\ signature.len > 0
    /\ signature' = [signature EXCEPT !.len = @ - 1]
    /\ returned' = <<signature.data[signature.len]>>
    /\ back' = returned' \o back
    /\ UNCHANGED <<pos, front>>

IterNextBack ==
    /\ signature' = IF pos = signature.len THEN signature ELSE [signature EXCEPT !.len = @ - 1]
    /\ returned' = IF pos = signature.len THEN << >> ELSE <<signature.data[signature.len]>>
    /\ back' = returned' \o back
    /\ UNCHANGED <<pos, front>>

SigNext == IterNext \/ IterNth \/ IterNextBack

(***************************************************************************)
(* Signed messages.                                                        *)
(***************************************************************************)
\* Signing with a recoverable signature, and recover_ecdsa (external).
SignRecoverable(k, msg, compressed) ==
    [recid |-> IF Key!IsOdd(Key!PointOf(k)) THEN 1 ELSE 0, compressed |-> compressed,
     raw |-> Key!ScalarBytes(Key!XOnly(Key!PointOf(k))) \o Key!ScalarBytes(msg)]
recover_ecdsa(m, msg) ==
    LET x == Key!ScalarValue(SubSeq(m.raw, 1, 32))
        even == (x + Key!ScalarValue(SubSeq(m.raw, 33, 64)) - msg) % Key!Order
    IN IF m.recid % 2 = 1 THEN Key!Negate(even) ELSE even

MessageSerialize(m) == <<27 + m.recid + (IF m.compressed THEN 4 ELSE 0)>> \o m.raw
MessageFromSlice(bytes) ==
    LET header == bytes[1] - 27
    IN IF Len(bytes) # 65 THEN SigErr("InvalidLength")
       ELSE IF header < 0 THEN SigErr("InvalidEncoding")
       ELSE [err |-> "none", recid |-> header % 4, compressed |-> (header \div 4) % 2 = 1,
             raw |-> Tail(bytes)]

recover_pubkey(m, msg) == Key!PublicKey(m.compressed, recover_ecdsa(m, msg))
is_signed_by_address(m, a, msg) ==
    CASE address_type(a) = "P2pkh" ->
            [err |-> "none", signed |-> a.hash = Key!pubkey_hash(recover_pubkey(m, msg))]
      [] address_type(a) = "none" -> [err |-> "none", signed |-> FALSE]
      [] OTHER -> [err |-> "UnsupportedAddressType"]

(***************************************************************************)
(* The properties.                                                         *)
(***************************************************************************)

\* However the two ends are mixed, the iterator yields every byte of the
\* serialized signature once: what was passed over in front, what is left and
\* what was taken from the back are the signature, and nothing is read twice
\* when the ends meet.
IteratorExact ==
    /\ pos <= signature.len
    /\ \E s \in SchnorrSigs, type \in TapTypes : front \o as_slice \o back = deref(TapSerialize(Sig(s, type)))

\* A signature is read back with its type from its bytes and from its text, the
\* two ECDSA parsers accept the same signatures, and a taproot signature has
\* one serialized form except for the default type spelled out, which is
\* accepted and written shorter.
SignaturesReadBack ==
    /\ \A d \in DerSigs, t \in 0..255 :
        \A bytes \in {Append(d, t)} :
            /\ EcdsaFromSlice(bytes).err = "none" <=> EcdsaFromStr(to_hex(bytes)).err = "none"
            /\ EcdsaFromSlice(bytes).err = "none" => /\ EcdsaSerialize(EcdsaFromSlice(bytes)) = bytes
                                                     /\ EcdsaFromStr(to_hex(bytes)) = EcdsaFromSlice(bytes)
    /\ \A s \in SchnorrSigs, t \in 0..255 :
        \A sig \in {TapFromSlice(Append(s, t))} :
            /\ sig.err = "none" <=> t \in TapTypes
            /\ sig.err = "none" => /\ TapFromSlice(deref(TapSerialize(sig))) = sig
                                   /\ deref(TapSerialize(sig)) = IF t = 0 THEN s ELSE Append(s, t)

\* A signed message is recognised by the signer's key-hash address for the
\* form of key it was signed with, by no other, and only for its message.
MessagesVerify ==
    \A k \in SigKeys, msg \in Messages, c \in BOOLEAN :
        \A m \in {SignRecoverable(k, msg, c)} :
            /\ MessageFromSlice(MessageSerialize(m)) = [err |-> "none"] @@ m
            /\ \A l \in SigKeys, d \in BOOLEAN, other \in Messages :
                is_signed_by_address(m, p2pkh(Key!pubkey_hash(Key!PublicKey(d, Key!PointOf(l))), "Main"), other)
                    = [err |-> "none", signed |-> l = k /\ c = d /\ msg = other]

\* Signatures in all their forms; the parsers and messages once a session.
SignaturesExact ==
    /\ IteratorExact
    /\ front = << >> /\ back = << >> => SignaturesReadBack /\ MessagesVerify
=============================================================================
