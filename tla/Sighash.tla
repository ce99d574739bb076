------------------------------ MODULE Sighash ------------------------------
(***************************************************************************)
(* Signature hashes (bitcoin/src/crypto/sighash.rs).  A SighashCache holds *)
(* a transaction and fills three caches the first time a hash needs them;  *)
(* hashes for legacy, version 0 and taproot inputs may be asked for in any *)
(* order, and witnesses may be written in between.                         *)
(*                                                                         *)
(* A hash is the record of what goes into it, as the hash functions are    *)
(* injective; a part that is left out is the empty sequence.  Inputs and   *)
(* outputs are numbered from 1.                                            *)
(***************************************************************************)
EXTENDS Integers, Sequences, FiniteSets

CONSTANTS
    Tx,         \* the transaction
    Spent,      \* the outputs its inputs spend
    Calls,      \* hashes that are asked for
    Fresh,      \* a value that is new in any part of Tx
    Witnesses   \* bound: witnesses that are written

Transactions ==
    [version : Int, lock_time : Int, output : Seq(Int),
     input : Seq([previous_output : Int, sequence : Int, script_sig : Seq(Int), witness : Seq(Int)])]

ASSUME TxAssumption == Tx \in Transactions /\ Witnesses \subseteq Seq(Int)

EcdsaTypes == {"All", "None", "Single", "AllPlusAnyoneCanPay", "NonePlusAnyoneCanPay",
               "SinglePlusAnyoneCanPay"}

\* The arguments of taproot_signature_hash, of the version 0 ones and of
\* legacy_signature_hash.
TaprootCalls ==
    [kind : {"taproot"}, i : Nat \ {0}, annex : Seq(Int), leaf : Seq(Int),
     prevouts : [one : Nat, outs : Seq([value : Int, spk : Int])], ty : EcdsaTypes \cup {"Default"}]
SegwitCalls ==
    [kind : {"p2wpkh", "p2wsh"}, i : Nat \ {0}, script : STRING, value : Int, ty : EcdsaTypes]
LegacyCalls == [kind : {"legacy"}, i : Nat \ {0}, script : STRING, n : Nat]

ASSUME CallsAssumption == Calls \subseteq TaprootCalls \cup SegwitCalls \cup LegacyCalls

ASSUME FreshAssumption ==
    /\ Fresh \in Int \ {Tx.version, Tx.lock_time}
    /\ \A j \in DOMAIN Tx.input : Fresh \notin {Tx.input[j].previous_output, Tx.input[j].sequence}
    /\ \A j \in DOMAIN Tx.output : Fresh # Tx.output[j]

VARIABLES
    tx,             \* the transaction with the witnesses written so far
    common_cache, segwit_cache, taproot_cache,
    last            \* the last call and its answer

vars == <<tx, common_cache, segwit_cache, taproot_cache, last>>

None == << >>
Some(v) == <<v>>

-----------------------------------------------------------------------------
(* Sighash types *)

AnyoneCanPay(ty) ==
    ty \in {"AllPlusAnyoneCanPay", "NonePlusAnyoneCanPay", "SinglePlusAnyoneCanPay"}

\* The type without the flag: split_anyonecanpay_flag.
Base(ty) ==
    CASE ty = "AllPlusAnyoneCanPay" -> "All"
      [] ty = "NonePlusAnyoneCanPay" -> "None"
      [] ty = "SinglePlusAnyoneCanPay" -> "Single"
      [] OTHER -> ty

\* EcdsaSighashType::from_consensus: the bits of 0x9f decide.
from_consensus(n) ==
    LET flag == (n \div 128) % 2 = 1  low == n % 32
    IN  CASE low = 2 /\ ~flag -> "None"
          [] low = 3 /\ ~flag -> "Single"
          [] low = 2 /\ flag -> "NonePlusAnyoneCanPay"
          [] low = 3 /\ flag -> "SinglePlusAnyoneCanPay"
          [] low \notin {2, 3} /\ flag -> "AllPlusAnyoneCanPay"
          [] OTHER -> "All"

-----------------------------------------------------------------------------
(* Caches *)

GetOrInsert(cache, v) == IF cache = None THEN Some(v) ELSE cache

\* What common_cache_minimal_borrow computes.
CommonCache(t) ==
    [prevouts |-> [j \in DOMAIN t.input |-> t.input[j].previous_output],
     sequences |-> [j \in DOMAIN t.input |-> t.input[j].sequence],
     outputs |-> t.output]

\* The version 0 hashes are the common ones hashed again.
SegwitCache(common) ==
    [prevouts |-> Some(common.prevouts), sequences |-> Some(common.sequences),
     outputs |-> Some(common.outputs)]

TaprootCache(prevouts) ==
    [amounts |-> [j \in DOMAIN prevouts |-> prevouts[j].value],
     script_pubkeys |-> [j \in DOMAIN prevouts |-> prevouts[j].spk]]

\* The caches of a SighashCache, and those of a new one.
Caches == [common |-> common_cache, segwit |-> segwit_cache, taproot |-> taproot_cache]
NoCaches == [common |-> None, segwit |-> None, taproot |-> None]

WithCommon(t, cs) == [cs EXCEPT !.common = GetOrInsert(@, CommonCache(t))]

\* segwit_cache: a filled cache is used as it is, without the common one.
WithSegwit(t, cs) ==
    LET common == GetOrInsert(cs.common, CommonCache(t))
    IN  IF cs.segwit # None THEN cs
        ELSE [cs EXCEPT !.common = common, !.segwit = Some(SegwitCache(common[1]))]

-----------------------------------------------------------------------------
(* Taproot.  A call gives all outputs (prevouts.one is 0) or the one of an   *)
(* input (prevouts.one is its number).                                       *)

\* Does the hash need the caches at all; check_all comes before.
SizeError(t, c) == c.prevouts.one = 0 /\ Len(c.prevouts.outs) # Len(t.input)
KindError(c) == ~AnyoneCanPay(c.ty) /\ c.prevouts.one # 0

\* Prevouts::get, or the empty sequence for an index error.
PrevoutAt(c) ==
    CASE c.prevouts.one = c.i -> c.prevouts.outs
      [] c.prevouts.one = 0 /\ c.i \in DOMAIN c.prevouts.outs -> <<c.prevouts.outs[c.i]>>
      [] OTHER -> << >>

\* The first error of taproot_encode_signing_data_to.
TaprootError(t, c) ==
    LET acp == AnyoneCanPay(c.ty)
    IN  CASE SizeError(t, c) -> "PrevoutsSize"
          [] ~SizeError(t, c) /\ KindError(c) -> "PrevoutsKind"
          [] ~SizeError(t, c) /\ acp /\ c.i \notin DOMAIN t.input -> "InputsIndex"
          [] ~SizeError(t, c) /\ acp /\ c.i \in DOMAIN t.input /\ PrevoutAt(c) = << >> -> "PrevoutsIndex"
          [] OTHER -> IF Base(c.ty) = "Single" /\ c.i \notin DOMAIN t.output
                      THEN "SingleMissingOutput" ELSE "ok"

\* Mutant: one output is cached as if it were all.
TaprootCaches_One(t, c, cs) ==
    IF SizeError(t, c) THEN cs
    ELSE [WithCommon(t, cs) EXCEPT !.taproot = GetOrInsert(@, TaprootCache(c.prevouts.outs))]

\* Caches after taproot_encode_signing_data_to, which an error may end early.
TaprootCaches(t, c, cs) ==
    LET acp == AnyoneCanPay(c.ty)
        common == ~SizeError(t, c) /\ (~acp \/ Base(c.ty) \notin {"None", "Single"})
        with == IF common THEN WithCommon(t, cs) ELSE cs
    IN  IF SizeError(t, c) \/ acp \/ KindError(c) THEN with
        ELSE [with EXCEPT !.taproot = GetOrInsert(@, TaprootCache(c.prevouts.outs))]

\* Mutant: the position of the input is left out.
TaprootHash_NoIndex(t, c, cs) ==
    [kind |-> "taproot", ty |-> c.ty, version |-> t.version, lock_time |-> t.lock_time,
     prevouts |-> IF AnyoneCanPay(c.ty) THEN None ELSE <<cs.common[1].prevouts, cs.taproot[1], cs.common[1].sequences>>,
     outputs |-> IF Base(c.ty) \in {"None", "Single"} THEN None ELSE Some(cs.common[1].outputs),
     own |-> None, annex |-> c.annex,
     single |-> IF Base(c.ty) = "Single" THEN Some(t.output[c.i]) ELSE None, leaf |-> c.leaf]

\* What is hashed, given the caches after the call.
TaprootHash(t, c, cs) ==
    LET acp == AnyoneCanPay(c.ty)  base == Base(c.ty)
    IN  [kind |-> "taproot", ty |-> c.ty, version |-> t.version, lock_time |-> t.lock_time,
         prevouts |-> IF acp THEN None
                      ELSE <<cs.common[1].prevouts, cs.taproot[1], cs.common[1].sequences>>,
         outputs |-> IF base \in {"None", "Single"} THEN None ELSE Some(cs.common[1].outputs),
         own |-> IF acp THEN <<t.input[c.i].previous_output, PrevoutAt(c)[1], t.input[c.i].sequence>>
                 ELSE <<c.i>>,
         annex |-> c.annex,
         single |-> IF base = "Single" THEN Some(t.output[c.i]) ELSE None,
         leaf |-> c.leaf]

-----------------------------------------------------------------------------
(* Version 0 and legacy *)

\* p2wpkh_signature_hash wants a p2wpkh script; then the input must be there.
SegwitError(t, c) ==
    CASE c.kind = "p2wpkh" /\ c.script # "p2wpkh" -> "NotP2wpkhScript"
      [] (c.kind = "p2wpkh" => c.script = "p2wpkh") /\ c.i \notin DOMAIN t.input -> "InputsIndex"
      [] OTHER -> "ok"

\* The caches are filled before the input is looked up.
SegwitCaches(t, c, cs) ==
    IF SegwitError(t, c) = "NotP2wpkhScript"
         \/ (AnyoneCanPay(c.ty) /\ Base(c.ty) \in {"None", "Single"})
         \/ (SegwitError(t, c) # "ok" /\ AnyoneCanPay(c.ty)) THEN cs
    ELSE WithSegwit(t, cs)

\* segwit_v0_encode_signing_data_to; a zero hash is the empty sequence.
SegwitHash(t, c, cs) ==
    LET acp == AnyoneCanPay(c.ty)  base == Base(c.ty)
    IN  [kind |-> "segwit", ty |-> c.ty, version |-> t.version, lock_time |-> t.lock_time,
         prevouts |-> IF acp THEN None ELSE cs.segwit[1].prevouts,
         sequences |-> IF acp \/ base \in {"None", "Single"} THEN None ELSE cs.segwit[1].sequences,
         own |-> <<t.input[c.i].previous_output, c.script, c.value, t.input[c.i].sequence>>,
         outputs |-> CASE base \notin {"None", "Single"} -> cs.segwit[1].outputs
                       [] base = "Single" /\ c.i \in DOMAIN t.output -> Some(t.output[c.i])
                       [] OTHER -> None]

\* Mutant: the sequences of other inputs are kept.
LegacyInputs_Sequences(t, c, ty) ==
    LET input(j) == [previous_output |-> t.input[j].previous_output,
                     script_sig |-> IF j = c.i THEN Some(c.script) ELSE None,
                     sequence |-> t.input[j].sequence]
    IN  IF AnyoneCanPay(ty) THEN <<input(c.i)>> ELSE [j \in DOMAIN t.input |-> input(j)]

\* Inputs of the transaction that legacy_encode_signing_data_to builds.
LegacyInputs(t, c, ty) ==
    LET zero(j) == j # c.i /\ Base(ty) \in {"None", "Single"}
        input(j) == [previous_output |-> t.input[j].previous_output,
                     script_sig |-> IF j = c.i THEN Some(c.script) ELSE None,
                     sequence |-> IF zero(j) THEN 0 ELSE t.input[j].sequence]
    IN  IF AnyoneCanPay(ty) THEN <<input(c.i)>> ELSE [j \in DOMAIN t.input |-> input(j)]

\* Its outputs; an erased one is the empty sequence.
LegacyOutputs(t, c, ty) ==
    CASE Base(ty) = "All" -> [j \in DOMAIN t.output |-> Some(t.output[j])]
      [] Base(ty) = "Single" -> [j \in 1 .. c.i |-> IF j = c.i THEN Some(t.output[j]) ELSE None]
      [] OTHER -> << >>

\* is_invalid_use_of_sighash_single.
SingleBug(t, c) == Base(from_consensus(c.n)) = "Single" /\ c.i \notin DOMAIN t.output

\* legacy_signature_hash of an input that is there: one for the bug.
LegacyHash(t, c) ==
    LET ty == from_consensus(c.n)
    IN  IF SingleBug(t, c) THEN [kind |-> "one"]
        ELSE [kind |-> "legacy", version |-> t.version, lock_time |-> t.lock_time,
              inputs |-> LegacyInputs(t, c, ty), outputs |-> LegacyOutputs(t, c, ty), n |-> c.n]

-----------------------------------------------------------------------------
(* Answers: an error, or what is hashed, and the caches afterwards *)

Err(e) == [err |-> e, hash |-> None]
Ok(hash) == [err |-> "ok", hash |-> Some(hash)]

CachesAfter(t, c, cs) ==
    CASE c.kind = "taproot" -> TaprootCaches(t, c, cs)
      [] c.kind \in {"p2wpkh", "p2wsh"} -> SegwitCaches(t, c, cs)
      [] OTHER -> cs

Answer(t, c, cs) ==
    CASE c.kind = "taproot" ->
            IF TaprootError(t, c) # "ok" THEN Err(TaprootError(t, c))
            ELSE Ok(TaprootHash(t, c, CachesAfter(t, c, cs)))
      [] c.kind \in {"p2wpkh", "p2wsh"} ->
            IF SegwitError(t, c) # "ok" THEN Err(SegwitError(t, c))
            ELSE Ok(SegwitHash(t, c, CachesAfter(t, c, cs)))
      [] OTHER -> IF c.i \notin DOMAIN t.input THEN Err("InputsIndex") ELSE Ok(LegacyHash(t, c))

\* SighashCache::new.
Init ==
    /\ tx = Tx
    /\ common_cache = None /\ segwit_cache = None /\ taproot_cache = None
    /\ last = None

\* A hash is asked for.
Ask(c) ==
    /\ common_cache' = CachesAfter(tx, c, Caches).common
    /\ segwit_cache' = CachesAfter(tx, c, Caches).segwit
    /\ taproot_cache' = CachesAfter(tx, c, Caches).taproot
    /\ last' = <<c, Answer(tx, c, Caches)>>
    /\ UNCHANGED tx

\* witness_mut.
SetWitness(j, w) ==
    /\ tx' = [tx EXCEPT !.input[j].witness = w]
    /\ UNCHANGED <<common_cache, segwit_cache, taproot_cache, last>>

Next ==
    \/ \E c \in Calls : Ask(c)
    \/ \E j \in DOMAIN Tx.input, w \in Witnesses : SetWitness(j, w)

Spec == Init /\ [][Next]_vars

-----------------------------------------------------------------------------
(* Properties *)

\* A filled cache holds what the transaction and its spent outputs give, and
\* the version 0 one is never there without the common one it was made from.
CachesCurrent ==
    /\ common_cache \in {None, Some(CommonCache(Tx))}
    /\ segwit_cache \in {None, Some(SegwitCache(CommonCache(Tx)))}
    /\ taproot_cache \in {None, Some(TaprootCache(Spent))}
    /\ segwit_cache # None => common_cache # None

\* The caches cannot be seen: whatever was asked for before, of whatever kind
\* and with whatever error, and whatever witnesses were written, the answer is
\* that of a new SighashCache for the transaction without these witnesses.
Transparent == last # None => last[2] = Answer(Tx, last[1], NoCaches)

\* The transactions with one part of Tx changed, by the name of the part.
Changes ==
    {<<f, 0>> : f \in {"version", "lock_time", "add_input", "add_output"}}
        \cup ({"previous_output", "sequence", "script_sig", "witness"} \X DOMAIN Tx.input)
        \cup ({"output"} \X DOMAIN Tx.output)

Changed(ch) ==
    LET f == ch[1]  j == ch[2]
    IN  CASE f \in {"version", "lock_time"} -> [Tx EXCEPT ![f] = Fresh]
          [] f = "add_input" -> [Tx EXCEPT !.input = Append(@,
                [previous_output |-> Fresh, sequence |-> Fresh, script_sig |-> None, witness |-> None])]
          [] f = "add_output" -> [Tx EXCEPT !.output = Append(@, Fresh)]
          [] f = "output" -> [Tx EXCEPT !.output[j] = Fresh]
          [] f = "previous_output" -> [Tx EXCEPT !.input[j].previous_output = Fresh]
          [] f = "sequence" -> [Tx EXCEPT !.input[j].sequence = Fresh]
          [] f = "script_sig" -> [Tx EXCEPT !.input[j].script_sig = <<Fresh>>]
          [] f = "witness" -> [Tx EXCEPT !.input[j].witness = <<Fresh>>]

\* Is the part signed, by the meaning of the sighash type?
Signs(c, ch) ==
    LET f == ch[1]  j == ch[2]
        ty == IF c.kind = "legacy" THEN from_consensus(c.n) ELSE c.ty
        acp == AnyoneCanPay(ty)  base == Base(ty)
        all == base \in {"All", "Default"}
    IN  IF c.kind = "legacy" /\ base = "Single" /\ c.i > Len(Tx.output)
        THEN f = "add_output" /\ c.i = Len(Tx.output) + 1
        ELSE CASE f \in {"version", "lock_time"} -> TRUE
               [] f = "add_input" -> ~acp
               [] f = "add_output" -> all \/ (base = "Single" /\ c.i = Len(Tx.output) + 1)
               [] f = "output" -> all \/ (base = "Single" /\ j = c.i)
               [] f = "previous_output" -> ~acp \/ j = c.i
               [] f = "sequence" -> j = c.i \/ (~acp /\ (all \/ c.kind = "taproot"))
               [] OTHER -> FALSE

\* The call for the changed transaction, which spends one output more when it
\* has one input more.
CallFor(c, ch) ==
    IF c.kind = "taproot" /\ ch[1] = "add_input" /\ c.prevouts.one = 0
    THEN [c EXCEPT !.prevouts.outs = Append(@, [value |-> Fresh, spk |-> Fresh])] ELSE c

\* The meaning of a consensus type is that of the low five bits and the flag,
\* as signature checking reads them.
TypesAsConsensus ==
    last # None /\ last[1].kind = "legacy" =>
        LET n == last[1].n  ty == from_consensus(n)
        IN  /\ AnyoneCanPay(ty) <=> (n \div 128) % 2 = 1
            /\ (Base(ty) = "None") <=> (n % 32 = 2)
            /\ (Base(ty) = "Single") <=> (n % 32 = 3)

\* A signature covers what its sighash type says and nothing else: changing a
\* part of the transaction changes the hash exactly when the part is signed.
\* The scripts and witnesses of the inputs never are, and a number that is no
\* standard type has the meaning signature checking gives it.
SignsWhatTypeSays ==
    /\ TypesAsConsensus
    /\ last # None /\ last[2].err = "ok" => \A ch \in Changes :
          LET changed == Answer(Changed(ch), CallFor(last[1], ch), NoCaches)
          IN  changed.err = "ok" => ((changed # last[2]) <=> Signs(last[1], ch))

\* Hashes of different inputs differ, unless the type makes them one: with all
\* inputs signed a signature cannot be moved to another input.
InputsSeparated ==
    last # None /\ last[2].err = "ok" => \A j \in DOMAIN Tx.input \ {last[1].i} :
        LET c == last[1]
            ty == IF c.kind = "legacy" THEN from_consensus(c.n) ELSE c.ty
            moved == Answer(Tx, [c EXCEPT !.i = j], NoCaches)
        IN  moved # last[2] \/ (c.kind = "legacy" /\ SingleBug(Tx, c))
=============================================================================
