-------------------------------- MODULE Psbt --------------------------------
(***************************************************************************)
(* The life of a partially signed transaction (bitcoin/src/psbt/mod.rs)    *)
(* among several parties: each fills in what it knows, signs with its own  *)
(* keys, sends its copy and combines the copies it receives, in any order  *)
(* and any number of times; one extracts the transaction.                  *)
(***************************************************************************)
EXTENDS PsbtMap

CONSTANTS
    Parties,
    Jobs,           \* transactions to sign, a sequence of records with the fields named below
    Keys,           \* keys of each party
    MAX,            \* largest u64
    Kilo,           \* 1000
    BaseWeight,     \* weight of the transaction without witnesses
    WitnessWeight,  \* weight of the witness of an input
    MaxFeeRate,
    MaxSent         \* bound: copies sent

VARIABLES
    job,            \* the transaction the parties work on
    psbt,           \* per party, its copy or none
    sent,           \* serialized copies; kept, so lost, repeated and late ones are covered
    result,         \* per party, how its last combine or extraction ended
    extracted       \* per party, the transactions it extracted

vars == <<job, psbt, sent, result, extracted>>

Tx == Jobs[job].tx                \* the unsigned transaction
Prevouts == Jobs[job].prevouts    \* the outputs its inputs really spend
Scripts == Jobs[job].scripts      \* per input, the scripts of that output and the root of its script tree
Updates == Jobs[job].updates      \* per party and input, sets of fields it may know to be true
Sources == Jobs[job].sources      \* key sources of xpubs a party may know, by xpub
Needed == Jobs[job].needed        \* per input, the keys whose signatures complete it
Raisers == Jobs[job].raisers      \* parties that set the version, a public field
Inputs == DOMAIN Tx.input

-----------------------------------------------------------------------------
(* Spent outputs and fees *)

\* spend_utxo; an index beyond the outputs of the transaction panics.
spend_utxo(p, i) ==
    LET input == p.inputs[i]  vout == Tx.input[i].vout
    IN  CASE input["witness_utxo"] # None -> [err |-> "none", val |-> input["witness_utxo"][1]]
          [] input["witness_utxo"] = None /\ input["non_witness_utxo"] = None ->
                [err |-> "MissingSpendUtxo"]
          [] OTHER ->
                LET outs == input["non_witness_utxo"][1].output
                IN  IF vout \in DOMAIN outs THEN [err |-> "none", val |-> outs[vout]]
                    ELSE [err |-> "panic"]

\* iter_funding_utxos.
FundingUtxo(p, i) ==
    LET u == spend_utxo(p, i)
    IN  CASE u.err = "MissingSpendUtxo" -> [err |-> "MissingUtxo"]
          [] u.err = "panic" -> [err |-> "PsbtUtxoOutOfbounds"]
          [] OTHER -> u

\* Mutant: the additions wrap.
CheckedAdd_Wrap(st, v) ==
    CASE st.err # "none" -> st
      [] st.err = "none" /\ v.err # "none" -> [st EXCEPT !.err = v.err]
      [] OTHER -> [st EXCEPT !.sum = (@ + v.val) % (MAX + 1)]

\* checked_add of an amount, or of the error in its place, onto a sum, unless
\* something failed before.
CheckedAdd(st, v) ==
    CASE st.err # "none" -> st
      [] st.err = "none" /\ v.err # "none" -> [st EXCEPT !.err = v.err]
      [] st.err = "none" /\ v.err = "none" /\ st.sum + v.val > MAX -> [st EXCEPT !.err = "FeeOverflow"]
      [] OTHER -> [st EXCEPT !.sum = @ + v.val]

\* The sum of the first n amounts, for every n.
SumUpTo(amounts) ==
    LET sum[n \in 0 .. Len(amounts)] ==
            IF n = 0 THEN [err |-> "none", sum |-> 0] ELSE CheckedAdd(sum[n - 1], amounts[n])
    IN  sum

CheckedSum(amounts) == SumUpTo(amounts)[Len(amounts)]

FundingAmount(p, i) ==
    LET u == FundingUtxo(p, i)
    IN  IF u.err = "none" THEN [err |-> "none", val |-> u.val.value] ELSE u

fee(p) ==
    LET ins == CheckedSum([i \in Inputs |-> FundingAmount(p, i)])
        outs == CheckedSum([i \in DOMAIN Tx.output |-> [err |-> "none", val |-> Tx.output[i]]])
    IN  CASE ins.err # "none" -> ins
          [] ins.err = "none" /\ outs.err # "none" -> outs
          [] ins.err = "none" /\ outs.err = "none" /\ ins.sum < outs.sum -> [err |-> "NegativeFee"]
          [] OTHER -> [err |-> "none", val |-> ins.sum - outs.sum]

\* internal_extract_tx: the final scripts go into the inputs.
internal_extract_tx(p) ==
    [Tx EXCEPT !.input = [i \in Inputs |->
        [@[i] EXCEPT !.script_sig = p.inputs[i]["final_script_sig"],
                     !.witness = p.inputs[i]["final_script_witness"]]]]

weight(tx) ==
    BaseWeight + WitnessWeight * Cardinality({i \in Inputs : tx.input[i].witness # None})

\* The fee rate is compared with the limit; the product saturates.
AbsurdFeeRate(f, tx) ==
    (IF f * Kilo > MAX THEN MAX ELSE f * Kilo) \div weight(tx) > MaxFeeRate

\* internal_extract_tx_with_fee_rate_limit: how it ends.
ExtractResult(p) ==
    LET f == fee(p)
    IN  CASE f.err = "MissingUtxo" -> "MissingInputValue"
          [] f.err = "NegativeFee" -> "SendingTooMuch"
          [] f.err = "FeeOverflow" -> "AbsurdFeeRate"
          [] f.err = "none" -> IF AbsurdFeeRate(f.val, internal_extract_tx(p)) THEN "AbsurdFeeRate" ELSE "Ok"
          [] OTHER -> "panic"

-----------------------------------------------------------------------------
(* Signing *)

\* output_type, or the error in its place.
output_type(p, i) ==
    LET u == spend_utxo(p, i)
        redeem == p.inputs[i]["redeem_script"]
    IN  IF u.err # "none" THEN u.err
        ELSE CASE u.val.spk = "bare" -> "Bare"
               [] u.val.spk = "p2wpkh" -> "Wpkh"
               [] u.val.spk = "p2wsh" -> "Wsh"
               [] u.val.spk = "p2sh" /\ redeem = Some("p2wpkh") -> "ShWpkh"
               [] u.val.spk = "p2sh" /\ redeem = Some("p2wsh") -> "ShWsh"
               [] u.val.spk = "p2sh" /\ redeem \notin {Some("p2wpkh"), Some("p2wsh")} -> "Sh"
               [] u.val.spk = "p2tr" -> "Tr"
               [] OTHER -> "UnknownOutputType"

EcdsaTypes == {"Bare", "Wpkh", "Wsh", "ShWpkh", "ShWsh", "Sh"}
EcdsaSighashTypes == {"All", "None", "AllPlusAnyoneCanPay"}
TapSighashTypes == EcdsaSighashTypes \cup {"Default"}

\* What a signature commits to.  A legacy hash covers no value, a version 0 one
\* that of the input, a taproot one those of all inputs or of this one.
Message(kind, i, script, spent, ty) ==
    [kind |-> kind, input |-> i, script |-> script, spent |-> spent, sighash_type |-> ty]

\* Input::ecdsa_hash_ty; another value is not standard.
EcdsaHashType(p, i) ==
    LET ty == p.inputs[i]["sighash_type"] IN IF ty = None THEN "All" ELSE ty[1]

\* The hash for an input of the given output type, sighash type and UTXO.
EcdsaHash(type, ty, i, utxo, redeem, witness) ==
    LET ok(kind, script, spent) == [err |-> "none", val |-> Message(kind, i, script, spent, ty)]
    IN  CASE type \notin EcdsaTypes -> [err |-> IF type = "Tr" THEN "WrongSigningAlgorithm" ELSE type]
          [] type \in EcdsaTypes /\ ty \notin EcdsaSighashTypes -> [err |-> "InvalidSighashType"]
          [] type = "Bare" /\ ty \in EcdsaSighashTypes -> ok("legacy", utxo.val.spk, None)
          [] type = "Sh" /\ redeem # None /\ ty \in EcdsaSighashTypes ->
                ok("legacy", redeem[1], None)
          [] type = "Sh" /\ redeem = None /\ ty \in EcdsaSighashTypes ->
                [err |-> "MissingRedeemScript"]
          [] type \in {"Wpkh", "ShWpkh"} /\ ty \in EcdsaSighashTypes ->
                ok("segwit", "p2wpkh", <<utxo.val.value>>)
          [] type \in {"Wsh", "ShWsh"} /\ witness # None /\ ty \in EcdsaSighashTypes ->
                ok("segwit", witness[1], <<utxo.val.value>>)
          [] OTHER -> [err |-> "MissingWitnessScript"]

sighash_ecdsa(p, i) ==
    EcdsaHash(output_type(p, i), EcdsaHashType(p, i), i, spend_utxo(p, i),
              p.inputs[i]["redeem_script"], p.inputs[i]["witness_script"])

\* Mutant: only the output of this input is committed to.
sighash_taproot_One(p, i, leaf) ==
    LET opt == p.inputs[i]["sighash_type"]
        ty == IF opt = None THEN "Default" ELSE opt[1]
    IN  [err |-> "none", val |-> Message("taproot", i, leaf, <<spend_utxo(p, i).val>>, ty)]

\* sighash_taproot; leaf is the empty sequence for a key spend.
sighash_taproot(p, i, leaf) ==
    LET opt == p.inputs[i]["sighash_type"]
        ty == IF opt = None THEN "Default" ELSE opt[1]
        errors == {spend_utxo(p, j).err : j \in Inputs} \ {"none"}
        one == ty = "AllPlusAnyoneCanPay"
    IN  CASE ty \notin TapSighashTypes -> [err |-> "InvalidSighashType"]
          [] ty \in TapSighashTypes /\ "panic" \in errors -> [err |-> "panic"]
          [] ty \in TapSighashTypes /\ errors = {"MissingSpendUtxo"} /\ ~one -> [err |-> "MissingSpendUtxo"]
          [] OTHER ->
                [err |-> "none",
                 val |-> Message("taproot", i, leaf,
                                 IF one THEN <<spend_utxo(p, i).val>>
                                 ELSE [j \in Inputs |-> spend_utxo(p, j).val], ty)]

\* A signature: the key of the signer, what the key was tweaked with, as an
\* option, and what was signed.
Signature(key, tweak, msg) == [key |-> key, tweak |-> tweak, msg |-> msg]

\* Mutant: the signatures of others are replaced.
AddPartialSigs_Replace(input, mine, h) ==
    IF mine = {} \/ h.err # "none" THEN [err |-> h.err, val |-> input]
    ELSE [err |-> "none", val |-> [input EXCEPT
            !["partial_sigs"] = [pk \in mine |-> Signature(pk, None, h.val)]]]

\* One signature over h for each key of ours; the error of the sighash counts
\* only when there is such a key.
AddPartialSigs(input, mine, h) ==
    CASE mine = {} -> [err |-> "none", val |-> input]
      [] mine # {} /\ h.err # "none" -> [err |-> h.err, val |-> input]
      [] OTHER -> [err |-> "none",
                   val |-> [input EXCEPT !["partial_sigs"] =
                              Extend(@, [pk \in mine |-> Signature(pk, None, h.val)])]]

\* bip32_sign_ecdsa: all keys of the derivations that k has.
bip32_sign_ecdsa(p, i, k) ==
    AddPartialSigs(p.inputs[i], DOMAIN p.inputs[i]["bip32_derivation"] \cap k, sighash_ecdsa(p, i))

\* The internal key is ours, is for the key spend and has not signed.
SignsKeySpend(input, k) ==
    /\ input["tap_internal_key"] # None
    /\ input["tap_internal_key"][1] \in DOMAIN input["tap_key_origins"] \cap k
    /\ input["tap_key_origins"][input["tap_internal_key"][1]] = {}
    /\ input["tap_key_sig"] = None

\* Our keys with their leaves that have no signature.
UnsignedLeaves(input, k) ==
    LET origins == input["tap_key_origins"]
    IN  {xl \in (DOMAIN origins \cap k) \X UNION Range(origins) : xl[2] \in origins[xl[1]]}
            \ DOMAIN input["tap_script_sigs"]


\* The signature of a key spend is made with the key pair tweaked by the merkle
\* root this copy knows, an option: a copy that knows none signs for an output
\* without scripts.
TapKeySig(p, i) ==
    Signature(p.inputs[i]["tap_internal_key"][1], Some(p.inputs[i]["tap_merkle_root"]),
              sighash_taproot(p, i, None).val)

\* bip32_sign_schnorr: the key spend and every leaf that is ours to sign, the
\* latter with the plain key.  The copy of the input is written back only when
\* nothing failed.
AddTapSigs(p, i, key_spend, leaves) ==
    LET input == p.inputs[i]
        h == sighash_taproot(p, i, None)
    IN  CASE ~key_spend /\ leaves = {} -> [err |-> "none", val |-> input]
          [] (key_spend \/ leaves # {}) /\ h.err # "none" -> [err |-> h.err, val |-> input]
          [] OTHER ->
                [err |-> "none",
                 val |-> [input EXCEPT
                    !["tap_key_sig"] =
                        IF key_spend THEN Some(TapKeySig(p, i)) ELSE @,
                    !["tap_script_sigs"] =
                        Extend(@, [xl \in leaves |->
                            Signature(xl[1], None, sighash_taproot(p, i, Some(xl[2])).val)])]]

bip32_sign_schnorr(p, i, k) ==
    AddTapSigs(p, i, SignsKeySpend(p.inputs[i], k), UnsignedLeaves(p.inputs[i], k))

SignInput(p, i, k) ==
    LET type == output_type(p, i)
    IN  CASE type \in EcdsaTypes -> bip32_sign_ecdsa(p, i, k)
          [] type = "Tr" -> bip32_sign_schnorr(p, i, k)
          [] OTHER -> [err |-> type, val |-> p.inputs[i]]

\* The inputs up to the first panic are written back.
WithSigned(p, signed) ==
    LET reached(i) == \A j \in 1 .. i : signed[j].err # "panic"
    IN  [psbt |-> [p EXCEPT !.inputs = [i \in Inputs |->
                      IF reached(i) THEN signed[i].val ELSE @[i]]],
         panic |-> ~reached(Len(Tx.input))]

\* sign: every input is tried, whatever errors the others give; a panic ends it.
\* The sighashes read only fields that signing leaves alone.
sign(p, k) == WithSigned(p, [i \in Inputs |-> SignInput(p, i, k)])

-----------------------------------------------------------------------------
(* What is true of a job *)

\* What a verifier of input i of the job J expects a signature of this type to
\* commit to.
Expected(J, i, leaf, ty) ==
    LET out == J.prevouts[i]
        redeem == J.scripts[i].redeem
        wpkh == out.spk = "p2wpkh" \/ (out.spk = "p2sh" /\ redeem = "p2wpkh")
        wsh == out.spk = "p2wsh" \/ (out.spk = "p2sh" /\ redeem = "p2wsh")
    IN  CASE out.spk = "p2tr" -> Message("taproot", i, leaf,
                IF ty = "AllPlusAnyoneCanPay" THEN <<out>> ELSE J.prevouts, ty)
          [] wpkh -> Message("segwit", i, "p2wpkh", <<out.value>>, ty)
          [] wsh -> Message("segwit", i, J.scripts[i].witness, <<out.value>>, ty)
          [] out.spk = "p2sh" /\ ~wpkh /\ ~wsh -> Message("legacy", i, redeem, None, ty)
          [] OTHER -> Message("legacy", i, out.spk, None, ty)

\* The key a verifier expects it from: a taproot output without a leaf commits
\* to the internal key tweaked by the root of its scripts, if it has any.
ExpectedTweak(J, i, leaf) ==
    IF J.prevouts[i].spk = "p2tr" /\ leaf = None THEN Some(J.scripts[i].root) ELSE None

CommitsTo(J, i, sig) == sig.msg = Expected(J, i, sig.msg.script, sig.msg.sighash_type)

Verifies(J, i, sig) ==
    CommitsTo(J, i, sig) /\ sig.tweak = ExpectedTweak(J, i, sig.msg.script)

\* A key spend signed by a copy that did not know the root of the output's
\* scripts: it is over the right message, with the key of an output without
\* scripts.
SignedWithoutRoot(J, i, sig) ==
    /\ CommitsTo(J, i, sig)
    /\ J.scripts[i].root # None /\ sig.tweak = Some(None)

\* A finite map and an option, whatever their values.
IsMap(m) == IsFiniteSet(DOMAIN m) /\ m = [k \in DOMAIN m |-> m[k]]
IsOption(o) == o = None \/ o = Some(o[1])

\* v is a value of field f of input i that is true: outputs and scripts are those
\* of the output the input spends, preimages have their hashes, signatures verify
\* and are filed under the keys that made them.
IsTrue(J, i, f, v) ==
    /\ IF f \in Maps THEN IsMap(v) ELSE IsOption(v)
    /\ f \in Preimages => \A k \in DOMAIN v : HashOf(v[k]) = k
    /\ f = "witness_utxo" /\ v # None => v[1] = J.prevouts[i]
    /\ f = "non_witness_utxo" /\ v # None =>
          \A n \in DOMAIN v[1].output : n = J.tx.input[i].vout => v[1].output[n] = J.prevouts[i]
    /\ f = "redeem_script" /\ v # None => v[1] = J.scripts[i].redeem
    /\ f = "witness_script" /\ v # None => v[1] = J.scripts[i].witness
    /\ f = "tap_merkle_root" /\ v # None => v = J.scripts[i].root
    /\ f = "tap_key_origins" => \A x \in DOMAIN v : IsFiniteSet(v[x])
    /\ f \in {"partial_sigs", "tap_key_sig", "tap_script_sigs"} =>
          \A k \in DOMAIN v : Verifies(J, i, v[k])
    /\ f = "partial_sigs" => \A k \in DOMAIN v : v[k].key = k
    /\ f = "tap_script_sigs" => \A k \in DOMAIN v : v[k].key = k[1]
    /\ f = "final_script_witness" /\ v # None => \A sig \in v[1] : Verifies(J, i, sig)

\* A transaction to sign, the outputs it spends, and parties that know only what
\* is true.  Key sources of an xpub may conflict, but a path leads to it from one
\* master key: two would have to derive the same key.
JobOK(J) ==
    /\ J.tx \in [input : Seq([vout : Nat, script_sig : Seq(STRING), witness : Seq(STRING)]),
                 output : Seq(Nat)]
    /\ J.prevouts \in [DOMAIN J.tx.input -> [spk : STRING, value : Nat]]
    /\ \A a \in Parties, i \in DOMAIN J.tx.input : \A u \in J.updates[a][i] :
          \A f \in DOMAIN u : f \in DOMAIN Input /\ IsTrue(J, i, f, u[f])
    /\ \A x \in DOMAIN J.sources :
          /\ x \in Nat /\ J.sources[x] \subseteq [fp : Nat, path : Seq(Nat)]
          /\ \A s, t \in J.sources[x] : s.path = t.path => s = t

ASSUME JobsAssumption == \A j \in DOMAIN Jobs : JobOK(Jobs[j])

ASSUME SentAssumption == MaxSent \in Nat

\* A rate above the limit is one even when the product with Kilo saturates.
ASSUME FeeAssumption ==
    /\ MAX \in Nat /\ Kilo \in Nat /\ MaxFeeRate \in Nat
    /\ BaseWeight \in Nat \ {0} /\ WitnessWeight \in Nat
    /\ \A j \in DOMAIN Jobs :
          (MaxFeeRate + 1) * (BaseWeight + WitnessWeight * Len(Jobs[j].tx.input)) <= MAX

-----------------------------------------------------------------------------
Init ==
    /\ job \in DOMAIN Jobs
    /\ psbt = [a \in Parties |-> None]
    /\ sent = {}
    /\ result = [a \in Parties |-> "none"]
    /\ extracted = [a \in Parties |-> None]

Has(a) == psbt[a] # None
Copy(a) == psbt[a][1]

Create(a) ==
    /\ ~Has(a) /\ result[a] = "none"
    /\ from_unsigned_tx(Tx) # None
    /\ psbt' = [psbt EXCEPT ![a] = from_unsigned_tx(Tx)]
    /\ UNCHANGED <<sent, result, extracted>>

WithInput(p, i, input) == [p EXCEPT !.inputs[i] = input]

\* What is there is kept.
UpdateInput(input, u) ==
    [f \in DOMAIN input |-> CASE f \notin DOMAIN u -> input[f]
                              [] f \in DOMAIN u /\ f \in Maps -> Extend(u[f], input[f])
                              [] OTHER -> CombineOption(input[f], u[f])]

\* The user writes what it knows into an input.
Update(a, i, u) ==
    /\ Has(a)
    /\ psbt' = [psbt EXCEPT ![a] = Some(WithInput(Copy(a), i, UpdateInput(Copy(a).inputs[i], u)))]
    /\ UNCHANGED <<sent, result, extracted>>

AddXpub(a, x) ==
    /\ Has(a) /\ x \notin DOMAIN Copy(a).xpub
    /\ \E source \in Sources[x] :
          psbt' = [psbt EXCEPT ![a] = Some([Copy(a) EXCEPT !.xpub = Extend(@, [y \in {x} |-> source])])]
    /\ UNCHANGED <<sent, result, extracted>>

\* The user writes the public field version, which combine keeps the highest of.
SetVersion(a) ==
    /\ Has(a) /\ a \in Raisers
    /\ psbt' = [psbt EXCEPT ![a] = Some([Copy(a) EXCEPT !.version = 2])]
    /\ UNCHANGED <<sent, result, extracted>>

Sign(a) ==
    /\ Has(a)
    /\ \E s \in {sign(Copy(a), Keys[a])} :
          /\ psbt' = [psbt EXCEPT ![a] = Some(s.psbt)]
          /\ result' = IF s.panic THEN [result EXCEPT ![a] = "panic"] ELSE result
    /\ UNCHANGED <<sent, extracted>>

Send(a) ==
    /\ Has(a) /\ Cardinality(sent) < MaxSent
    /\ sent' = sent \cup {serialize(Copy(a))}
    /\ UNCHANGED <<psbt, result, extracted>>

\* A copy is decoded and becomes ours or is combined with ours.
Receive(a, m) ==
    /\ \E d \in {deserialize(m)} :
          IF d.err # "none" THEN result' = [result EXCEPT ![a] = d.err] /\ psbt' = psbt
          ELSE \E c \in {IF Has(a) THEN combine(Copy(a), d.psbt)
                          ELSE [res |-> "Ok", psbt |-> d.psbt]} :
                 /\ psbt' = [psbt EXCEPT ![a] = Some(c.psbt)]
                 /\ result' = [result EXCEPT ![a] = c.res]
    /\ UNCHANGED <<sent, extracted>>

SigsOf(input) ==
    Range(input["partial_sigs"]) \cup Range(input["tap_key_sig"]) \cup Range(input["tap_script_sigs"])

\* The finalizer is not part of the library: the signatures become the witness.
FinalizeInput(input) == [input EXCEPT !["final_script_witness"] = Some(SigsOf(input))]

Finalize(a, i) ==
    /\ Has(a)
    /\ Copy(a).inputs[i]["final_script_witness"] = None
    /\ {s.key : s \in SigsOf(Copy(a).inputs[i])} = Needed[i]
    /\ psbt' = [psbt EXCEPT ![a] = Some(WithInput(Copy(a), i, FinalizeInput(Copy(a).inputs[i])))]
    /\ UNCHANGED <<sent, result, extracted>>

\* extract_tx takes the PSBT; only SendingTooMuch gives it back.
Extract(a) ==
    /\ Has(a)
    /\ \E r \in {ExtractResult(Copy(a))} :
          /\ result' = [result EXCEPT ![a] = r]
          /\ psbt' = [psbt EXCEPT ![a] = IF r = "SendingTooMuch" THEN @ ELSE None]
          /\ extracted' = [extracted EXCEPT ![a] =
                             IF r = "Ok" THEN Some(internal_extract_tx(Copy(a))) ELSE @]
    /\ UNCHANGED sent

Next ==
    /\ \E a \in Parties :
          \/ Create(a)
          \/ \E i \in Inputs : \E u \in Updates[a][i] : Update(a, i, u)
          \/ \E x \in DOMAIN Sources : AddXpub(a, x)
          \/ SetVersion(a)
          \/ Sign(a)
          \/ Send(a)
          \/ \E m \in sent : Receive(a, m)
          \/ \E i \in Inputs : Finalize(a, i)
          \/ Extract(a)
    /\ UNCHANGED job

Spec == Init /\ [][Next]_vars

-----------------------------------------------------------------------------
(* Properties *)

TypeOK ==
    /\ \A a \in Parties : Has(a) =>
          /\ Copy(a).unsigned_tx = Tx
          /\ DOMAIN Copy(a).inputs = Inputs
          /\ Len(Copy(a).outputs) = Len(Tx.output)
          /\ \A i \in Inputs, f \in DOMAIN Input \ Maps : Len(Copy(a).inputs[i][f]) <= 1
    /\ Cardinality(sent) <= MaxSent


\* The fields of mine that next has too: every key of a map and every option,
\* but for a previous transaction that a witness output replaces.
FieldsKept(mine, next) ==
    \A f \in DOMAIN mine :
        IF f \in Maps THEN DOMAIN mine[f] \subseteq DOMAIN next[f]
        ELSE \/ mine[f] \in {None, next[f]}
             \/ f = "non_witness_utxo" /\ mine["witness_utxo"] = None
                                       /\ next["witness_utxo"] # None

\* No operation other than extraction loses a signer or a field of an input: what
\* has been signed and combined stays signed, through failed signing and combining
\* (sign and combine in psbt/mod.rs).
SignersKept ==
    [][\A a \in Parties : Has(a) /\ psbt'[a] # None => \A i \in Inputs :
          \A mine \in {Copy(a).inputs[i]}, next \in {psbt'[a][1].inputs[i]} :
              /\ {s.key : s \in SigsOf(mine)} \subseteq {s.key : s \in SigsOf(next)}
              /\ FieldsKept(mine, next)]_vars

WithoutPrevious(p) ==
    [p EXCEPT !.inputs = [i \in Inputs |-> [@[i] EXCEPT !["non_witness_utxo"] = None]]]

\* xy is what combine makes of x with y, yx of y with x.
CombinedWell(x, y, xy, yx) ==
    /\ (xy.res = "Ok") <=> (yx.res = "Ok")
    /\ xy.psbt.version = Max({x.version, y.version})
    /\ xy.res = "Ok" =>
          /\ DOMAIN xy.psbt.xpub = DOMAIN x.xpub \cup DOMAIN y.xpub
          /\ xy.psbt.xpub = yx.psbt.xpub
          /\ \A i \in Inputs, f \in DOMAIN Input \cap Maps :
                DOMAIN xy.psbt.inputs[i][f]
                    = DOMAIN x.inputs[i][f] \cup DOMAIN y.inputs[i][f]
    /\ xy.res # "Ok" =>
          /\ [xy.psbt EXCEPT !.xpub = x.xpub, !.version = x.version] = x
          /\ \A k \in DOMAIN x.xpub : k \in DOMAIN xy.psbt.xpub
          /\ \A k \in DOMAIN xy.psbt.xpub :
                xy.psbt.xpub[k] \in {m.xpub[k] : m \in {n \in {x, y} : k \in DOMAIN n.xpub}}
    /\ \A again \in {combine(xy.psbt, y)} :
          again.res = xy.res /\ WithoutPrevious(again.psbt) = WithoutPrevious(xy.psbt)

\* Combining gives all keys of both copies in every map, in either order, and
\* succeeds in both orders or in none.  When key sources conflict midway the
\* copy has taken the higher version and some xpubs of the other, none of its
\* own is lost and no input or output is touched.  A copy that arrives a second
\* time, after a success or a failure, changes nothing more, but for a previous
\* transaction that the first combination dropped for a witness output.
CombineKeepsAll ==
    \A a, b \in Parties : a # b /\ Has(a) /\ Has(b) =>
        \A x \in {Copy(a)}, y \in {Copy(b)} :
            \A xy \in {combine(x, y)}, yx \in {combine(y, x)} : CombinedWell(x, y, xy, yx)

\* Every copy is for the transaction, with a map per input and output.  One
\* that was sent arrives as it was, no stream with a map missing is
\* accepted, and no input map takes one of its pairs a second time.  A copy
\* whose version someone raised is written with it and then refused by every
\* reader, so the version never reaches a party that did not raise it.
SentArrives ==
    /\ TypeOK
    /\ \A a \in Parties : Has(a) => \A stream \in {serialize(Copy(a))} :
          /\ IF Copy(a).version = 0
               THEN deserialize(stream) = [err |-> "none", psbt |-> Copy(a)]
               ELSE deserialize(stream) = [err |-> "Version"] /\ a \in Raisers
          /\ deserialize(SubSeq(stream, 1, Len(stream) - 1)).err # "none"
          /\ \A i \in Inputs : \A map \in {DecodeMap(stream[i + 1], Input)} :
                \A pair \in Range(stream[i + 1]) : insert_pair(map, pair).err # "none"

\* The sum of the first n values, for every n.
TotalUpTo(values) ==
    LET sum[n \in 0 .. Len(values)] == IF n = 0 THEN 0 ELSE sum[n - 1] + values[n]
    IN  sum

Total(values) == TotalUpTo(values)[Len(values)]

\* A transaction extracted without an error spends what its inputs are worth,
\* at a fee rate within the limit, and is the unsigned one but for the final
\* scripts, whose signatures verify unless made without the merkle root.
ExtractSound ==
    \A a \in Parties : extracted[a] # None =>
        LET tx == extracted[a][1]
            ins == Total([i \in Inputs |-> Prevouts[i].value])
            outs == Total(Tx.output)
        IN  /\ ins >= outs
            /\ (ins - outs) * Kilo < (MaxFeeRate + 1) * weight(tx)
            /\ [tx EXCEPT !.input = [i \in Inputs |->
                    [@[i] EXCEPT !.script_sig = None, !.witness = None]]] = Tx
            /\ \A i \in Inputs : \A sigs \in Range(tx.input[i].witness) :
                  \A sig \in sigs :
                      Verifies(Jobs[job], i, sig) \/ SignedWithoutRoot(Jobs[job], i, sig)

\* "this function is commutative i.e., A.combine(B) == B.combine(A)"
CombineCommutes ==
    \A a, b \in Parties : Has(a) /\ Has(b) =>
        combine(Copy(a), Copy(b)) = combine(Copy(b), Copy(a))

\* No operation panics: a derivation path that is not the suffix of a longer one
\* is to be reported as an error, and the last case of the extraction is marked
\* as unreachable.
NeverPanics == \A a \in Parties : result[a] # "panic"
=============================================================================
