----------------------------- MODULE Templates -----------------------------
(***************************************************************************)
(* Standard scripts and witness programs                                   *)
(* (bitcoin/src/blockdata/script/{borrowed,owned,witness_program,          *)
(* witness_version}.rs), the signature operations of a transaction         *)
(* (bitcoin/src/blockdata/transaction.rs) and the dust limit.              *)
(***************************************************************************)
EXTENDS Script, Base58

(***************************************************************************)
(* Witness versions and programs.                                          *)
(***************************************************************************)
MIN_SIZE == 2
MAX_SIZE == 40
P2A_PROGRAM == <<78, 115>>

WitnessVersions == 0..16

VersionOk(v) == [err |-> "none", version |-> v]
VersionErr(e) == [err |-> e, version |-> 0]

\* TryFrom<u8>, TryFrom<Opcode> and TryFrom<Instruction> for WitnessVersion.
VersionFromU8(n) == IF n \in WitnessVersions THEN VersionOk(n) ELSE VersionErr("TryFromError")
VersionFromOpcode(op) ==
    IF op = OP_0 THEN VersionOk(0)
    ELSE IF op \in OP_PUSHNUM_1..OP_PUSHNUM_16 THEN VersionFromU8(op - OP_PUSHNUM_1 + 1)
    ELSE VersionErr("TryFromError")
VersionFromInstruction(i) ==
    IF ~IsPush(i) THEN VersionFromOpcode(i.op)
    ELSE IF i.data = << >> THEN VersionOk(0) ELSE VersionErr("DataPush")

\* From<WitnessVersion> for Opcode.
VersionOpcode(v) == IF v = 0 THEN OP_0 ELSE OP_PUSHNUM_1 + v - 1

Program(version, program) == [err |-> "none", version |-> version, program |-> program]
ProgramErr(e) == [err |-> e]

WitnessProgramNew(version, bytes) ==
    IF Len(bytes) < MIN_SIZE \/ Len(bytes) > MAX_SIZE THEN ProgramErr("InvalidLength")
    ELSE IF version = 0 /\ Len(bytes) \notin {20, 32} THEN ProgramErr("InvalidSegwitV0Length")
    ELSE Program(version, bytes)

p2a == Program(1, P2A_PROGRAM)

ProgramKind(p) ==
    CASE p.version = 0 /\ Len(p.program) = 20 -> "P2wpkh"
      [] p.version = 0 /\ Len(p.program) = 32 -> "P2wsh"
      [] p.version = 1 /\ Len(p.program) = 32 -> "P2tr"
      [] p.version = 1 /\ p.program = P2A_PROGRAM -> "P2a"
      [] OTHER -> "none"

(***************************************************************************)
(* Recognising a script.                                                   *)
(***************************************************************************)

\* Mutant: the length byte of the program is not compared with the script.
witness_version_AnyLength(s) ==
    IF Len(s) \notin 4..42 THEN << >>
    ELSE IF s[2] < 2 \/ s[2] > 40 THEN << >>
    ELSE LET v == VersionFromOpcode(s[1]) IN IF v.err = "none" THEN <<v.version>> ELSE << >>

witness_version(s) ==
    IF Len(s) \notin 4..42 THEN << >>
    ELSE IF s[2] < 2 \/ s[2] > 40 THEN << >>
    ELSE IF Len(s) - 2 # s[2] THEN << >>
    ELSE LET v == VersionFromOpcode(s[1]) IN IF v.err = "none" THEN <<v.version>> ELSE << >>

is_witness_program(s) == witness_version(s) # << >>

is_p2sh(s) == Len(s) = 23 /\ s[1] = OP_HASH160 /\ s[2] = 20 /\ s[23] = OP_EQUAL
is_p2pkh(s) ==
    /\ Len(s) = 25
    /\ SubSeq(s, 1, 3) = <<OP_DUP, OP_HASH160, 20>>
    /\ SubSeq(s, 24, 25) = <<OP_EQUALVERIFY, OP_CHECKSIG>>
is_p2wsh(s) == Len(s) = 34 /\ witness_version(s) = <<0>> /\ s[2] = 32
is_p2wpkh(s) == Len(s) = 22 /\ witness_version(s) = <<0>> /\ s[2] = 20
is_p2tr(s) == Len(s) = 34 /\ witness_version(s) = <<1>> /\ s[2] = 32

p2pk_pubkey_bytes(s) ==
    CASE Len(s) = 67 /\ s[1] = 65 /\ s[67] = OP_CHECKSIG -> <<SubSeq(s, 2, 66)>>
      [] Len(s) = 35 /\ s[1] = 33 /\ s[35] = OP_CHECKSIG -> <<SubSeq(s, 2, 34)>>
      [] OTHER -> << >>
is_p2pk(s) == p2pk_pubkey_bytes(s) # << >>

is_op_return(s) == s # << >> /\ s[1] = OP_RETURN
is_provably_unspendable(s) ==
    s # << >> /\ classify(s[1], "Legacy").class \in {"ReturnOp", "IllegalOp"}

is_push_only(s) ==
    \A i \in Range(instructions(s)) : IsPush(i) \/ IsOp(i, 0..OP_PUSHNUM_16)

\* redeem_script: the last push of a script that is made of data pushes only.
RedeemOf(items) ==
    IF items = << >> \/ \E i \in DOMAIN items : ~IsPush(items[i]) THEN << >> ELSE <<Last(items).data>>
redeem_script(s) == RedeemOf(instructions(s))

\* is_multisig: a number, the keys pushed (fewer than 256, the range of the
\* counter), an opcode that must be their count if it is a number, and
\* OP_CHECKMULTISIG as the last instruction.
MultisigItems(items) ==
    LET keys == {n \in 0..Len(items) : \A k \in 2..(n + 1) : k \in DOMAIN items /\ IsPush(items[k])}
        num_pubkeys == Max(keys)
        count == num_pubkeys + 2
    IN /\ items # << >> /\ items[1].kind = "op" /\ decode_pushnum(items[1].op) # << >>
       /\ count \in DOMAIN items /\ items[count].kind = "op"
       /\ decode_pushnum(items[count].op) \in {<< >>, <<num_pubkeys>>}
       /\ decode_pushnum(items[1].op)[1] <= num_pubkeys
       /\ Len(items) = count + 1 /\ IsOp(items[count + 1], {OP_CHECKMULTISIG})
is_multisig(s) == MultisigItems(instructions(s))

(***************************************************************************)
(* Making a script.                                                        *)
(***************************************************************************)
new_p2pkh(hash) ==
    extend(<< >>, <<Op(OP_DUP), Op(OP_HASH160), Push(hash), Op(OP_EQUALVERIFY), Op(OP_CHECKSIG)>>)
new_p2sh(hash) == extend(<< >>, <<Op(OP_HASH160), Push(hash), Op(OP_EQUAL)>>)
new_p2pk(key) == extend(<< >>, <<Push(key), Op(OP_CHECKSIG)>>)
new_op_return(data) == extend(<< >>, <<Op(OP_RETURN), Push(data)>>)
new_witness_program(p) == extend(<<VersionOpcode(p.version)>>, <<Push(p.program)>>)
new_p2a == new_witness_program(p2a)
p2wpkh_script_code(wpkh) == new_p2pkh(wpkh)

ScriptCodeOf(s) == IF is_p2wpkh(s) THEN <<p2wpkh_script_code(SubSeq(s, 3, Len(s)))>> ELSE << >>

\* serde of Script and ScriptBuf: hex when the format is human readable, bytes
\* when it is not.  A borrowed script cannot be read from text.
SerializeScript(s, human) == IF human THEN to_hex(s) ELSE s
DeserializeScriptBuf(v, human) == IF human THEN from_hex(v) ELSE <<v>>
DeserializeScript(v, human) == IF human THEN << >> ELSE <<v>>

(***************************************************************************)
(* Signature operations.                                                   *)
(***************************************************************************)
CheckSigs == {OP_CHECKSIG, OP_CHECKSIGVERIFY}
CheckMultisigs == {OP_CHECKMULTISIG, OP_CHECKMULTISIGVERIFY}

\* count_sigops_internal: the loop over the instructions up to the first
\* error, with the last number pushed as cache.
SigopStep(acc, i, accurate) ==
    CASE IsOp(i, CheckSigs) -> [acc EXCEPT !.n = @ + 1]
      [] IsOp(i, CheckMultisigs) ->
            [acc EXCEPT !.n = @ + (IF accurate /\ acc.cache # << >> THEN acc.cache[1] ELSE 20)]
      [] IsPush(i) -> [acc EXCEPT !.cache = << >>]
      [] i.kind = "err" -> acc
      [] OTHER -> [acc EXCEPT !.cache = decode_pushnum(i.op)]

count_sigops_internal(s, accurate) ==
    FoldLeft(LAMBDA acc, i : SigopStep(acc, i, accurate), [n |-> 0, cache |-> << >>],
             instructions(s)).n
count_sigops(s) == count_sigops_internal(s, TRUE)
count_sigops_legacy(s) == count_sigops_internal(s, FALSE)

\* An input: its script_sig, its witness (the items) and what it spends, or
\* nothing when the caller cannot say.  A transaction: inputs and outputs.
count_p2pk_p2pkh_sigops(tx) ==
    FoldLeft(LAMBDA n, i : n + count_sigops_legacy(i.script_sig), 0, tx.input)
        + FoldLeft(LAMBDA n, o : n + count_sigops_legacy(o), 0, tx.output)

RedeemSigops(redeem) == IF redeem # << >> THEN count_sigops(redeem[1]) ELSE 0
P2shSigops(i) ==
    IF i.spent # << >> /\ is_p2sh(i.spent[1]) THEN RedeemSigops(last_pushdata(i.script_sig)) ELSE 0
count_p2sh_sigops(tx) == FoldLeft(LAMBDA n, i : n + P2shSigops(i), 0, tx.input)

count_sigops_with_witness_program(witness, program) ==
    CASE is_p2wpkh(program) -> 1
      [] is_p2wsh(program) -> IF witness = << >> THEN 0 ELSE count_sigops(Last(witness))
      [] OTHER -> 0

ProgramSigops(witness, program) ==
    IF program # << >> THEN count_sigops_with_witness_program(witness, program[1]) ELSE 0
WitnessSigops(i) ==
    LET program == CASE is_witness_program(i.spent[1]) -> i.spent
                     [] is_p2sh(i.spent[1]) /\ is_push_only(i.script_sig) -> last_pushdata(i.script_sig)
                     [] OTHER -> << >>
    IN IF i.spent = << >> THEN 0 ELSE ProgramSigops(i.witness, program)
count_witness_sigops(tx) == FoldLeft(LAMBDA n, i : n + WitnessSigops(i), 0, tx.input)

total_sigop_cost(tx) ==
    4 * count_p2pk_p2pkh_sigops(tx) + 4 * count_p2sh_sigops(tx) + count_witness_sigops(tx)

(***************************************************************************)
(* minimal_non_dust_inner, for a fee rate in satoshi per thousand bytes.   *)
(***************************************************************************)
VarIntLen(n) == IF n < 253 THEN 1 ELSE 3
minimal_non_dust(s, dust_relay_fee) ==
    LET size == 8 + VarIntLen(Len(s)) + Len(s)
    IN (dust_relay_fee * (CASE is_op_return(s) -> 0
                            [] is_witness_program(s) -> 32 + 4 + 1 + 107 \div 4 + 4 + size
                            [] OTHER -> 32 + 4 + 1 + 107 + 4 + size)) \div 1000
=============================================================================
