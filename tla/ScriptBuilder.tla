--------------------------- MODULE ScriptBuilder ----------------------------
(***************************************************************************)
(* Sessions with a script Builder                                          *)
(* (bitcoin/src/blockdata/script/builder.rs and owned.rs): a caller pushes *)
(* numbers, data, keys and opcodes, asks for VERIFY forms, takes the bytes *)
(* out and resumes from them, and re-encodes the script from its own       *)
(* instructions.  The builder remembers its last opcode; the bytes do not. *)
(*                                                                         *)
(* `built` is what the caller asked for, as instructions.  Opcodes that    *)
(* are themselves pushes (other than OP_0) are not given to push_opcode:   *)
(* they would take the bytes that follow as their data.                    *)
(*                                                                         *)
(* And sessions with a PushBytesBuf (push_bytes.rs): the type promises that*)
(* its bytes can be pushed, so every way in checks the length and every    *)
(* way to change it keeps it.  Limit stands for 2^32.                      *)
(***************************************************************************)
EXTENDS Templates

CONSTANTS
    Ints,               \* numbers given to push_int
    Slices,             \* data given to push_slice
    PlainOps,           \* opcodes given to push_opcode
    Scripts,            \* byte strings a session may start from
    MaxPushes,          \* operations of a session
    SmallMax            \* largest number tried with bytes of two bits

VARIABLES
    script,             \* the builder's bytes
    last_op,            \* the builder's last opcode: << >> or <<op>>
    built,              \* ghost: the instructions asked for so far
    intact,             \* ghost: the session did not start from a script
                        \* whose last push runs past its end
    pushes              \* operations so far

builder_vars == <<script, last_op, built, intact, pushes>>

\* Builder::new, and From<Vec<u8>> for any bytes.
BuilderInit ==
    /\ script \in {<< >>} \cup Scripts
    /\ last_op = last_opcode(script)
    /\ built = SelectSeq(instructions(script), LAMBDA i : i.kind # "err")
    /\ intact = NoError(instructions(script))
    /\ pushes = 0

\* The builder after writing the script s with the last opcode `last`.
Wrote(s, last, item) ==
    /\ pushes < MaxPushes
    /\ script' = s
    /\ last_op' = last
    /\ built' = Append(built, item)
    /\ pushes' = pushes + 1
    /\ UNCHANGED intact

\* Builder::push_opcode and Builder::push_slice.
PushedOpcode(op) == Wrote(push_opcode(script, op), <<op>>, IF op = OP_0 THEN Push(<< >>) ELSE Op(op))
\* Mutant: the last opcode survives a push of data.
PushedSlice_KeepsLast(data) == Wrote(push_slice(script, data), last_op, Push(data))
PushedSlice(data) == Wrote(push_slice(script, data), << >>, Push(data))

PushOpcode == \E op \in PlainOps : PushedOpcode(op)
PushSlice == \E data \in Slices : PushedSlice(data)

\* Builder::push_int: opcodes for -1 and 0 to 16, data for the others; also
\* push_lock_time and push_sequence, which push their consensus value.
PushInt ==
    \E n \in Ints :
        IF n = -1 \/ n \in 1..16 THEN PushedOpcode(n - 1 + OP_PUSHNUM_1)
        ELSE IF n = 0 THEN PushedOpcode(OP_0)
        ELSE PushedSlice(write_scriptint(n))

PushIntNonMinimal == \E n \in Ints : PushedSlice(write_scriptint(n))

\* What VERIFY means for the instructions asked for: the last instruction's
\* VERIFY form in its place, or an OP_VERIFY after it.
Verified(items) ==
    LET last == IF items # << >> /\ Last(items).kind = "op" THEN <<Last(items).op>> ELSE << >>
    IN IF opcode_to_verify(last) # << >> THEN Append(Front(items), Op(opcode_to_verify(last)[1]))
                                         ELSE Append(items, Op(OP_VERIFY))

\* Builder::push_verify goes by the remembered opcode.
PushVerify ==
    /\ pushes < MaxPushes
    /\ script' = push_verify(script, last_op)
    /\ last_op' = LET v == opcode_to_verify(last_op) IN IF v # << >> THEN v ELSE <<OP_VERIFY>>
    /\ built' = Verified(built)
    /\ pushes' = pushes + 1
    /\ UNCHANGED intact

\* into_script, ScriptBuf::scan_and_push_verify and Builder::from: the opcode
\* is found by scanning the bytes.
ScanAndPushVerify ==
    /\ pushes < MaxPushes
    /\ \E last \in {last_opcode(script)} : script' = push_verify(script, last)
    /\ \E s \in {script'} : last_op' = last_opcode(s)
    /\ built' = Verified(built)
    /\ pushes' = pushes + 1
    /\ UNCHANGED intact

\* into_bytes and Builder::from.
Resume ==
    /\ pushes < MaxPushes
    /\ last_op' = last_opcode(script)
    /\ pushes' = pushes + 1
    /\ UNCHANGED <<script, built, intact>>

\* script.instructions().collect::<Result<ScriptBuf, _>>(): the script
\* written again from its own instructions.
Collect ==
    /\ pushes < MaxPushes
    /\ NoError(instructions(script))
    /\ \E items \in {instructions(script)} : script' = extend(<< >>, items)
    /\ \E s \in {script'} : last_op' = last_opcode(s)
    /\ pushes' = pushes + 1
    /\ UNCHANGED <<built, intact>>

BuilderNext ==
    \/ PushOpcode \/ PushSlice \/ PushInt \/ PushIntNonMinimal
    \/ PushVerify \/ ScanAndPushVerify \/ Resume \/ Collect

(***************************************************************************)
(* The properties.                                                         *)
(***************************************************************************)

\* What a caller pushed is what the iterator reads, instruction for
\* instruction, through resuming and collecting; and the remembered opcode has
\* the same VERIFY form as the one a scan of the bytes finds, so push_verify
\* never rewrites a byte of pushed data.
ReadsBack ==
    /\ intact => instructions(script) = built
    /\ intact => opcode_to_verify(last_op) = opcode_to_verify(last_opcode(script))

\* A script is its instructions: collecting them yields a script with the same
\* instructions, byte for byte the same one when the strict iterator accepts
\* it; the length reserved beforehand is the length written.  Numbers pushed by
\* push_int and data that no opcode can push are minimal.  Serialized for a
\* person or a program, the script is read back.
CollectCanonical ==
    \A items \in {instructions(script)}, strict \in {instructions_minimal(script)} :
        /\ NoError(items) =>
            \A again \in {extend(<< >>, items)} :
                /\ instructions(again) = items
                /\ Len(again) = Reserved(items)
                /\ NoError(strict) => again = script
                /\ NoError(instructions_minimal(again)) <=>
                    \A i \in DOMAIN items :
                        IsPush(items[i]) => items[i].data \notin {<<b>> : b \in (1..16) \cup {129}}
        /\ NoError(strict) => strict = items
        /\ \A human \in BOOLEAN : DeserializeScriptBuf(SerializeScript(script, human), human) = <<script>>

\* The iterator fails at most once and ends there, its positions point at the
\* instructions they are reported with, and the assembly rendering shows an
\* unfinished push exactly when the iterator reports one, and otherwise the
\* same opcodes and data.
IteratorSound ==
    \A all \in {instruction_indices(script, FALSE)}, asm \in {bytes_to_asm_fmt(script)} :
        /\ \A k \in DOMAIN all : all[k][2].kind = "err" => k = Len(all)
        /\ \A k \in DOMAIN all :
            all[k][2].kind # "err" => next(script, all[k][1], FALSE).item = all[k][2]
        /\ (\E k \in DOMAIN all : all[k][2].kind = "err")
            <=> (\E k \in DOMAIN asm : asm[k] \in {EndWord, PastEndWord})
        /\ {all[k][2].data : k \in {j \in DOMAIN all : IsPush(all[j][2]) /\ all[j][2].data # << >>}}
            = {asm[k].data : k \in {j \in DOMAIN asm : asm[j].word = "hex"}}

\* nth, from wherever the iterator stands, returns the item that as many calls of
\* next would and leaves the iterator at the one behind it.  The position it
\* reports is the item's own only when it skips nothing, although
\* instruction.rs:240 calls it the "index at which the returned `Instruction` is
\* located": it is where the iterator stood.
NthLands ==
    \A all \in {instruction_indices(script, FALSE)} :
        \A first \in DOMAIN all : \A k \in first..(Len(all) + 1) :
            \A found \in {nth(script, all[first][1], k - first)} :
                IF k > Len(all) THEN found = << >>
                ELSE /\ found[1].item = all[k][2]
                     /\ found[1].pos = IF k = Len(all) THEN Len(script) + 1 ELSE all[k + 1][1]
                     /\ found[1].index = all[k][1] <=> k = first

\* Numbers: what write_scriptint writes is read back, the strict reader accepts
\* one spelling of a number, and no opcode reaches Ordinary::with's panic.
Small == INSTANCE ScriptInt WITH Base <- 4
NumbersSound ==
    /\ \A i \in Range(built) : IsPush(i) /\ Len(i.data) <= 4 => ReadIsCanonical(i.data)
    /\ \A n \in Ints : WrittenIsRead(n)
    /\ script = << >> => /\ \A n \in -SmallMax..SmallMax : Small!WrittenIsRead(n)
                         /\ \A k \in 0..5 : \A v \in [1..k -> 0..3] : Small!ReadIsCanonical(v)
                         /\ ClassesTotal

\* Builder, iterator and rendering together: what was built is what is read.
BuilderFaithful == ReadsBack /\ CollectCanonical /\ IteratorSound /\ NthLands /\ NumbersSound

\* The script seen as a redeem script: its 20-byte and 32-byte hashes, as the
\* spent outputs carry them.
Hash20 == [i \in 1..20 |-> OP_CHECKSIG]
Hash32 == [i \in 1..32 |-> OP_CHECKMULTISIG]
Spend(spent, sig, witness) ==
    [input |-> <<[script_sig |-> sig, witness |-> witness, spent |-> <<spent>>]>>, output |-> << >>]

\* A script matches at most one template; it is a witness program exactly when
\* it is what new_witness_program writes for a version and 2 to 40 bytes; and
\* a multisig pushes as many keys as its accurate count of signature operations,
\* which never exceeds the legacy count.  is_multisig takes any opcode that is no
\* number in the place of the number of keys, although borrowed.rs:271 gives the
\* form `2 <pubkey1> <pubkey2> <pubkey3> 3 OP_CHECKMULTISIG`; such a script counts
\* as at least the most keys there may be.
TemplatesExact ==
    \A items \in {instructions(script)}, program \in {is_witness_program(script)},
       multisig \in {is_multisig(script)}, n \in {count_sigops(script)} :
        /\ Cardinality({k \in 1..6 : <<is_p2pkh(script), is_p2sh(script), is_p2pk(script), multisig,
                                       is_op_return(script), program>>[k]}) <= 1
        /\ program <=>
            /\ Len(items) = 2 /\ NoError(items) /\ IsPush(items[2])
            /\ Len(items[2].data) \in MIN_SIZE..MAX_SIZE
            /\ \E v \in {VersionFromInstruction(items[1])} :
                v.err = "none" /\ script = new_witness_program(Program(v.version, items[2].data))
        /\ Cardinality({k \in 1..3 : <<is_p2wpkh(script), is_p2wsh(script), is_p2tr(script)>>[k]}) <= 1
        /\ multisig =>
            IF decode_pushnum(items[Len(items) - 1].op) # << >> THEN n = Len(items) - 3 ELSE n >= 20
        /\ n <= count_sigops_legacy(script)
        /\ is_op_return(script) => is_provably_unspendable(script)

\* The signature operations of a script cost four times as much in a redeem
\* script as in a witness script, the same in a witness script whether the
\* output that commits to it is nested in a P2SH output or not, and nothing
\* when the spent output is unknown.
SigopsPlaced ==
    \A nested \in {push_slice(<< >>, new_witness_program(Program(0, Hash32)))},
       redeem \in {Spend(new_p2sh(Hash20), push_slice(<< >>, script), << >>)},
       n \in {count_sigops(script)} :
        \A expected \in
            {[tx |-> Spend(new_witness_program(Program(0, Hash32)), << >>, <<script>>), cost |-> n],
             [tx |-> Spend(new_p2sh(Hash20), nested, <<script>>), cost |-> n],
             [tx |-> redeem, cost |-> 4 * n + (IF is_p2wpkh(script) THEN 1 ELSE 0)],
             [tx |-> [redeem EXCEPT !.input[1].spent = << >>], cost |-> 0],
             [tx |-> [input |-> << >>, output |-> <<script>>], cost |-> 4 * count_sigops_legacy(script)]} :
            total_sigop_cost(expected.tx) = expected.cost

\* Templates, witness programs and signature operation counts agree.
TemplatesAgree == TemplatesExact /\ SigopsPlaced

\* No operation of the builder takes a signature operation away: a VERIFY form
\* counts like the opcode it replaces, and what is appended is added.
SigopsGrow ==
    [][/\ count_sigops_legacy(script') >= count_sigops_legacy(script)
       /\ count_sigops(script') >= count_sigops(script)]_script

-----------------------------------------------------------------------------
(* Push buffers *)

CONSTANTS
    Limit,              \* 0x100000000, scaled
    Chunks              \* byte strings offered to the buffer

VARIABLES
    buf,                \* the buffer's bytes
    refusal             \* the last call: << >>, or <<len>> of PushBytesError

push_vars == <<buf, refusal>>

\* check_limit of the targets with 64-bit pointers.
check_limit(len) == len < Limit

\* The buffer becomes `bytes` if their number passes the check.
Offered(bytes) ==
    /\ buf' = IF check_limit(Len(bytes)) THEN bytes ELSE buf
    /\ refusal' = IF check_limit(Len(bytes)) THEN << >> ELSE <<Len(bytes)>>

\* A change that is not checked: it never makes the buffer longer.
Changed(bytes) == buf' = bytes /\ refusal' = << >>

\* TryFrom<Vec<u8>> (and of slices), From<[u8; N]>, which is checked when compiled.
BufInit == \E bytes \in Chunks : check_limit(Len(bytes)) /\ buf = bytes /\ refusal = << >>
TryFrom == \E bytes \in Chunks : Offered(bytes)

BufPush == \E b \in {0, 1} : Offered(Append(buf, b))
BufExtend == \E bytes \in Chunks : Offered(buf \o bytes)
BufPop == Changed(IF buf = << >> THEN << >> ELSE Front(buf))
BufRemove == \E i \in DOMAIN buf : Changed(SubSeq(buf, 1, i - 1) \o SubSeq(buf, i + 1, Len(buf)))
BufClear == Changed(<< >>)
BufTruncate == \E n \in 0..Limit : Changed(SubSeq(buf, 1, IF n < Len(buf) THEN n ELSE Len(buf)))

\* Index by a range and ToOwned; as_mut_push_bytes writes a byte in place.
BufSlice == \E i \in 1..(Len(buf) + 1) : Changed(SubSeq(buf, i, Len(buf)))
BufStore == \E i \in DOMAIN buf, b \in {0, 1} : Changed([buf EXCEPT ![i] = b])

BufNext ==
    \/ TryFrom \/ BufPush \/ BufExtend \/ BufPop \/ BufRemove
    \/ BufClear \/ BufTruncate \/ BufSlice \/ BufStore

\* Whatever calls were made, the buffer can be pushed, and a call is refused
\* only when the bytes it would have left could not be.
AlwaysPushable == Len(buf) < Limit /\ (refusal # << >> => refusal[1] >= Limit)
=============================================================================
