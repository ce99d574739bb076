------------------------------- MODULE Script -------------------------------
(***************************************************************************)
(* Scripts (bitcoin/src/blockdata/script/{borrowed,instruction,owned,      *)
(* builder,push_bytes,mod}.rs): the opcodes and their classes (opcodes.rs),*)
(* the instruction iterator, the writers of pushes and opcodes and the     *)
(* assembly rendering.                                                     *)
(*                                                                         *)
(* A script is a sequence of bytes, an opcode its code, named as in the    *)
(* source.  An instruction is Push(data) or Op(code); an iterator item is  *)
(* an instruction or Err(e).                                               *)
(***************************************************************************)
EXTENDS Integers, FiniteSets, Sequences, SequencesExt, FiniteSetsExt, ScriptInt

-----------------------------------------------------------------------------
(* Opcodes *)

OP_0 == 0
OP_PUSHBYTES_75 == 75
OP_PUSHDATA1 == 76
OP_PUSHDATA2 == 77
OP_PUSHDATA4 == 78
OP_PUSHNUM_NEG1 == 79
OP_RESERVED == 80
OP_PUSHNUM_1 == 81
OP_PUSHNUM_16 == 96
OP_NOP == 97
OP_VER == 98
OP_VERIFY == 105
OP_RETURN == 106
OP_DUP == 118
OP_EQUAL == 135
OP_EQUALVERIFY == 136
OP_NUMEQUAL == 156
OP_NUMEQUALVERIFY == 157
OP_HASH160 == 169
OP_CHECKSIG == 172
OP_CHECKSIGVERIFY == 173
OP_CHECKMULTISIG == 174
OP_CHECKMULTISIGVERIFY == 175
OP_NOP1 == 176
OP_NOP10 == 185
OP_CHECKSIGADD == 186
OP_INVALIDOPCODE == 255

OP_VERIF == 101
OP_VERNOTIF == 102
OP_RESERVED1 == 137
OP_RESERVED2 == 138

OpcodeBytes == 0..255

\* OP_CAT to OP_RIGHT, OP_INVERT to OP_XOR, OP_2MUL and OP_2DIV, OP_MUL to
\* OP_RSHIFT.
DisabledOps == (126..129) \cup (131..134) \cup (141..142) \cup (149..153)

SuccessOps ==
    {80, 98} \cup (126..129) \cup (131..134) \cup (137..138) \cup (141..142)
        \cup (149..153) \cup (187..254)

\* The opcodes that ordinary_opcode! lists, by code: pushes, control flow,
\* stack, equality, arithmetic and crypto.
OrdinaryOps ==
    {OP_PUSHDATA1, OP_PUSHDATA2, OP_PUSHDATA4}
        \cup {99, 100, 103, 104, OP_VERIFY}
        \cup (107..125) \cup {130, OP_EQUAL, OP_EQUALVERIFY}
        \cup {139, 140} \cup (143..148) \cup (154..165)
        \cup (166..175) \cup {OP_CHECKSIGADD}

Contexts == {"Legacy", "TapScript"}

Class(name) == [class |-> name]
ClassOf(name, n) == [class |-> name, n |-> n]

\* Ordinary::with: unreachable! for anything that ordinary_opcode! leaves out.
OrdinaryWith(op) ==
    IF op \in OrdinaryOps THEN ClassOf("Ordinary", op) ELSE Class("unreachable")

\* The arms of the match are tried in order: the first that fits decides.
classify(op, ctx) ==
    CASE op \in {OP_VERIF, OP_VERNOTIF, OP_INVALIDOPCODE} -> Class("IllegalOp")
      [] OTHER ->
    CASE ctx = "Legacy" /\ op \in DisabledOps -> Class("IllegalOp")
      [] ctx = "TapScript" /\ op \in SuccessOps -> Class("SuccessOp")
      [] OTHER ->
    CASE op = OP_NOP \/ op \in OP_NOP1..OP_NOP10 -> Class("NoOp")
      [] op = OP_RETURN -> Class("ReturnOp")
      [] ctx = "Legacy" /\ op \in {OP_RESERVED, OP_RESERVED1, OP_RESERVED2, OP_VER} ->
            Class("ReturnOp")
      [] ctx = "Legacy" /\ op >= OP_CHECKSIGADD -> Class("ReturnOp")
      [] ctx = "TapScript" /\ op \in {OP_CHECKMULTISIG, OP_CHECKMULTISIGVERIFY} ->
            Class("ReturnOp")
      [] OTHER ->
    CASE op = OP_PUSHNUM_NEG1 -> ClassOf("PushNum", -1)
      [] op \in OP_PUSHNUM_1..OP_PUSHNUM_16 -> ClassOf("PushNum", 1 + op - OP_PUSHNUM_1)
      [] op <= OP_PUSHBYTES_75 -> ClassOf("PushBytes", op)
      [] OTHER -> OrdinaryWith(op)

\* Opcode::decode_pushnum: 1 to 16, or none.
decode_pushnum(op) ==
    IF op \in OP_PUSHNUM_1..OP_PUSHNUM_16 THEN <<op - OP_PUSHNUM_1 + 1>> ELSE << >>

\* Mutant: the forms of two opcodes are swapped.
opcode_to_verify_Swapped(last) ==
    CASE last = <<OP_EQUAL>> -> <<OP_CHECKSIGVERIFY>>
      [] last = <<OP_NUMEQUAL>> -> <<OP_NUMEQUALVERIFY>>
      [] last = <<OP_CHECKSIG>> -> <<OP_EQUALVERIFY>>
      [] last = <<OP_CHECKMULTISIG>> -> <<OP_CHECKMULTISIGVERIFY>>
      [] OTHER -> << >>

\* The VERIFY form of an opcode, when it has one.
opcode_to_verify(last) ==
    CASE last = <<OP_EQUAL>> -> <<OP_EQUALVERIFY>>
      [] last = <<OP_NUMEQUAL>> -> <<OP_NUMEQUALVERIFY>>
      [] last = <<OP_CHECKSIG>> -> <<OP_CHECKSIGVERIFY>>
      [] last = <<OP_CHECKMULTISIG>> -> <<OP_CHECKMULTISIGVERIFY>>
      [] OTHER -> << >>

\* In both contexts every byte has a class (the match never falls through to
\* the unreachable! of Ordinary::with), the pushes and numbers of the two
\* contexts agree, and an opcode that tapscript makes succeed never runs in a
\* legacy script.
ClassesTotal ==
    \A op \in OpcodeBytes :
        /\ \A ctx \in Contexts : classify(op, ctx).class # "unreachable"
        /\ \A name \in {"PushNum", "PushBytes", "NoOp"} :
            (classify(op, "Legacy").class = name) <=> (classify(op, "TapScript").class = name)
        /\ classify(op, "TapScript").class = "SuccessOp" =>
            classify(op, "Legacy").class \in {"IllegalOp", "ReturnOp"}

-----------------------------------------------------------------------------
(* Scripts *)

Push(data) == [kind |-> "push", data |-> data]
Op(code) == [kind |-> "op", op |-> code]
Err(e) == [kind |-> "err", err |-> e]

IsPush(i) == i.kind = "push"
IsOp(i, codes) == i.kind = "op" /\ i.op \in codes

\* A length that no script reaches: what a four-byte length of 2^31 or more
\* stands for within TLC's integers.
Huge == 2147483647

Remaining(s, pos) == Len(s) - pos + 1

\* read_uint_iter: the little-endian length in `size` bytes at pos.
read_uint_iter(s, pos, size) ==
    IF Remaining(s, pos) < size THEN << >>
    ELSE LET bytes == SubSeq(s, pos, pos + size - 1)
         IN <<IF size = 4 /\ Last(bytes) >= Sign THEN Huge ELSE LittleEndian(bytes)>>

\* An iterator step: the item, and where the iterator stands after it.  A
\* killed iterator stands behind the last byte.
Step(item, pos) == [item |-> item, pos |-> pos]
Kill(s, e) == Step(Err(e), Len(s) + 1)

take_slice_or_kill(s, pos, n) ==
    IF Remaining(s, pos) >= n THEN Step(Push(SubSeq(s, pos, pos + n - 1)), pos + n)
                              ELSE Kill(s, "EarlyEndOfScript")

\* next_push_data_len: OP_PUSHDATA1, 2 and 4, whose data must be long enough
\* for the opcode when the iterator enforces minimal pushes.
next_push_data_len(s, pos, size, min_push_len, enforce_minimal) ==
    LET n == read_uint_iter(s, pos, size)
    IN IF n = << >> THEN Kill(s, "EarlyEndOfScript")
       ELSE IF enforce_minimal /\ n[1] < min_push_len THEN Kill(s, "NonMinimalPush")
       ELSE take_slice_or_kill(s, pos + size, n[1])

\* Instructions::next at a position that holds a byte.
next(s, pos, enforce_minimal) ==
    LET byte == s[pos]
        class == classify(byte, "Legacy")
        one_byte == IF Remaining(s, pos) > 1 THEN <<s[pos + 1]>> ELSE << >>
    IN CASE class.class = "PushBytes" ->
              IF /\ enforce_minimal
                 /\ class.n = 1
                 /\ one_byte \in {<<b>> : b \in (1..16) \cup {129}}
              THEN Kill(s, "NonMinimalPush")
              ELSE take_slice_or_kill(s, pos + 1, class.n)
         [] byte = OP_PUSHDATA1 -> next_push_data_len(s, pos + 1, 1, 76, enforce_minimal)
         [] byte = OP_PUSHDATA2 -> next_push_data_len(s, pos + 1, 2, 256, enforce_minimal)
         [] byte = OP_PUSHDATA4 -> next_push_data_len(s, pos + 1, 4, 65536, enforce_minimal)
         [] OTHER -> Step(Op(byte), pos + 1)

\* InstructionIndices: every item with the position it started from.
instruction_indices(s, enforce_minimal) ==
    LET from[pos \in Nat] ==
            IF pos > Len(s) THEN << >>
            ELSE LET step == next(s, pos, enforce_minimal)
                 IN <<<<pos, step.item>>>> \o from[step.pos]
    IN from[1]

\* InstructionIndices::nth from position pos, as an option: n instructions are
\* skipped, the one after them is returned with the position next_with saw before
\* any was skipped, and the iterator goes on behind it.
Skip(s, pos, n) ==
    FoldLeft(LAMBDA at, k : IF at > Len(s) THEN at ELSE next(s, at, FALSE).pos, pos, [k \in 1..n |-> k])
nth(s, pos, n) ==
    LET at == Skip(s, pos, n)
        step == next(s, at, FALSE)
    IN  IF at > Len(s) THEN << >> ELSE <<[index |-> pos, item |-> step.item, pos |-> step.pos]>>

ItemsOf(all) == [i \in DOMAIN all |-> all[i][2]]
Items(s, enforce_minimal) == ItemsOf(instruction_indices(s, enforce_minimal))
instructions(s) == Items(s, FALSE)
instructions_minimal(s) == Items(s, TRUE)

NoError(items) == \A i \in DOMAIN items : items[i].kind # "err"

LastOp(items) == IF items # << >> /\ Last(items).kind = "op" THEN <<Last(items).op>> ELSE << >>
LastPush(items) == IF items # << >> /\ IsPush(Last(items)) THEN <<Last(items).data>> ELSE << >>
last_opcode(s) == LastOp(instructions(s))
last_pushdata(s) == LastPush(instructions(s))

\* Instruction::script_num: the number an instruction pushes, if it is one.
script_num(i) ==
    IF IsPush(i)
    THEN LET r == read_scriptint_non_minimal(i.data) IN IF r.err = "none" THEN <<r.num>> ELSE << >>
    ELSE IF i.op = OP_PUSHNUM_NEG1 THEN <<-1>> ELSE decode_pushnum(i.op)

(***************************************************************************)
(* Writing scripts.                                                        *)
(***************************************************************************)

\* ScriptBuf::push_slice_no_opt: the shortest push opcode for the length.
PushPrefix(n) ==
    CASE n < OP_PUSHDATA1 -> <<n>>
      [] n >= OP_PUSHDATA1 /\ n < 256 -> <<OP_PUSHDATA1, n>>
      [] n >= 256 /\ n < 65536 -> <<OP_PUSHDATA2, n % 256, n \div 256>>
      [] OTHER -> <<OP_PUSHDATA4, n % 256, (n \div 256) % 256, (n \div 65536) % 256, n \div 16777216>>

push_slice(s, data) == s \o PushPrefix(Len(data)) \o data
push_opcode(s, op) == Append(s, op)

reserved_len_for_slice(n) ==
    n + CASE n <= 75 -> 1
          [] n \in 76..255 -> 2
          [] n \in 256..65535 -> 3
          [] OTHER -> 5

push_instruction(s, i) == IF IsPush(i) THEN push_slice(s, i.data) ELSE push_opcode(s, i.op)

\* Extend<Instruction> and FromIterator: up to five instructions are gathered
\* first, their total length reserved, and written then; more are written one
\* by one.  Both write the same bytes.
script_serialized_len(i) == IF IsPush(i) THEN reserved_len_for_slice(Len(i.data)) ELSE 1
extend(s, items) == FoldLeft(push_instruction, s, items)
Reserved(items) == FoldLeft(LAMBDA n, i : n + script_serialized_len(i), 0, items)

\* ScriptBuf::push_verify and scan_and_push_verify.
push_verify(s, last) ==
    LET verify == opcode_to_verify(last)
    IN IF verify # << >> THEN push_opcode(Front(s), verify[1]) ELSE push_opcode(s, OP_VERIFY)
scan_and_push_verify(s) == push_verify(s, last_opcode(s))

(***************************************************************************)
(* bytes_to_asm_fmt: the words of the assembly rendering.                  *)
(***************************************************************************)
Word(op) == [word |-> "opcode", op |-> op]
HexWord(data) == [word |-> "hex", data |-> data]
EndWord == [word |-> "<unexpected end>"]
PastEndWord == [word |-> "<push past end>"]

DataLen(s, pos) ==
    LET class == classify(s[pos], "Legacy")
    IN CASE class.class = "PushBytes" -> <<class.n>>
         [] s[pos] = OP_PUSHDATA1 -> read_uint_iter(s, pos + 1, 1)
         [] s[pos] = OP_PUSHDATA2 -> read_uint_iter(s, pos + 1, 2)
         [] s[pos] = OP_PUSHDATA4 -> read_uint_iter(s, pos + 1, 4)
         [] OTHER -> <<0>>
LenLen(op) == CASE op = OP_PUSHDATA1 -> 1 [] op = OP_PUSHDATA2 -> 2 [] op = OP_PUSHDATA4 -> 4 [] OTHER -> 0

bytes_to_asm_fmt(s) ==
    LET from[pos \in Nat] ==
            IF pos > Len(s) THEN << >>
            ELSE LET n == DataLen(s, pos)
                     start == pos + 1 + LenLen(s[pos])
                 IN IF n = << >> THEN <<EndWord>>
                    ELSE IF n[1] = 0 THEN <<Word(s[pos])>> \o from[start]
                    ELSE IF n[1] <= Remaining(s, start)
                    THEN <<Word(s[pos]), HexWord(SubSeq(s, start, start + n[1] - 1))>>
                            \o from[start + n[1]]
                    ELSE <<Word(s[pos]), PastEndWord>>
    IN from[1]
=============================================================================
