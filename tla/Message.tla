------------------------------ MODULE Message -------------------------------
(***************************************************************************)
(* Headers and blocks on the wire (bitcoin/src/dogecoin/mod.rs, auxpow.rs  *)
(* and blockdata/block.rs): a Dogecoin header carries the proof of the     *)
(* parent chain exactly when its version says so.                          *)
(*                                                                         *)
(* Network messages (bitcoin/src/p2p, bip152.rs): a frame of magic,        *)
(* command, length, checksum and payload.  The payload is decoded from the *)
(* checked bytes by the shape its command names; bytes behind the last     *)
(* field are dropped.  Commands are strings of at most two letters, padded *)
(* with zeros; the checksum is one byte.  Messages with the same fields    *)
(* share a shape.                                                          *)
(***************************************************************************)
EXTENDS Transaction

-----------------------------------------------------------------------------
(* Headers and blocks *)

CONSTANTS
    VERSION_AUXPOW      \* the version bit of merged mining (2^8)

ASSUME AuxPowAssumption == VERSION_AUXPOW \in 1 .. Base - 1

PureHeaderSize == 6

EncodePureHeader(h) == <<h.version, h.prev_blockhash, h.merkle_root, h.time, h.bits, h.nonce>>

has_auxpow_bit(h) == (h.version \div VERSION_AUXPOW) % 2 = 1

EncodeNode(n) == <<n>>

EncodeAuxPow(a) ==
    EncodeTransaction(a.coinbase_tx) \o <<a.parent_hash>>
        \o WriteVec(a.coinbase_branch, EncodeNode) \o <<a.coinbase_index>>
        \o WriteVec(a.blockchain_branch, EncodeNode) \o <<a.blockchain_index>>
        \o EncodePureHeader(a.parent_block_header)

\* An option is the sequence of its value.
EncodeHeader(h) ==
    EncodePureHeader(h.pure_header)
        \o (IF h.aux_pow = << >> THEN << >> ELSE EncodeAuxPow(h.aux_pow[1]))

EncodeBlock(b) == EncodeHeader(b.header) \o WriteVec(b.txdata, EncodeTransaction)

PureHeaderNames == {"PureHeader", "MakePureHeader"}

OfPureHeader(do, values) ==
    CASE do[1] = "PureHeader" ->
            Goes(<<<<"version">>, <<"word">>, <<"word">>, <<"word">>, <<"word">>, <<"word">>,
                   <<"MakePureHeader">>>>, values)
      [] do[1] = "MakePureHeader" ->
            LET v == LastOf(values, 6)
            IN  Built(values, 6, [version |-> v[1], prev_blockhash |-> v[2], merkle_root |-> v[3],
                                  time |-> v[4], bits |-> v[5], nonce |-> v[6]])

AuxPowNames == {"AuxPow", "MakeAuxPow"}

OfAuxPow(do, values) ==
    CASE do[1] = "AuxPow" ->
            Goes(<<<<"Transaction">>, <<"word">>>> \o Vec(<<"word">>) \o <<<<"word">>>>
                   \o Vec(<<"word">>) \o <<<<"word">>, <<"PureHeader">>, <<"MakeAuxPow">>>>, values)
      [] do[1] = "MakeAuxPow" ->
            LET v == LastOf(values, 7)
            IN  Built(values, 7, [coinbase_tx |-> v[1], parent_hash |-> v[2], coinbase_branch |-> v[3],
                                  coinbase_index |-> v[4], blockchain_branch |-> v[5],
                                  blockchain_index |-> v[6], parent_block_header |-> v[7]])

HeaderNames == {"Header", "AuxPowIfBit", "MakeHeader"}

\* The proof is read exactly when the version announces it.
OfHeader(do, values) ==
    CASE do[1] = "Header" -> Goes(<<<<"PureHeader">>, <<"AuxPowIfBit">>>>, values)
      [] do[1] = "AuxPowIfBit" ->
            IF has_auxpow_bit(Top(values)) THEN Goes(<<<<"AuxPow">>, <<"MakeHeader">>>>, values)
            ELSE Built(values, 1, [pure_header |-> Top(values), aux_pow |-> << >>])
      [] do[1] = "MakeHeader" ->
            LET v == LastOf(values, 2) IN Built(values, 2, [pure_header |-> v[1], aux_pow |-> <<v[2]>>])

BlockNames == {"Block", "MakeBlock"}

OfBlock(do, values) ==
    CASE do[1] = "Block" -> Goes(<<<<"Header">>>> \o Vec(<<"Transaction">>) \o <<<<"MakeBlock">>>>, values)
      [] do[1] = "MakeBlock" ->
            LET v == LastOf(values, 2) IN Built(values, 2, [header |-> v[1], txdata |-> v[2]])

\* The sizes of a block with a plain header.
BlockBaseSize(b) == PureHeaderSize + VarIntSize(Len(b.txdata)) + SumOf(b.txdata, base_size)
BlockTotalSize(b) == PureHeaderSize + VarIntSize(Len(b.txdata)) + SumOf(b.txdata, total_size)
BlockWeight(b) == BlockBaseSize(b) * 3 + BlockTotalSize(b)

-----------------------------------------------------------------------------
(* Messages *)

CONSTANTS
    ByteBits,       \* bits of a byte (8)
    AddrLimit,      \* bytes an address of any network may have (512)
    ONION,          \* first byte of a wrapped onion address
    V4MAPPED,       \* first byte of a wrapped IPv4 address
    CJDNS           \* first byte of a CJDNS address (0xFC)

\* Every byte is told by its bits.
ASSUME ByteBitsAssumption == ByteBits \in Nat /\ 2 ^ ByteBits >= Base

VersionMessage == <<"word", "word", "word", "word", "word", "word", "Bytes", "word", "Bool">>
GetHeadersMessage == <<"word", "Words", "word">>
MerkleBlock == <<"PureHeader", "word", "Words", "Bits">>
FilterLoad == <<"Bytes", "word", "word", "BloomFlags">>
GetCFilters == <<"word", "word", "word">>
CFilter == <<"word", "word", "Bytes">>
CFHeaders == <<"word", "word", "word", "Words">>
CFCheckpt == <<"word", "word", "Words">>
Reject == <<"Bytes", "RejectReason", "Bytes", "word">>
SendCmpct == <<"Bool", "word">>
HeaderAndShortIds == <<"PureHeader", "word", "Words", "PrefilledTransactions">>
BlockTransactionsRequest == <<"word", "Indexes">>
BlockTransactions == <<"word", "Transactions">>

\* The fields of the payload of each command.
Shape ==
    [verack |-> << >>, ping |-> <<"word">>, version |-> VersionMessage, addr |-> <<"Words">>,
     inv |-> <<"Inventories">>, getheaders |-> GetHeadersMessage, tx |-> <<"Transaction">>,
     block |-> <<"Block">>, headers |-> <<"Headers">>, merkleblock |-> MerkleBlock,
     filterload |-> FilterLoad, filteradd |-> <<"Bytes">>, getcfilters |-> GetCFilters,
     cfilter |-> CFilter, cfheaders |-> CFHeaders, cfcheckpt |-> CFCheckpt, reject |-> Reject,
     addrv2 |-> <<"AddrV2Messages">>, sendcmpct |-> SendCmpct, cmpctblock |-> HeaderAndShortIds,
     getblocktxn |-> BlockTransactionsRequest, blocktxn |-> BlockTransactions]

\* u64::MAX
LargestNumber == Base ^ 4 - 1

RejectCodes == {1, 2, 4}

\* The letters of a command: one for the first five, two for the others.
CommandList ==
    <<"verack", "inv", "ping", "headers", "getblocktxn", "version", "getheaders", "tx", "block",
      "filterload", "cfilter", "cfheaders", "reject", "addrv2", "sendcmpct", "cmpctblock", "blocktxn",
      "addr", "merkleblock", "filteradd", "getcfilters", "cfcheckpt">>
Letters(i) == IF i <= 5 THEN <<i>> ELSE <<1 + ((i - 6) \div 5), 1 + ((i - 6) % 5)>>
LettersOf(command) == Letters(CHOOSE i \in DOMAIN CommandList : CommandList[i] = command)

CommandOf(letters) ==
    IF \E c \in DOMAIN Shape : LettersOf(c) = letters
    THEN CHOOSE c \in DOMAIN Shape : LettersOf(c) = letters ELSE "unknown"

EncodeCommand(letters) == SubSeq(letters \o <<0, 0>>, 1, 2)

\* Zeros are left out wherever they are.
DecodeCommand(raw) == SelectSeq(raw, LAMBDA u : u > 0)

\* sha2_checksum: a hash cut short.
Checksum(data) == FoldLeft(LAMBDA n, i : (n + i * data[i]) % Base, 1, [i \in DOMAIN data |-> i])

-----------------------------------------------------------------------------
(* Fields *)

\* The types with a name differ in their number only; 3 stands for those
\* without.
InvName == <<"Transaction", "Block">>
EncodeInventory(inv) ==
    CASE inv[1] = "Error" -> <<0, 0>>
      [] inv[1] = "Unknown" -> <<inv[2], inv[3]>>
      [] OTHER -> <<CHOOSE t \in DOMAIN InvName : InvName[t] = inv[1], inv[2]>>

\* Bytes of the addresses of the networks whose length is fixed (TorV2 and I2P
\* are like TorV3).
AddrBytes == <<1, 2, 2, 3>>
AddrName == <<"Ipv4", "Ipv6", "Cjdns", "TorV3">>
EncodeAddrV2(a) ==
    IF a[1] = "Unknown" THEN <<a[2]>> \o WriteBytes(a[3])
    ELSE <<CHOOSE n \in DOMAIN AddrName : AddrName[n] = a[1]>> \o WriteBytes(a[2])

\* Whether the decoder takes bytes as an address of the network.
AddrAllowed(network, bytes) ==
    CASE network = 2 -> bytes[1] \notin {ONION, V4MAPPED}
      [] network = 3 -> bytes[1] = CJDNS
      [] OTHER -> TRUE

EncodeAddrV2Message(m) == <<m[1]>> \o VarInt(m[2]) \o EncodeAddrV2(m[3]) \o <<m[4]>>

EncodePrefilled(p) == VarInt(p.idx) \o EncodeTransaction(p.tx)

\* Bits in chunks of one byte, the first bit lowest: the given number of bytes.
BitBytes(bits, n) ==
    LET bit(j) == IF j \in DOMAIN bits /\ bits[j] THEN 1 ELSE 0
        byte(k) == FoldLeft(LAMBDA b, i : b + bit((k - 1) * ByteBits + i) * 2 ^ (i - 1), 0,
                            [i \in 1 .. ByteBits |-> i])
    IN  VarInt(n) \o [k \in 1 .. n |-> byte(k)]

\* Mutant: a last chunk of fewer bits is not counted.
EncodeBits_WholeChunks(bits) == BitBytes(bits, Len(bits) \div ByteBits)

\* The flag bits of a partial merkle tree; the last byte is filled up with zeros.
EncodeBits(bits) == BitBytes(bits, (Len(bits) + ByteBits - 1) \div ByteBits)

\* Each index is written as its distance from the one after the last.
EncodeIndexes(indexes) ==
    VarInt(Len(indexes))
        \o FoldLeft(LAMBDA s, i : s \o VarInt(indexes[i] - (IF i = 1 THEN 0 ELSE indexes[i - 1] + 1)),
                    << >>, [i \in DOMAIN indexes |-> i])

\* A header in a headers message is followed by an empty transaction count.
EncodeHeaderEntry(h) == EncodeHeader(h) \o <<0>>

EncodeField(kind, v) ==
    CASE kind = "word" -> <<v>>
      [] kind \in {"Bool", "BloomFlags", "RejectReason"} -> <<v>>
      [] kind = "Bytes" -> WriteBytes(v)
      [] kind = "Words" -> WriteVec(v, EncodeNode)
      [] kind = "PureHeader" -> EncodePureHeader(v)
      [] kind = "Transaction" -> EncodeTransaction(v)
      [] kind = "Transactions" -> WriteVec(v, EncodeTransaction)
      [] kind = "Block" -> EncodeBlock(v)
      [] kind = "Headers" -> WriteVec(v, EncodeHeaderEntry)
      [] kind = "Inventories" -> WriteVec(v, EncodeInventory)
      [] kind = "AddrV2Messages" -> WriteVec(v, EncodeAddrV2Message)
      [] kind = "PrefilledTransactions" -> WriteVec(v, EncodePrefilled)
      [] kind = "Indexes" -> EncodeIndexes(v)
      [] kind = "Bits" -> EncodeBits(v)

-----------------------------------------------------------------------------
(* Frames *)

\* An unknown command has its payload as only field, written with its length.
EncodePayload(m) ==
    IF m.command = "unknown" THEN WriteBytes(m.fields[1])
    ELSE FoldLeft(LAMBDA s, i : s \o EncodeField(Shape[m.command][i], m.fields[i]), << >>,
                  [i \in DOMAIN m.fields |-> i])

\* RawNetworkMessage::new.
NewMessage(magic, command, letters, fields) ==
    LET m == [magic |-> magic, command |-> command, letters |-> letters, fields |-> fields]
        payload == EncodePayload(m)
    IN  [magic |-> magic, command |-> command, letters |-> letters, fields |-> fields,
         payload_len |-> Len(payload), checksum |-> Checksum(payload)]

EncodeMessage(m) ==
    <<m.magic>> \o EncodeCommand(m.letters) \o to_le_bytes(m.payload_len, 2) \o <<m.checksum>>
        \o EncodePayload(m)

-----------------------------------------------------------------------------
(* Decoding the fields *)

FrameNames == {"Message", "Data", "Payload", "Framed"}

FlagNames == {"Bool", "IsSet", "BloomFlags", "RejectReason", "OneOf"}

\* Any byte but zero is true; flags and reject codes have names.
OfFlag(do, values) ==
    CASE do[1] = "Bool" -> Goes(<<<<"byte">>, <<"IsSet">>>>, values)
      [] do[1] = "IsSet" -> Built(values, 1, IF Top(values) # 0 THEN 1 ELSE 0)
      [] do[1] = "BloomFlags" -> Goes(<<<<"byte">>, <<"OneOf", 0 .. 2>>>>, values)
      [] do[1] = "RejectReason" -> Goes(<<<<"byte">>, <<"OneOf", RejectCodes>>>>, values)
      [] do[1] = "OneOf" ->
            IF Top(values) \in do[2] THEN Goes(<< >>, values) ELSE Fails("ParseFailed")

HeadersNames == {"Headers", "HeaderEntry", "NoTransactions"}

OfHeaders(do, values) ==
    CASE do[1] = "Headers" -> Goes(Vec(<<"HeaderEntry">>), values)
      [] do[1] = "HeaderEntry" -> Goes(<<<<"Header">>, <<"byte">>, <<"NoTransactions">>>>, values)
      [] do[1] = "NoTransactions" ->
            IF Top(values) # 0 THEN Fails("ParseFailed") ELSE Goes(<< >>, Without(values, 1))

InventoryNames == {"Inventories", "Inventory", "InvHash", "MakeInventory"}

\* No hash is read for type 0.
OfInventory(do, values) ==
    CASE do[1] = "Inventories" -> Goes(Vec(<<"Inventory">>), values)
      [] do[1] = "Inventory" -> Goes(<<<<"byte">>, <<"InvHash">>>>, values)
      [] do[1] = "InvHash" ->
            IF Top(values) = 0 THEN Built(values, 1, <<"Error">>)
            ELSE Goes(<<<<"word">>, <<"MakeInventory">>>>, values)
      [] do[1] = "MakeInventory" ->
            LET v == LastOf(values, 2)
            IN  Built(values, 2, IF v[1] \in DOMAIN InvName THEN <<InvName[v[1]], v[2]>>
                                 ELSE <<"Unknown", v[1], v[2]>>)

AddrNames == {"AddrV2Messages", "AddrV2Message", "MakeAddrV2Message", "AddrV2", "AddrBytes", "MakeAddrV2"}

OfAddrV2(do, values) ==
    LET v == LastOf(values, 2)
    IN  CASE do[1] = "AddrV2Messages" -> Goes(Vec(<<"AddrV2Message">>), values)
          [] do[1] = "AddrV2Message" ->
                Goes(<<<<"word">>, <<"VarInt">>, <<"AddrV2">>, <<"word">>, <<"MakeAddrV2Message">>>>, values)
          [] do[1] = "MakeAddrV2Message" -> Built(values, 4, LastOf(values, 4))
          [] do[1] = "AddrV2" -> Goes(<<<<"byte">>, <<"VarInt">>, <<"AddrBytes">>>>, values)
          [] do[1] = "AddrBytes" ->
                IF v[2] > AddrLimit \/ (v[1] \in DOMAIN AddrBytes /\ v[2] # AddrBytes[v[1]])
                THEN Fails("ParseFailed")
                ELSE Goes(<<<<"Items", <<"byte">>>>, <<"MakeAddrV2">>>>, values)
          [] do[1] = "MakeAddrV2" ->
                IF ~AddrAllowed(v[1], v[2]) THEN Fails("ParseFailed")
                ELSE Built(values, 2, IF v[1] \in DOMAIN AddrName THEN <<AddrName[v[1]], v[2]>>
                                      ELSE <<"Unknown", v[1], v[2]>>)

PrefilledNames == {"PrefilledTransactions", "Prefilled", "PrefilledIdx", "MakePrefilled"}

OfPrefilled(do, values) ==
    CASE do[1] = "PrefilledTransactions" -> Goes(Vec(<<"Prefilled">>), values)
      [] do[1] = "Prefilled" -> Goes(<<<<"VarInt">>, <<"PrefilledIdx">>>>, values)
      [] do[1] = "PrefilledIdx" ->
            IF Top(values) >= Base ^ 2 THEN Fails("ParseFailed")
            ELSE Goes(<<<<"Transaction">>, <<"MakePrefilled">>>>, values)
      [] do[1] = "MakePrefilled" ->
            LET v == LastOf(values, 2) IN Built(values, 2, [idx |-> v[1], tx |-> v[2]])

BitsNames == {"Bits", "ByteCount", "Unpack"}

\* All bits of the bytes: whether the last ones were there is not told.
OfBits(do, values) ==
    CASE do[1] = "Bits" -> Goes(<<<<"VarInt">>, <<"ByteCount">>>>, values)
      [] do[1] = "ByteCount" ->
            IF Top(values) > MAX_VEC_SIZE THEN Fails("OversizedVectorAllocation")
            ELSE Goes(<<<<"Items", <<"byte">>>>, <<"Unpack">>>>, values)
      [] do[1] = "Unpack" ->
            LET bytes == Top(values)
                bit(j) == (bytes[((j - 1) \div ByteBits) + 1] \div 2 ^ ((j - 1) % ByteBits)) % 2 = 1
            IN  Built(values, 1, [j \in 1 .. Len(bytes) * ByteBits |-> bit(j)])

IndexNames == {"Indexes", "IndexCount", "Index", "AddIndex"}

\* do[2] indexes are to be read, the next one counted from do[3].
OfIndexes(do, values) ==
    CASE do[1] = "Indexes" -> Goes(<<<<"VarInt">>, <<"IndexCount">>>>, values)
      [] do[1] = "IndexCount" ->
            IF Top(values) > MAX_VEC_SIZE THEN Fails("OversizedVectorAllocation")
            ELSE Goes(<<<<"Index", Top(values), 0>>, <<"Close", Top(values)>>>>, values)
      [] do[1] = "Index" ->
            IF do[2] = 0 THEN Goes(<< >>, values)
            ELSE Goes(<<<<"VarInt">>, <<"AddIndex", do[2], do[3]>>>>, values)
      [] do[1] = "AddIndex" ->
            LET index == do[3] + Top(values)
            IN  IF index + 1 > LargestNumber THEN Fails("ParseFailed")
                ELSE Goes(<<<<"Index", do[2] - 1, index + 1>>>>, Append(Without(values, 1), index))

-----------------------------------------------------------------------------
(***************************************************************************)
(* A receiver that is given a value of one type byte by byte, by anyone or *)
(* by an encoder.  Every stream its decoder accepts or refuses, up to the  *)
(* bound, is reached.                                                      *)
(***************************************************************************)

CONSTANTS
    BlockVersions,      \* bound: versions of a block
    Types,              \* bound: types received
    Values,             \* bound: values an encoder sends, per type
    NumberBytes,        \* bound: bytes of numbers, per type
    MaxStream           \* bound: bytes of anyone's stream, per type

ASSUME WireAssumption == BlockVersions \subseteq 0 .. Base - 1

VARIABLES
    type,       \* what the receiver expects
    sent,       \* a value and what an encoder writes for it, or << >>: anyone's bytes
    stream,     \* the bytes it was given
    mem,        \* the checked payload its decoder reads, as an option
    todo,       \* what its decoder has still to do
    values,     \* what it has decoded
    err         \* why it gave up, or ""

wireVars == <<type, sent, stream, mem, todo, values, err>>

-----------------------------------------------------------------------------
Encode(t, v) ==
    CASE t = "VarInt" -> VarInt(v)
      [] t = "Header" -> EncodeHeader(v)
      [] t = "Message" -> EncodeMessage(v)
      [] OTHER -> EncodeField(t, v)

\* Bytes its decoder has read.
Position == Len(stream) - (IF mem = << >> THEN 0 ELSE Len(mem[1]))

\* The step of the decoder that the first thing to do is.
StepOf(do) ==
    CASE do[1] \in VarIntNames -> OfVarInt(do, values)
      [] do[1] \in VecNames -> OfVec(do, values)
      [] do[1] = "Bytes" -> OfBytes(do, values)
      [] do[1] = "Words" -> Goes(Vec(<<"word">>), values)
      [] do[1] = "Transactions" -> Goes(Vec(<<"Transaction">>), values)
      [] do[1] \in InOutNames -> OfInOut(do, values)
      [] do[1] \in WitnessNames -> OfWitness(do, values, Position)
      [] do[1] \in TransactionNames -> OfTransaction(do, values)
      [] do[1] \in PureHeaderNames -> OfPureHeader(do, values)
      [] do[1] \in AuxPowNames -> OfAuxPow(do, values)
      [] do[1] \in HeaderNames -> OfHeader(do, values)
      [] do[1] \in BlockNames -> OfBlock(do, values)
      [] do[1] \in FlagNames -> OfFlag(do, values)
      [] do[1] \in HeadersNames -> OfHeaders(do, values)
      [] do[1] \in InventoryNames -> OfInventory(do, values)
      [] do[1] \in AddrNames -> OfAddrV2(do, values)
      [] do[1] \in PrefilledNames -> OfPrefilled(do, values)
      [] do[1] \in IndexNames -> OfIndexes(do, values)
      [] do[1] \in BitsNames -> OfBits(do, values)

Done == todo = << >>
Accepted == Done /\ Len(values) = 1
Value == values[1]

Reading == ~Done /\ todo[1][1] \in Readers

\* Bytes from anyone, or the encoding of a value.
Senders(t) == {<< >>} \cup {<<v, Encode(t, v)>> : v \in Values[t]}

WireInit ==
    /\ type \in Types /\ sent \in Senders(type)
    /\ stream = << >> /\ mem = << >> /\ values = << >> /\ err = "" /\ todo = <<<<type>>>>

\* Bytes that decide nothing are numbered by their place, so that no two
\* neighbours are alike.
NextBytes(reader) ==
    CASE sent # << >> -> {sent[2][i] : i \in DOMAIN sent[2] \cap {Len(stream) + 1}}
      [] sent = << >> /\ reader = "byte" -> NumberBytes[type]
      [] sent = << >> /\ reader = "version" -> BlockVersions
      [] sent = << >> /\ reader = "word" -> {Len(stream) % Base}

\* The next field comes from the stream.
Receive ==
    /\ Reading /\ mem = << >>
    /\ sent = << >> => Len(stream) < MaxStream[type]
    /\ \E b \in NextBytes(todo[1][1]) :
          /\ stream' = Append(stream, b)
          /\ values' = Append(values, b)
    /\ todo' = Tail(todo)
    /\ UNCHANGED <<type, sent, mem, err>>

\* The next field comes from the checked payload.
ReadPayload ==
    /\ Reading /\ mem # << >> /\ mem[1] # << >>
    /\ values' = Append(values, Head(mem[1])) /\ mem' = <<Tail(mem[1])>>
    /\ todo' = Tail(todo)
    /\ UNCHANGED <<type, sent, stream, err>>

GiveUp(reason) ==
    /\ err' = reason /\ todo' = << >> /\ values' = << >> /\ mem' = << >>
    /\ UNCHANGED <<type, sent, stream>>

\* The stream, or the payload, ends in the middle of a value.
Cut == Reading /\ mem \in {<< >>, <<<< >>>>} /\ GiveUp("Eof")

\* The decoder goes on from what it has read.
Go ==
    /\ ~Done /\ ~Reading /\ todo[1][1] \notin FrameNames
    /\ \E step \in {StepOf(todo[1])} :
          IF step.err # "" THEN GiveUp(step.err)
          ELSE /\ values' = step.values /\ todo' = step.todo \o Tail(todo)
               /\ UNCHANGED <<type, sent, stream, mem, err>>

\* A frame: magic, command, length and checksum, then as many bytes.
OpenFrame ==
    /\ ~Done /\ todo[1] = <<"Message">>
    /\ todo' = <<<<"word">>, <<"byte">>, <<"byte">>, <<"byte">>, <<"byte">>, <<"byte">>, <<"Data">>>>
    /\ UNCHANGED <<type, sent, stream, mem, values, err>>

ReadData ==
    /\ ~Done /\ todo[1] = <<"Data">>
    /\ LET len == from_le_bytes(SubSeq(values, 4, 5))
       IN  /\ values' = Append(values, len)
           /\ todo' = <<<<"Loop", <<"byte">>, len>>, <<"Close", len>>, <<"Payload">>>>
    /\ UNCHANGED <<type, sent, stream, mem, err>>

\* Magic, letters, length, checksum and fields of the message being decoded.
Framed(fields) ==
    [magic |-> values[1], command |-> CommandOf(DecodeCommand(SubSeq(values, 2, 3))),
     letters |-> DecodeCommand(SubSeq(values, 2, 3)), fields |-> fields,
     payload_len |-> Len(values[7]), checksum |-> values[6]]

\* Mutant: the checksum is not compared.
ChecksumOk_Always(data, checksum) == TRUE

ChecksumOk(data, checksum) == Checksum(data) = checksum

\* The payload is checked, and decoded when the command is known.
OpenPayload ==
    /\ ~Done /\ todo[1] = <<"Payload">>
    /\ LET command == Framed(<< >>).command
       IN  IF ~ChecksumOk(values[7], values[6]) THEN GiveUp("InvalidChecksum")
           ELSE IF command = "unknown"
           THEN /\ values' = <<Framed(<<values[7]>>)>> /\ todo' = << >>
                /\ UNCHANGED <<type, sent, stream, mem, err>>
           ELSE /\ mem' = <<values[7]>>
                /\ todo' = [i \in DOMAIN Shape[command] |-> <<Shape[command][i]>>] \o <<<<"Framed">>>>
                /\ UNCHANGED <<type, sent, stream, values, err>>

\* What is left of the payload is dropped.
CloseFrame ==
    /\ ~Done /\ todo[1] = <<"Framed">>
    /\ values' = <<Framed(SubSeq(values, 8, Len(values)))>> /\ todo' = << >> /\ mem' = << >>
    /\ UNCHANGED <<type, sent, stream, err>>

WireNext ==
    \/ Receive \/ ReadPayload \/ Cut \/ Go
    \/ OpenFrame \/ ReadData \/ OpenPayload \/ CloseFrame

-----------------------------------------------------------------------------
(* Properties *)

\* No two byte strings decode to one value: what any decoder accepts, lengths
\* in wide forms, marker, flag and optional proof included, is exactly what
\* encoding the value writes, to the last byte.  Block hashes, transaction
\* identifiers and signatures are taken over re-encoded values.
DecodedIsCanonical == Accepted /\ type # "Message" => Encode(type, Value) = stream

\* A message that is accepted stands for the frame it came in: length and
\* checksum are those of the payload, an unknown command keeps all of it, and
\* the fields of a known one are encoded in its first bytes (only an inventory
\* entry without a hash and a Boolean are written otherwise than read).
MessageFramed ==
    Accepted /\ type = "Message" =>
        LET data == SubSeq(stream, 7, Len(stream))
            exact == /\ "Bool" \notin Range(Shape[Value.command])
                     /\ Value.command = "inv" => <<"Error">> \notin Range(Value.fields[1])
        IN  /\ Value.payload_len = Len(data) /\ Value.checksum = Checksum(data)
            /\ IF Value.command = "unknown" THEN Value.fields = <<data>>
               ELSE exact => IsPrefix(EncodePayload(Value), data)

\* The bits in whole bytes, with zeros behind them.
WholeBytes(bits) ==
    LET n == CHOOSE m \in Len(bits) .. Len(bits) + ByteBits - 1 : m % ByteBits = 0
    IN  [j \in 1 .. n |-> j \in DOMAIN bits /\ bits[j]]

\* What a reader makes of a value: the value, but for the number of its flag bits.
AsRead(t, v) ==
    LET field(kind, f) == IF kind = "Bits" THEN WholeBytes(f) ELSE f
    IN  CASE t = "Message" /\ v.command # "unknown" ->
                [v EXCEPT !.fields = [i \in DOMAIN @ |-> field(Shape[v.command][i], @[i])]]
          [] OTHER -> field(t, v)

\* Whatever the encoders write is read back as the same value, neither cut
\* short nor read on: transactions without inputs, with some witnesses empty,
\* and headers whose proof goes with the version bit among them.  Only the flag
\* bits of a partial merkle tree (merkle_tree/block.rs) come back with zeros up
\* to a whole byte.
EncodedIsAccepted ==
    sent # << >> /\ Done =>
        \/ err = "Eof" /\ stream # sent[2]
        \/ err = "" /\ stream = sent[2] /\ Value = AsRead(type, sent[1])

\* What the tests assert of every message: deserializing what serialize wrote
\* gives the message back.
RoundTrips == sent # << >> /\ Done /\ stream = sent[2] => err = "" /\ Value = sent[1]

\* The sizes computed without encoding: total_size is the length of the
\* encoding, base_size that of what the identifier hashes, the weights of the
\* inputs and the weight predicted from lengths alone agree with weight (the
\* prediction leaves out marker and flag when there is no input).
SizesExact ==
    Accepted =>
        CASE type = "VarInt" -> VarIntSize(Value) = Len(stream)
          [] type = "Transaction" ->
                LET tx == Value
                    segwit == \E i \in DOMAIN tx.input : tx.input[i].witness # << >>
                    others == Len(TxidPreimage(tx)) - SumOf(tx.input, TxInBaseSize)
                IN  /\ total_size(tx) = Len(stream)
                    /\ base_size(tx) = Len(TxidPreimage(tx))
                    /\ weight(tx) = PredictedWeight(tx) + (IF tx.input = << >> THEN 2 ELSE 0)
                    /\ vsize(tx) * 4 - weight(tx) \in 0 .. 3
                    /\ tx.input # << >> =>
                          weight(tx) = 4 * others + (IF segwit THEN 2 + SumOf(tx.input, segwit_weight)
                                                     ELSE SumOf(tx.input, legacy_weight))
          [] type = "Block" ->
                Value.header.aux_pow = << >> =>
                    /\ BlockTotalSize(Value) = Len(stream)
                    /\ BlockWeight(Value) = 4 * (Len(stream) - SumOf(Value.txdata, total_size))
                                               + SumOf(Value.txdata, weight)
          [] OTHER -> TRUE
=============================================================================
