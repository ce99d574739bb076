------------------------------ MODULE Address -------------------------------
(***************************************************************************)
(* Addresses of both chains (bitcoin/src/address/{mod,error}.rs and        *)
(* bitcoin/src/dogecoin/address/{mod,error}.rs), and a payment by address: *)
(* a payee of either chain prints an address, a payer of either chain      *)
(* parses the text, checks the network, pays its script, and the payee     *)
(* recognises the output.  A payer may also be given a text that is none.  *)
(*                                                                         *)
(* A text is [bech32, chars]: what the bech32 crate decodes from it        *)
(* (external), if anything, and its characters, which base58 reads.        *)
(***************************************************************************)
EXTENDS Templates, Networks

Key == INSTANCE Keys WITH KeyBytes <- 32

MAX_SCRIPT_ELEMENT_SIZE == 520

script_hash(s) == Key!hash160(s)
wscript_hash(s) == Key!Digest(6, s, 32)

AddressTypes == {"P2pkh", "P2sh", "P2wpkh", "P2wsh", "P2tr", "P2a"}
FromScriptErrors == {"UnrecognizedScript", "WitnessProgram", "WitnessVersion"}
ParseErrors == {"Base58", "Bech32", "WitnessVersion", "WitnessProgram", "UnknownHrp",
                "LegacyAddressTooLong", "InvalidBase58PayloadLength", "InvalidLegacyPrefix",
                "NetworkValidation"}
DogeParseErrors == {"Base58", "LegacyAddressTooLong", "InvalidBase58PayloadLength",
                    "InvalidLegacyPrefix", "NetworkValidation"}

Addr(a) == [err |-> "none", addr |-> a]
AddrErr(e) == [err |-> e]

(***************************************************************************)
(* Human-readable parts and bech32 texts.                                  *)
(***************************************************************************)
\* KnownHrp::from_network, to_hrp and from_hrp.
HrpOfNetwork(n) ==
    CASE n = "Bitcoin" -> "Mainnet" [] n = "Regtest" -> "Regtest" [] OTHER -> "Testnets"
to_hrp == [Mainnet |-> "bc", Testnets |-> "tb", Regtest |-> "bcrt"]
from_hrp(hrp) ==
    CASE hrp = "bc" -> Addr("Mainnet") [] hrp = "tb" -> Addr("Testnets")
      [] hrp = "bcrt" -> Addr("Regtest") [] OTHER -> AddrErr("UnknownHrp")

\* bech32::segwit::encode and decode: the separator, the version and the
\* program in five-bit groups, and six characters of checksum.
Bech32Text(hrp, version, program) ==
    [bech32 |-> <<[hrp |-> hrp, version |-> version, program |-> program]>>,
     chars |-> [i \in 1..(8 + (IF hrp = "bcrt" THEN 4 ELSE 2) + (8 * Len(program) + 4) \div 5) |-> 48]]
PlainText(chars) == [bech32 |-> << >>, chars |-> chars]

(***************************************************************************)
(* Making addresses.                                                       *)
(***************************************************************************)
p2pkh(hash, network) == [kind |-> "P2pkh", hash |-> hash, network |-> network]
p2sh_from_hash(hash, network) == [kind |-> "P2sh", hash |-> hash, network |-> network]
p2sh(script, network) ==
    IF Len(script) > MAX_SCRIPT_ELEMENT_SIZE THEN AddrErr("ExcessiveScriptSize")
    ELSE Addr(p2sh_from_hash(script_hash(script), network))
from_witness_program(program, hrp) == [kind |-> "Segwit", program |-> program, hrp |-> hrp]

p2wpkh(p, hrp) == from_witness_program(Program(0, Key!hash160(Key!Serialize(p))), hrp)
p2wsh(script, hrp) == from_witness_program(Program(0, wscript_hash(script)), hrp)
p2shwpkh(p, network) ==
    p2sh_from_hash(script_hash(push_slice(<<OP_0>>, Key!hash160(Key!Serialize(p)))), network)
p2shwsh(script, network) ==
    p2sh_from_hash(script_hash(push_slice(<<OP_0>>, wscript_hash(script))), network)
p2tr_tweaked(x, hrp) == from_witness_program(Program(1, Key!ScalarBytes(x)), hrp)
p2tr(x, merkle_root, hrp) == p2tr_tweaked(Key!TapTweakXOnly(x, merkle_root).v.x, hrp)

(***************************************************************************)
(* What an address says: its type, its script, the keys and scripts that   *)
(* belong to it.                                                           *)
(***************************************************************************)
address_type(a) == IF a.kind = "Segwit" THEN ProgramKind(a.program) ELSE a.kind
is_spend_standard(a) == address_type(a) # "none"

script_pubkey(a) ==
    CASE a.kind = "P2pkh" -> new_p2pkh(a.hash)
      [] a.kind = "P2sh" -> new_p2sh(a.hash)
      [] a.kind = "Segwit" -> new_witness_program(a.program)

\* from_script, for the network (kind) and human-readable part of the parameters.
from_script(s, network, hrp) ==
    LET version == VersionFromOpcode(s[1])
        program == WitnessProgramNew(version.version, SubSeq(s, 3, Len(s)))
    IN IF is_p2pkh(s) THEN Addr(p2pkh(SubSeq(s, 4, 23), network))
       ELSE IF is_p2sh(s) THEN Addr(p2sh_from_hash(SubSeq(s, 3, 22), network))
       ELSE IF ~is_witness_program(s) THEN AddrErr("UnrecognizedScript")
       ELSE IF version.err # "none" THEN AddrErr("WitnessVersion")
       ELSE IF program.err # "none" THEN AddrErr("WitnessProgram")
       ELSE Addr(from_witness_program(program, hrp))

payload_as_bytes(a) == IF a.kind = "Segwit" THEN a.program.program ELSE a.hash

segwit_redeem_hash(hash) == Key!hash160(<<0, 20>> \o hash)

is_related_to_xonly_pubkey(a, x) == Key!ScalarBytes(x) = payload_as_bytes(a)
is_related_to_pubkey(a, pk) ==
    \/ Key!pubkey_hash(pk) = payload_as_bytes(a)
    \/ is_related_to_xonly_pubkey(a, Key!XOnly(pk.inner))
    \/ segwit_redeem_hash(Key!pubkey_hash(pk)) = payload_as_bytes(a)

\* matches_script_pubkey: the version of a witness program is not compared.
matches_script_pubkey(a, s) ==
    CASE a.kind = "P2pkh" -> is_p2pkh(s) /\ SubSeq(s, 4, 23) = a.hash
      [] a.kind = "P2sh" -> is_p2sh(s) /\ SubSeq(s, 3, 22) = a.hash
      [] a.kind = "Segwit" -> is_witness_program(s) /\ SubSeq(s, 3, Len(s)) = a.program.program

(***************************************************************************)
(* Texts: Display (also Serialize), FromStr (also Deserialize).            *)
(***************************************************************************)
Prefix == [P2pkh |-> [Main |-> 0, Test |-> 111], P2sh |-> [Main |-> 5, Test |-> 196]]

Display(a) ==
    IF a.kind = "Segwit"
    THEN Bech32Text(to_hrp[a.hrp], a.program.version, a.program.program)
    ELSE PlainText(Key!encode_check(<<Prefix[a.kind][a.network]>> \o a.hash))

\* Mutant: a text with any human-readable part is taken for mainnet.
BitcoinFromStr_AnyHrp(text) ==
    LET segwit == text.bech32[1]
        data == Key!decode_check(text.chars)
        kinds == {<<k, n>> \in {"P2pkh", "P2sh"} \X {"Main", "Test"} : Prefix[k][n] = data.data[1]}
        found == CHOOSE kn \in kinds : TRUE
    IN IF text.bech32 # << >>
       THEN Addr(from_witness_program(Program(segwit.version, segwit.program), "Mainnet"))
       ELSE IF Len(text.chars) > 50 THEN AddrErr("LegacyAddressTooLong")
       ELSE IF data.err # "none" THEN AddrErr("Base58")
       ELSE IF Len(data.data) # 21 THEN AddrErr("InvalidBase58PayloadLength")
       ELSE IF kinds = {} THEN AddrErr("InvalidLegacyPrefix")
       ELSE Addr([kind |-> found[1], hash |-> Tail(data.data), network |-> found[2]])

BitcoinFromStr(text) ==
    LET segwit == text.bech32[1]
        hrp == from_hrp(segwit.hrp)
        data == Key!decode_check(text.chars)
        kinds == {<<k, n>> \in {"P2pkh", "P2sh"} \X {"Main", "Test"} : Prefix[k][n] = data.data[1]}
        found == CHOOSE kn \in kinds : TRUE
    IN IF text.bech32 # << >>
       THEN IF VersionFromU8(segwit.version).err # "none" THEN AddrErr("WitnessVersion")
            ELSE IF WitnessProgramNew(segwit.version, segwit.program).err # "none" THEN AddrErr("Panic")
            ELSE IF hrp.err # "none" THEN hrp
            ELSE Addr(from_witness_program(Program(segwit.version, segwit.program), hrp.addr))
       ELSE IF Len(text.chars) > 50 THEN AddrErr("LegacyAddressTooLong")
       ELSE IF data.err # "none" THEN AddrErr("Base58")
       ELSE IF Len(data.data) # 21 THEN AddrErr("InvalidBase58PayloadLength")
       ELSE IF kinds = {} THEN AddrErr("InvalidLegacyPrefix")
       ELSE Addr([kind |-> found[1], hash |-> Tail(data.data), network |-> found[2]])

is_valid_for_network(a, n) ==
    IF a.kind = "Segwit" THEN a.hrp = HrpOfNetwork(n) ELSE a.network = NetworkKind(n)
require_network(a, n) == IF is_valid_for_network(a, n) THEN Addr(a) ELSE AddrErr("NetworkValidation")

(***************************************************************************)
(* Dogecoin: pay to a key hash or a script hash only, with the network     *)
(* itself in the address.                                                  *)
(***************************************************************************)
DogePrefix == [P2pkh |-> [Dogecoin |-> 30, Testnet |-> 113, Regtest |-> 111],
               P2sh |-> [Dogecoin |-> 22, Testnet |-> 196, Regtest |-> 196]]
DogeDisplay(a) == PlainText(Key!encode_check(<<DogePrefix[a.kind][a.network]>> \o a.hash))

\* The prefixes in FromStr; 196 belongs to two networks and is read as Testnet.
DogeKindOf(prefix) ==
    CASE prefix = 30 -> <<"P2pkh", "Dogecoin">> [] prefix = 113 -> <<"P2pkh", "Testnet">>
      [] prefix = 111 -> <<"P2pkh", "Regtest">> [] prefix = 22 -> <<"P2sh", "Dogecoin">>
      [] prefix = 196 -> <<"P2sh", "Testnet">> [] OTHER -> << >>
DogecoinFromStr(text) ==
    LET data == Key!decode_check(text.chars)
        found == DogeKindOf(data.data[1])
    IN IF Len(text.chars) > 50 THEN AddrErr("LegacyAddressTooLong")
       ELSE IF data.err # "none" THEN AddrErr("Base58")
       ELSE IF Len(data.data) # 21 THEN AddrErr("InvalidBase58PayloadLength")
       ELSE IF found = << >> THEN AddrErr("InvalidLegacyPrefix")
       ELSE Addr([kind |-> found[1], hash |-> Tail(data.data), network |-> found[2]])

DogeFromScript(s, network) ==
    IF is_p2pkh(s) THEN Addr(p2pkh(SubSeq(s, 4, 23), network))
    ELSE IF is_p2sh(s) THEN Addr(p2sh_from_hash(SubSeq(s, 3, 22), network))
    ELSE AddrErr("UnrecognizedScript")

DogeRelatedToPubkey(a, pk) ==
    \/ Key!pubkey_hash(pk) = a.hash
    \/ Key!ScalarBytes(Key!XOnly(pk.inner)) = a.hash

DogeValidFor(a, n) ==
    CASE a.kind = "P2pkh" -> a.network = n
      [] a.kind = "P2sh" /\ a.network = "Dogecoin" -> n = "Dogecoin"
      [] OTHER -> n \in {"Testnet", "Regtest"}
DogeRequireNetwork(a, n) == IF DogeValidFor(a, n) THEN Addr(a) ELSE AddrErr("NetworkValidation")

-----------------------------------------------------------------------------
(* Payments *)

CONSTANTS
    PayKeys,            \* secret keys of payees
    Redeem,             \* a redeem or witness script
    MerkleRoot,         \* a taproot merkle root: no bytes, or the bytes of one
    Pastes              \* texts that are no address

VARIABLES
    issued,             \* the payee's chain, network, address and text
    parsed,             \* << >> or <<the payer's chain and result of from_str>>
    accepted,           \* << >> or <<the network asked for and result of require_network>>
    output              \* << >> or <<the script of the transaction output>>

payment_vars == <<issued, parsed, accepted, output>>

\* Addresses of a payee: every constructor of both chains.
BitcoinAddresses(n, k) ==
    LET kind == NetworkKind(n)
        hrp == HrpOfNetwork(n)
        point == Key!PointOf(k)
    IN {p2pkh(Key!pubkey_hash(pk), kind) : pk \in Key!PublicKeys({point})}
       \cup {p2wpkh(point, hrp), p2shwpkh(point, kind), p2sh(Redeem, kind).addr, p2wsh(Redeem, hrp),
             p2shwsh(Redeem, kind), p2tr(Key!XOnly(point), MerkleRoot, hrp),
             from_witness_program(p2a, hrp)}
DogecoinAddresses(n, k) ==
    {p2pkh(Key!pubkey_hash(pk), n) : pk \in Key!PublicKeys({Key!PointOf(k)})}
    \cup {p2sh(Redeem, n).addr}

Text(chain, a) == IF chain = "Bitcoin" THEN Display(a) ELSE DogeDisplay(a)
Issued(chain, n, k, a) ==
    [chain |-> chain, network |-> n, key |-> k, addr |-> <<a>>, text |-> Text(chain, a)]

PaymentInit ==
    /\ \/ \E n \in Bitcoins, k \in PayKeys : \E a \in BitcoinAddresses(n, k) :
            issued = Issued("Bitcoin", n, k, a)
       \/ \E n \in Dogecoins, k \in PayKeys : \E a \in DogecoinAddresses(n, k) :
            issued = Issued("Dogecoin", n, k, a)
       \/ \E text \in Pastes : issued = [chain |-> "none", network |-> "none", addr |-> << >>, text |-> text]
    /\ parsed = << >> /\ accepted = << >> /\ output = << >>

Parse ==
    /\ parsed = << >>
    /\ \/ parsed' = <<[chain |-> "Bitcoin", result |-> BitcoinFromStr(issued.text)]>>
       \/ parsed' = <<[chain |-> "Dogecoin", result |-> DogecoinFromStr(issued.text)]>>
    /\ UNCHANGED <<issued, accepted, output>>

Networks(chain) == IF chain = "Bitcoin" THEN Bitcoins ELSE Dogecoins
ValidFor(chain, a, n) == IF chain = "Bitcoin" THEN is_valid_for_network(a, n) ELSE DogeValidFor(a, n)
Required(chain, a, n) == IF chain = "Bitcoin" THEN require_network(a, n) ELSE DogeRequireNetwork(a, n)

Require ==
    /\ parsed # << >> /\ accepted = << >>
    /\ parsed[1].result.err = "none"
    /\ \E n \in Networks(parsed[1].chain) :
        accepted' = <<[network |-> n, result |-> Required(parsed[1].chain, parsed[1].result.addr, n)]>>
    /\ UNCHANGED <<issued, parsed, output>>

\* assume_checked is the other way to an address whose script can be taken.
Pay ==
    /\ accepted # << >> /\ output = << >>
    /\ accepted[1].result.err = "none"
    /\ output' = <<script_pubkey(accepted[1].result.addr)>>
    /\ UNCHANGED <<issued, parsed, accepted>>

PaymentNext == Parse \/ Require \/ Pay

(***************************************************************************)
(* The properties.                                                         *)
(***************************************************************************)
FromScript(chain, s, n) ==
    IF chain = "Bitcoin" THEN from_script(s, NetworkKind(n), HrpOfNetwork(n)) ELSE DogeFromScript(s, n)

\* Whatever route a text took, the output pays the script of the address that
\* was issued; on its own chain the payee's from_script finds the issued
\* address in it, which prints the issued text, and matches_script_pubkey
\* agrees.  Both halves of a key recognise their addresses, other keys' never.
PaymentArrives ==
    output # << >> =>
        LET a == issued.addr[1]
            seen == FromScript(issued.chain, output[1], issued.network)
            Related(k) == \E pk \in Key!PublicKeys({k}) :
                IF issued.chain = "Bitcoin" THEN is_related_to_pubkey(a, pk) ELSE DogeRelatedToPubkey(a, pk)
            ofKey == a.kind = "P2pkh" \/ \E n \in Bitcoins :
                a \in {p2wpkh(issued.key, HrpOfNetwork(n)), p2shwpkh(issued.key, NetworkKind(n))}
            tweaked == Key!TapTweakKeypair(issued.key, MerkleRoot).v
        IN /\ output[1] = script_pubkey(a)
           /\ seen = Addr(a)
           /\ Text(issued.chain, seen.addr) = issued.text
           /\ matches_script_pubkey(a, output[1])
           /\ matches_script_pubkey(accepted[1].result.addr, output[1])
           /\ \A k \in PayKeys : Related(k) <=> (ofKey /\ k = issued.key)
           /\ address_type(a) = "P2tr" => Related(tweaked) /\ is_related_to_xonly_pubkey(a, Key!XOnly(tweaked))

\* A text is taken for an address only by a payer who asks for a network it
\* was issued for: never across main networks, never from a main network to a
\* test network, and by a payer of the issuing chain exactly on the networks
\* the address itself is valid for, its own included.  What is no address is
\* refused.
ChainsSeparate ==
    /\ parsed # << >> /\ issued.chain = parsed[1].chain => parsed[1].result.err = "none"
    /\ parsed # << >> /\ issued.chain = "none" => parsed[1].result.err \in ParseErrors
    /\ accepted # << >> =>
        LET taken == accepted[1].result.err = "none"
            mains == {"Bitcoin", "Dogecoin"}
        IN /\ taken => (accepted[1].network \in mains <=> issued.network \in mains)
           /\ taken /\ issued.network \in mains => issued.chain = parsed[1].chain
           /\ issued.chain = parsed[1].chain =>
                (taken <=> ValidFor(issued.chain, issued.addr[1], accepted[1].network))
           /\ issued.chain = parsed[1].chain /\ issued.network = accepted[1].network => taken

\* Every name, core argument, magic and chain hash names one network, and is
\* read back as it; the consensus parameters are the network's own, their
\* confirmation window is the retarget interval wherever difficulty is
\* retargeted, and no two networks of a chain share a genesis block.  The magics
\* of the two chains differ except on Regtest.
NetworksIdentified ==
    issued.chain # "none" =>
        LET n == issued.network
            p == IF issued.chain = "Bitcoin" THEN Params(n) ELSE DogeParams(n)
        IN /\ p.network = n
           /\ p.rule_change_activation_threshold <= p.miner_confirmation_window
           /\ issued.chain = "Bitcoin" =>
                /\ {NetworkFromStr(as_display_str[n]), from_core_arg(to_core_arg[n]), from_magic(Magic[n]),
                    from_chain_hash(ChainHash[n])} = {Network(n)}
                /\ ~p.no_pow_retargeting => p.miner_confirmation_window = difficulty_adjustment_interval(p)
                /\ \A m \in Bitcoins : genesis_block(m) = genesis_block(n) => m = n
           /\ issued.chain = "Dogecoin" =>
                /\ DogeFromStr(DogeName[n]) = Network(n)
                /\ \A m \in Bitcoins : DogeMagic[n] = Magic[m] => {n, m} = {"Regtest"}
                /\ \A m \in Dogecoins : DogeGenesisBlock(m) = DogeGenesisBlock(n) => m = n

\* Payments: what arrives, who may take a text, and which network is which.
PaymentsSound == PaymentArrives /\ ChainsSeparate /\ NetworksIdentified
=============================================================================
