------------------------------ MODULE Networks ------------------------------
(***************************************************************************)
(* Networks of both chains and what identifies them                        *)
(* (bitcoin/src/{network,blockdata/constants,consensus/params}.rs,         *)
(* bitcoin/src/dogecoin/{mod,constants,params}.rs) and, from               *)
(* bitcoin/src/p2p/mod.rs, the message magic and a node's service flags    *)
(* over time: services come up and go down, and the flags that are         *)
(* announced and printed follow.                                           *)
(*                                                                         *)
(* A chain hash is named after its constant; targets after theirs.         *)
(***************************************************************************)
EXTENDS Integers, Sequences, FiniteSets

Bitcoins == {"Bitcoin", "Testnet", "Testnet4", "Signet", "Regtest"}
Dogecoins == {"Dogecoin", "Testnet", "Regtest"}

\* NetworkKind::from.
NetworkKind(n) == IF n = "Bitcoin" THEN "Main" ELSE "Test"

(***************************************************************************)
(* Names, core arguments, magics and chain hashes.                         *)
(***************************************************************************)
as_display_str ==
    [Bitcoin |-> "bitcoin", Testnet |-> "testnet", Testnet4 |-> "testnet4",
     Signet |-> "signet", Regtest |-> "regtest"]
to_core_arg ==
    [Bitcoin |-> "main", Testnet |-> "test", Testnet4 |-> "testnet4",
     Signet |-> "signet", Regtest |-> "regtest"]
Magic ==
    [Bitcoin |-> <<249, 190, 180, 217>>, Testnet |-> <<11, 17, 9, 7>>,
     Testnet4 |-> <<28, 22, 63, 40>>, Signet |-> <<10, 3, 207, 64>>,
     Regtest |-> <<250, 191, 181, 218>>]
ChainHash ==
    [Bitcoin |-> "BITCOIN", Testnet |-> "TESTNET3", Testnet4 |-> "TESTNET4",
     Signet |-> "SIGNET", Regtest |-> "REGTEST"]

DogeName == [Dogecoin |-> "dogecoin", Testnet |-> "testnet", Regtest |-> "regtest"]
DogeMagic ==
    [Dogecoin |-> <<192, 192, 192, 192>>, Testnet |-> <<252, 193, 183, 220>>,
     Regtest |-> <<250, 191, 181, 218>>]

Network(n) == [err |-> "none", network |-> n]
NoNetwork(e) == [err |-> e]

\* FromStr, from_core_arg (also as_core_arg's visitor), TryFrom<Magic> and
\* TryFrom<ChainHash> for Network; FromStr for the Dogecoin network.
NetworkFromStr(s) ==
    CASE s = "bitcoin" -> Network("Bitcoin") [] s = "testnet" -> Network("Testnet")
      [] s = "testnet4" -> Network("Testnet4") [] s = "signet" -> Network("Signet")
      [] s = "regtest" -> Network("Regtest") [] OTHER -> NoNetwork("ParseNetworkError")

from_core_arg(s) ==
    CASE s = "main" -> Network("Bitcoin") [] s = "test" -> Network("Testnet")
      [] s = "testnet4" -> Network("Testnet4") [] s = "signet" -> Network("Signet")
      [] s = "regtest" -> Network("Regtest") [] OTHER -> NoNetwork("ParseNetworkError")

from_magic(m) ==
    CASE m = Magic.Bitcoin -> Network("Bitcoin") [] m = Magic.Testnet -> Network("Testnet")
      [] m = Magic.Testnet4 -> Network("Testnet4") [] m = Magic.Signet -> Network("Signet")
      [] m = Magic.Regtest -> Network("Regtest") [] OTHER -> NoNetwork("UnknownMagicError")

from_chain_hash(h) ==
    CASE h = "BITCOIN" -> Network("Bitcoin") [] h = "TESTNET3" -> Network("Testnet")
      [] h = "TESTNET4" -> Network("Testnet4") [] h = "SIGNET" -> Network("Signet")
      [] h = "REGTEST" -> Network("Regtest") [] OTHER -> NoNetwork("UnknownChainHashError")

DogeFromStr(s) ==
    CASE s = "dogecoin" -> Network("Dogecoin") [] s = "testnet" -> Network("Testnet")
      [] s = "regtest" -> Network("Regtest") [] OTHER -> NoNetwork("ParseNetworkError")

(***************************************************************************)
(* Consensus parameters.                                                   *)
(***************************************************************************)
Bip16Time == 1333238400
TwoWeeks == 14 * 24 * 60 * 60

BitcoinParams(network, bip34, bip65, bip66, threshold, window, target, min_difficulty, no_retarget) ==
    [network |-> network, bip16_time |-> Bip16Time, bip34_height |-> bip34,
     bip65_height |-> bip65, bip66_height |-> bip66,
     rule_change_activation_threshold |-> threshold, miner_confirmation_window |-> window,
     max_attainable_target |-> target, pow_target_spacing |-> 10 * 60,
     pow_target_timespan |-> TwoWeeks, allow_min_difficulty_blocks |-> min_difficulty,
     no_pow_retargeting |-> no_retarget]

Params(n) ==
    CASE n = "Bitcoin" -> BitcoinParams(n, 227931, 388381, 363725, 1916, 2016, "MAINNET", FALSE, FALSE)
      [] n = "Testnet" -> BitcoinParams(n, 21111, 581885, 330776, 1512, 2016, "TESTNET", TRUE, FALSE)
      [] n = "Testnet4" -> BitcoinParams(n, 1, 1, 1, 1512, 2016, "TESTNET", TRUE, FALSE)
      [] n = "Signet" -> BitcoinParams(n, 1, 1, 1, 1916, 2016, "SIGNET", FALSE, FALSE)
      [] n = "Regtest" -> BitcoinParams(n, 100000000, 1351, 1251, 108, 144, "REGTEST", TRUE, TRUE)

difficulty_adjustment_interval(p) == p.pow_target_timespan \div p.pow_target_spacing

DogeParamsOf(network, bip34, bip65, threshold, window, spacing, no_retarget, auxpow, strict, digishield) ==
    [network |-> network, bip16_time |-> Bip16Time, bip34_height |-> bip34,
     bip65_height |-> bip65, bip66_height |-> IF network = "Regtest" THEN 1251 ELSE bip34,
     rule_change_activation_threshold |-> threshold, miner_confirmation_window |-> window,
     pow_target_spacing |-> spacing, no_pow_retargeting |-> no_retarget,
     auxpow_height |-> auxpow, strict_chain_id |-> strict, auxpow_chain_id |-> 98,
     digishield_activation_height |-> digishield]

DogeParams(n) ==
    CASE n = "Dogecoin" -> DogeParamsOf(n, 1034383, 3464751, 9576, 10080, 60, FALSE, 371337, TRUE, 145000)
      [] n = "Testnet" -> DogeParamsOf(n, 708658, 1854705, 2880, 10080, 60, FALSE, 158100, FALSE, 145000)
      [] n = "Regtest" -> DogeParamsOf(n, 100000000, 1351, 540, 720, 1, TRUE, 20, TRUE, 10)

\* allow_min_difficulty_blocks and allow_legacy_blocks by height.
AllowMinDifficulty(p, height) ==
    CASE p.network = "Dogecoin" -> FALSE
      [] p.network = "Testnet" -> height \notin 145000..157499
      [] OTHER -> TRUE
allow_legacy_blocks(p, height) == height < p.auxpow_height

(***************************************************************************)
(* Genesis blocks: time, bits and nonce; the coinbase pushes its text, the *)
(* output its key.                                                         *)
(***************************************************************************)
GenesisHeader(time, bits, nonce) ==
    [version |-> 1, prev_blockhash |-> 0, time |-> time, bits |-> bits, nonce |-> nonce]

genesis_header(n) ==
    CASE n = "Bitcoin" -> GenesisHeader(1231006505, 486604799, 2083236893)
      [] n = "Testnet" -> GenesisHeader(1296688602, 486604799, 414098458)
      [] n = "Testnet4" -> GenesisHeader(1714777860, 486604799, 393743547)
      [] n = "Signet" -> GenesisHeader(1598918400, 503543726, 52613770)
      [] n = "Regtest" -> GenesisHeader(1296688602, 545259519, 2)

DogeGenesisHeader(n) ==
    CASE n = "Dogecoin" -> GenesisHeader(1386325540, 504365040, 99943)
      [] n = "Testnet" -> GenesisHeader(1391503289, 504365040, 997879)
      [] n = "Regtest" -> GenesisHeader(1296688602, 545259519, 2)

GenesisTx(text, key, coins) ==
    [version |-> 1, lock_time |-> 0, previous_output |-> "null", sequence |-> "MAX",
     script_sig |-> <<486604799, 4, text>>, value |-> coins, script_pubkey |-> key]
bitcoin_genesis_tx(n) ==
    IF n = "Testnet4" THEN GenesisTx("03/May/2024", "zeroes", 50)
                      ELSE GenesisTx("The Times", "GENESIS_OUTPUT_PK", 50)
dogecoin_genesis_tx == GenesisTx("Nintondo", "GENESIS_OUTPUT_PK_DOGE", 88)

\* The block, whose merkle root is the id of its only transaction.
genesis_block(n) ==
    [header |-> genesis_header(n), root |-> bitcoin_genesis_tx(n), txdata |-> <<bitcoin_genesis_tx(n)>>]
DogeGenesisBlock(n) ==
    [header |-> DogeGenesisHeader(n), root |-> dogecoin_genesis_tx, txdata |-> <<dogecoin_genesis_tx>>]

(***************************************************************************)
(* Service flags: sets of bits.                                            *)
(***************************************************************************)
KnownFlags == <<0, 1, 2, 3, 6, 10, 11>>
FlagNames == <<"NETWORK", "GETUTXO", "BLOOM", "WITNESS", "COMPACT_FILTERS", "NETWORK_LIMITED", "P2P_V2">>

\* add is a union, remove an exclusive or; | and ^ are the two.
add(flags, other) == flags \cup other
remove(flags, other) == (flags \ other) \cup (other \ flags)
has(flags, other) == (flags \cup other) = flags

\* Display: the known flags by name in their order, what is left in hex.
RECURSIVE WriteFlags(_, _)
WriteFlags(flags, k) ==
    IF k > Len(KnownFlags) THEN [names |-> << >>, hex |-> flags]
    ELSE IF has(flags, {KnownFlags[k]})
    THEN LET rest == WriteFlags(remove(flags, {KnownFlags[k]}), k + 1)
         IN [rest EXCEPT !.names = <<FlagNames[k]>> \o @]
    ELSE WriteFlags(flags, k + 1)
DisplayFlags(flags) == WriteFlags(flags, 1)

-----------------------------------------------------------------------------
(* Services of a node *)

CONSTANTS
    Offers              \* sets of flag bits added or removed in one call

VARIABLES
    flags,              \* the node's ServiceFlags, as a set of bits
    offered             \* ghost: the services that are up

service_vars == <<flags, offered>>

ServiceInit == flags = {} /\ offered = {}

Up ==
    \E f \in Offers :
        /\ flags' = add(flags, f)
        /\ offered' = offered \cup f

\* remove toggles the bits (p2p/mod.rs:113): it is called for services that are up.
Down ==
    \E f \in Offers :
        /\ has(flags, f)
        /\ flags' = remove(flags, f)
        /\ offered' = offered \ f

ServiceNext == Up \/ Down

\* The flags are the services that are up, has() finds exactly their subsets,
\* and Display names each known flag once, in order, and leaves no known flag
\* and loses no unknown one in the number it prints at the end.
FlagsFollow ==
    /\ flags = offered
    /\ \A f \in Offers : has(flags, f) <=> f \subseteq offered
    /\ \A shown \in {DisplayFlags(flags)} :
        /\ \A k \in DOMAIN KnownFlags :
            (\E i \in DOMAIN shown.names : shown.names[i] = FlagNames[k]) <=> KnownFlags[k] \in offered
        /\ Len(shown.names) = Cardinality({k \in DOMAIN KnownFlags : KnownFlags[k] \in offered})
        /\ shown.hex = {b \in offered : \A k \in DOMAIN KnownFlags : KnownFlags[k] # b}
=============================================================================
