---------------------------- MODULE MCPrimitives ----------------------------
(***************************************************************************)
(* The crates below `bitcoin`: units (amounts, fees and lock times), and   *)
(* byte streams: the hash engines fed in pieces (Hashing), the block       *)
(* filters written bit by bit (Filters) and the reader and writer traits   *)
(* below them (Io).  They share no state: `crate` and `work` say which one *)
(* a behaviour exercises, and the variables of the others keep one value.  *)
(***************************************************************************)
EXTENDS Hashing, Filters, Io, Units

-----------------------------------------------------------------------------
(* Streams *)

VARIABLE work

streams_vars == <<work, engine, fed, filter_vars, io_vars>>

\* The variables of a part that is not exercised keep one fixed value.
HashIdle == engine = << >> /\ fed = << >>
FilterIdle ==
    /\ fblock = << >> /\ sip = << >> /\ elements = {} /\ stage = "" /\ content = << >>
IoIdle == IoInit /\ reader.kind = "slice" /\ writer.kind = "vec"

StreamsInit ==
    \/ work = "hash" /\ HashInit /\ FilterIdle /\ IoIdle
    \/ work = "filter" /\ HashIdle /\ FilterInit /\ IoIdle
    \/ work = "io" /\ HashIdle /\ FilterIdle /\ IoInit

Hashes == work = "hash" /\ HashNext /\ UNCHANGED <<work, filter_vars, io_vars>>
FiltersBlocks == work = "filter" /\ FilterNext /\ UNCHANGED <<work, hash_vars, io_vars>>
Transfers == work = "io" /\ IoNext /\ UNCHANGED <<work, hash_vars, filter_vars>>

StreamsNext == Hashes \/ FiltersBlocks \/ Transfers

\* A turn of a loop that is not interrupted is taken in the end: an interrupted turn
\* changes nothing, so that weak fairness asks for another one.
ReadsOn == work = "io" /\ ReadTurn /\ UNCHANGED <<work, hash_vars, filter_vars>>
WritesOn == work = "io" /\ WriteTurn /\ UNCHANGED <<work, hash_vars, filter_vars>>

\* The properties of the three parts, each for the behaviours that exercise it.

\* Every digest is the one its standard defines, however the message was fed
\* (Hashing!DigestsStandard: the engines of hashes/src).
HashesStandard == work = "hash" => DigestsStandard

\* No script of a block escapes its filter (Filters!FiltersComplete: bip158.rs).
FiltersNoFalseNegatives == work = "filter" => FiltersComplete

-----------------------------------------------------------------------------
(* All crates *)

VARIABLE crate

vars == <<crate, unitVars, streams_vars>>

UnitsIdle == task = "" /\ TextInit /\ LockIdle /\ rate = 0 /\ coins = << >>
StreamsIdle == work = "" /\ HashIdle /\ FilterIdle /\ IoIdle

Init ==
    \/ crate = "units" /\ UnitsInit /\ StreamsIdle
    \/ crate = "streams" /\ UnitsIdle /\ StreamsInit

Next ==
    \/ UnitsNext /\ UNCHANGED <<crate, streams_vars>>
    \/ StreamsNext /\ UNCHANGED <<crate, unitVars>>

\* Fairness: the turns of the loops of the io crate.
Spec ==
    /\ Init /\ [][Next]_vars
    /\ WF_streams_vars(ReadsOn) /\ WF_streams_vars(WritesOn)

-----------------------------------------------------------------------------
(* Values of the constants *)

MCPrinted == {I64MIN, -ONE_BTC, -1, 0, 1, 10, 12345, 99999999, ONE_BTC, ONE_BTC + 10, I64MAX}
MCStyles ==
    [align : {"Right"}, width : {0}, precision : {-1, 0, 3}, sign_plus : {FALSE}, zero_pad : {FALSE}]
        \cup [align : {"Left", "Right", "Center"}, width : {12}, precision : {-1, 3},
              sign_plus : {FALSE}, zero_pad : BOOLEAN]
        \cup {[DefaultOptions EXCEPT !.sign_plus = TRUE]}
MCAlphabet == {"0", "1", "9", ".", "-", "+", " ", "BTC"}
MCRates == {0, 1, 250, 253, 1000, 500000}
MCWeights == {0, 1, 90, 108, 340, 100000, U64MAX - 100}
MCAmounts == {0, 1, 546, ONE_BTC, I64MAX, U64MAX}
MCInputSequences == {0, 3, 4, 9, 11, 32, 41, 61, 62, 63}
MCNumbers == {0, 2, 39, 40, 43, 63}

Pays(ins, outs) == [input |-> ins, output |-> outs]

\* No transaction, a coinbase alone, a repeated script, and only spent scripts.
MCBlocks == {
    << >>,
    <<Pays(<<"a">>, <<"a", "op">>)>>,
    <<Pays(<<"b">>, <<"a", "e">>), Pays(<<"c", "d">>, <<"a">>)>>,
    <<Pays(<<"b">>, <<"op">>), Pays(<<"e", "d">>, <<"op">>), Pays(<<"a", "b", "c">>, <<"e">>)>>}

\* Hashes at both ends of the range, in the middle, and colliding.
MCSipKeys == {[s \in Scripts |-> CASE s = "a" -> x [] s = "b" -> y [] s = "c" -> z
                                   [] s = "d" -> 255 [] OTHER -> 250] :
                x \in {0, 255}, y \in {0, 128}, z \in {130, 255}}

MCSource == <<1, 2, 3, 4, 5>>
MCOffers == {<< >>, <<7>>, <<8, 9, 6>>}
=============================================================================
