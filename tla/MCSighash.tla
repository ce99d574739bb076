----------------------------- MODULE MCSighash -----------------------------
(***************************************************************************)
(* A transaction with three inputs and two outputs, hashes of every kind   *)
(* and type for its inputs and for one that is not there.                  *)
(***************************************************************************)
EXTENDS Sighash

TxIn(o, s) == [previous_output |-> o, sequence |-> s, script_sig |-> None, witness |-> None]
MCTx == [version |-> 1, lock_time |-> 2, input |-> <<TxIn(1, 3), TxIn(2, 4), TxIn(3, 5)>>,
         output |-> <<4, 5>>]
Out(v, s) == [value |-> v, spk |-> s]
MCSpent == <<Out(1, 4), Out(2, 5), Out(3, 6)>>
MCWitnesses == {None, <<1>>}

AllPrevouts(outs) == [one |-> 0, outs |-> outs]

TaprootCall(i, prevouts, annex, leaf, ty) ==
    [kind |-> "taproot", i |-> i, prevouts |-> prevouts, annex |-> annex, leaf |-> leaf, ty |-> ty]

MCTaprootCalls(prevouts) ==
    {TaprootCall(i, p, m[1], m[2], ty) : i \in {1, 3, 4}, p \in prevouts,
        m \in {<<None, <<1>>>>, <<<<1>>, None>>}, ty \in EcdsaTypes \cup {"Default"}}
MCSegwitCalls ==
    [kind : {"p2wpkh"}, i : {1, 3, 4}, script : {"p2wpkh", "other"}, value : {1}, ty : EcdsaTypes]
        \cup [kind : {"p2wsh"}, i : {1, 3, 4}, script : {"other"}, value : {1}, ty : EcdsaTypes]
MCLegacyCalls ==
    [kind : {"legacy"}, i : {1, 3, 4}, script : {"s"},
     n : 0 .. 3 \cup 34 .. 35 \cup 128 .. 131 \cup 162 .. 163]

MCCalls ==
    MCTaprootCalls({AllPrevouts(MCSpent), AllPrevouts(<<MCSpent[1]>>)}
                   \cup {[one |-> i, outs |-> <<MCSpent[i]>>] : i \in {1, 3}})
        \cup MCSegwitCalls \cup MCLegacyCalls
=============================================================================
