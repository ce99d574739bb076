---------------------------- MODULE WitnessStack ----------------------------
(***************************************************************************)
(* What a witness promises: it "can be logically seen as an array of       *)
(* bytestrings" (documentation of Witness).  A call is a record of what    *)
(* was asked for, with its elements.                                       *)
(***************************************************************************)
EXTENDS Integers, Sequences

CONSTANTS Elements, MaxElements

VARIABLES stack, call

vars == <<stack, call>>

Init == stack = << >> /\ call = [name |-> "new", arg |-> << >>]

push(e) ==
    /\ stack' = Append(stack, e)
    /\ call' = [name |-> "push", arg |-> <<e>>]

clear ==
    /\ stack' = << >>
    /\ call' = [name |-> "clear", arg |-> << >>]

\* A new witness from elements, or from their whole encoding.
assign ==
    /\ call'.name \in {"from_slice", "decode"}
    /\ stack' = call'.arg

\* An encoding that ends too early or is too large gives no witness.
refuse ==
    /\ call'.name = "error"
    /\ stack' = stack

Next == (\E e \in Elements : push(e)) \/ clear \/ assign \/ refuse

Spec == Init /\ [][Next]_vars
=============================================================================
