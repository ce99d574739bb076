------------------------------- MODULE MCU256 -------------------------------
(***************************************************************************)
(* The arithmetic of bitcoin/src/pow.rs as its callers use it: operations  *)
(* on the two halves, and divisions and decimal prints of the same         *)
(* operands, one call at a time.  Quarters have two bits, and operands are *)
(* all pairs of 8-bit numbers.                                             *)
(***************************************************************************)
EXTENDS U256

ASSUME SameWidth == Width = FullBits

CallsInit == OperInit /\ DivInit

OperatorCall == pc = "idle" /\ OperNext /\ UNCHANGED DivVars

DivisionCall ==
    /\ op = "idle"
    /\ \/ DivRem(Val(lhs), Val(rhs))
       \/ rhs = ZERO /\ FmtDecimal(Val(lhs))
       \/ DivLoop
       \/ DivReturn
       \/ FmtLoop
       \/ FmtDigit
       \/ FmtReturn
    /\ UNCHANGED operVars

CallsNext == OperatorCall \/ DivisionCall

CallsVars == <<operVars, DivVars>>

CallsSpec ==
    /\ CallsInit /\ [][CallsNext]_CallsVars
    /\ WF_CallsVars(DivisionCall /\ pc \in {"div", "fmt", "digit"})

-----------------------------------------------------------------------------
(* Properties *)

\* The arithmetic is that of the natural numbers: products, shifts, inverses,
\* bytes, hexadecimal strings, floats and decimal prints.
ArithmeticExact == OperatorsExact /\ ConversionsExact /\ DecimalCorrect

-----------------------------------------------------------------------------
(* Values of the constants *)

MCAll == U256
MCPow2 == [n \in 0 .. Width |-> 2 ^ n]
=============================================================================
