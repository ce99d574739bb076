---------------------------- MODULE MCDifficulty ----------------------------
(* Difficulty with two-bit bytes: 9-byte numbers of 18 bits.               *)
EXTENDS HeaderChain

MCPow == [n \in 0 .. Size |-> Base ^ n]

\* Mantissa 23 at exponent 5, the shape of 0x1e0fffff: not the largest
\* mantissa, and far enough below the width.
MCMaxAttainable == 23 * MCPow[2]

\* The easiest target, the one of the mainnet genesis block, just below it, and
\* the hardest, a target of one, where U256::inverse leaves the quotient.
MCStartBits ==
    {[size |-> 5, mant |-> 23], [size |-> 5, mant |-> 20], [size |-> 1, mant |-> 16]}

MCTimes == {0, 30, 200, 700}

MCSlowTimespans == {320, 1000}
=============================================================================
