------------------------------ MODULE MCArith ------------------------------
(***************************************************************************)
(* Floats of eight bits, registers of eight bits.  The operands that are   *)
(* not taken exhaustively are the ones at the edges: zeros, subnormals,    *)
(* numbers about one, the largest, infinities, NaNs.                       *)
(***************************************************************************)
EXTENDS Arith

Sample(exps) == {128 * s + 4 * e + m : s \in 0..1, e \in exps, m \in 0..3}
MCFloats2 == Sample({0, 1, 2, 14, 15, 16, 17, 29, 30, 31})
MCFloats3 == Sample({0, 1, 13, 15, 16, 30, 31})
MCOperands == {0, 1, 2, 3, 4, 5, 7, 8, 15, 16, 100, 127, 128, 129, 252, 254, 255}
=============================================================================
