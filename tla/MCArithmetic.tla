---------------------------- MODULE MCArithmetic ----------------------------
(* Every instruction on every operand of 1, 3, 4, 5 and 7 bits; 4 and 5     *)
(* significant bits, so that a conversion from i64 rounds away up to two.  *)
EXTENDS Arithmetic

MCWidth     == [i1 |-> 1, i8 |-> 3, i16 |-> 4, i32 |-> 5, i64 |-> 7]
MCPrecision == [f32 |-> 4, f64 |-> 5]
=============================================================================
