----------------------------- MODULE MCAggregates -----------------------------
(* A vector, a struct with an odd layout that holds an array, and a pointer  *)
(* to such a struct; zero, mixed and string globals.                         *)
EXTENDS Aggregates
CONSTANTS number2

V == Vector(2, 4)
S == Struct(<<1, 4, 2, 2>>, <<1, 1, 2>>)
P == Struct(<<4, 2>>, <<1, 1>>)

MCArguments   == <<V, S>>
MCAllocated   == {V}
\* Those that need no padding and whose numbers are operands come first; the
\* others are admitted by the divergences "padding" and "dataArray".
MCGlobalLists == {<<[ty |-> S, value |-> <<Zero, Zero, Zero, Zero>>],
                    [ty |-> P, value |-> <<Number, number2>>]>>,
                  <<[ty |-> Array(2, 1), value |-> <<Number, Zero>>]>>,
                  <<[ty |-> S, value |-> <<Number, number2, Zero, Zero>>]>>,
                  <<[ty |-> V, value |-> <<Number, number2>>]>>}
MCArgumentAddress == <<100, 200, 300>>
MCMasks       == {<<-1, 2, 0>>, <<0, 0>>}
=============================================================================
