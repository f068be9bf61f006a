------------------------- MODULE MCFunctionRegistry -------------------------
(* Instances of FunctionRegistry for TLC. *)
EXTENDS FunctionRegistry, TLC

CONSTANTS l1, l2, c, f

\* The class of l2 lacks the function the class of l1 and the class file have.
MCDefines == (l1 :> {f}) @@ (l2 :> {}) @@ (c :> {f})
=============================================================================
