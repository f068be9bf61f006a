-------------------------- MODULE MCPyArrayHolder --------------------------
(* Instances of PyArrayHolder for TLC. *)
EXTENDS PyArrayHolder, TLC

CONSTANTS ar1, ar2

\* Four bytes and two shorts.
MCLength   == (ar1 :> 4) @@ (ar2 :> 2)
MCItemSize == (ar1 :> 1) @@ (ar2 :> 2)

Symmetry == Permutations(Blocks) \cup Permutations(Handles) \cup Permutations(Places)
=============================================================================
