--------------------------- MODULE MCGeneratedCode ---------------------------
(* Instances of GeneratedCode for TLC. *)
EXTENDS GeneratedCode, TLC

MCIntMax    == 32767
MCAddresses == 0 .. 150

\* Two stacks of 24 bytes, one at an odd address.
TwoBases == {11, 48}

Symmetry == Permutations(Threads)
=============================================================================
