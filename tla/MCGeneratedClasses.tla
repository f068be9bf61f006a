------------------------- MODULE MCGeneratedClasses -------------------------
(* Instances of GeneratedClasses for TLC. *)
EXTENDS GeneratedClasses, TLC

CONSTANTS c1, c2, c3

MCIntMax    == 32767
MCAddresses == 0 .. 150

\* Two heaps of 32 bytes, one at an odd address.
TwoBases == {11, 56}

\* The globals of c3 fit only into the heap at the aligned address.
MCGlobals == (c1 :> <<4, 8>>) @@ (c2 :> <<8>>) @@ (c3 :> <<8, 8, 8>>)
=============================================================================
