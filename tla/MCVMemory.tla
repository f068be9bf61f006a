------------------------------ MODULE MCVMemory ------------------------------
(* Instances of VMemory for TLC. *)
EXTENDS VMemory, TLC

\* Sixteen bits stand for Java's thirty-two.
MCIntMax == 32767

MCAddresses == 0 .. 250

\* One thread: fragments of 32 bytes, at an odd and at an aligned address.
OneThreadBases == {11, 96}

\* The addresses such fragments cover, and no others: the abstract allocator
\* tries every one of them for every block.
OneThreadAddresses == UNION {b .. b + 32 : b \in OneThreadBases}
=============================================================================
