---------------------------- MODULE SharedMemory ----------------------------
(***************************************************************************)
(* The virtual memory of one program, for the modules that use it.  What   *)
(* they do to it they do through the operations of Mem, as the emitted     *)
(* code calls the static methods of VMemory.                               *)
(***************************************************************************)
EXTENDS Integers, Sequences

CONSTANTS Threads, Addresses, Bases, Capacity, Requests, IntMax, MaxFrames, Unmapped

VARIABLES base, offset, frames, live

Mem == INSTANCE VMemory

ASSUME MemoryAssumption == Mem!ConstantsAssumption

memVars == <<base, offset, frames, live>>
=============================================================================
