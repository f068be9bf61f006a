--------------------------- MODULE FrameAllocator ---------------------------
(***************************************************************************)
(* What the virtual memory of LLJVM promises to generated code, without a  *)
(* bump pointer, an alignment rule or a capacity in sight: every thread    *)
(* owns a stack of frames and a heap, an allocation hands out a block that *)
(* overlaps no block still live in ANY thread, dropping a frame frees the  *)
(* blocks allocated in it and nothing else, and resetting a heap frees     *)
(* that thread's global data and nothing else.                             *)
(*                                                                         *)
(* Module VMemory implements this specification.                           *)
(***************************************************************************)
EXTENDS Integers

CONSTANTS Threads,    \* the threads of the process
          Addresses,  \* where a block may start
          Sizes       \* how many bytes a block may have

VARIABLES depth,      \* depth[t]: how many frames thread t has open
          live        \* the blocks handed out and not freed yet

vars == <<depth, live>>

Block == [thread : Threads, kind : {"stack", "heap"}, addr : Addresses,
          size : Sizes, depth : Nat]

\* No byte belongs to both blocks.
Apart(b, c) == b.addr + b.size <= c.addr \/ c.addr + c.size <= b.addr

Init == /\ depth = [t \in Threads |-> 0]
        /\ live  = {}

PushFrame(t) == /\ depth' = [depth EXCEPT ![t] = @ + 1]
                /\ UNCHANGED live

PopFrame(t) ==
  /\ depth[t] > 0
  /\ depth' = [depth EXCEPT ![t] = @ - 1]
  /\ live'  = {b \in live : ~(b.thread = t /\ b.kind = "stack" /\ b.depth = depth[t])}

\* The heap of a thread knows no frames: its blocks have depth 0.
Allocate(t, kind, addr, size) ==
  LET block == [thread |-> t, kind |-> kind, addr |-> addr, size |-> size,
                depth  |-> IF kind = "stack" THEN depth[t] ELSE 0]
  IN  /\ \A b \in live : Apart(b, block)
      /\ live' = live \cup {block}
      /\ UNCHANGED depth

ResetHeap(t) == /\ live' = {b \in live : ~(b.thread = t /\ b.kind = "heap")}
                /\ UNCHANGED depth

Next == \E t \in Threads :
          \/ PushFrame(t)
          \/ PopFrame(t)
          \/ \E kind \in {"stack", "heap"}, addr \in Addresses, size \in Sizes :
               Allocate(t, kind, addr, size)
          \/ ResetHeap(t)

Spec == Init /\ [][Next]_vars
=============================================================================
