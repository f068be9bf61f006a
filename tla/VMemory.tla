------------------------------- MODULE VMemory -------------------------------
(***************************************************************************)
(* The virtual memory of generated code: core/.../runtime/VMemory.java.    *)
(*                                                                         *)
(* Every thread lazily maps two fragments of native memory, a stack and a  *)
(* heap.  A fragment is a bump allocator: its current offset only grows,   *)
(* except that destroyStackFrame rewinds the stack to the address that     *)
(* createStackFrame pushed, and resetHeap rewinds the heap to its base.    *)
(*                                                                         *)
(* live is a history variable: the blocks that were handed out and that no *)
(* rewinding has freed.  No action reads it.                               *)
(***************************************************************************)
EXTENDS Integers, Sequences

CONSTANTS
  Threads,     \* threads that run generated code
  Addresses,   \* the address space
  Bases,       \* addresses the native allocator may return
  Capacity,    \* the bytes of a fragment (vmem.stacksize, vmem.heapsize)
  Requests,    \* the sizes generated code asks for
  IntMax,      \* the largest Java int
  MaxFrames,   \* bound: frames open in one thread
  Unmapped     \* the fragment has not been touched yet

ASSUME ConstantsAssumption ==
  /\ Addresses \subseteq Nat
  /\ Bases \subseteq Nat
  /\ \A b \in Bases : b .. b + Capacity \subseteq Addresses
  /\ IntMax \in Nat
  /\ Capacity \in Nat
  /\ Requests \subseteq -(IntMax + 1) .. IntMax
  /\ MaxFrames \in Nat
  /\ Unmapped \notin Nat

VARIABLES
  base,        \* base[r]: the address of fragment r, or Unmapped
  offset,      \* offset[r]: its currentOffset
  frames,      \* frames[t]: the Stack<Long> of saved addresses
  live         \* history: the blocks in use

vars == <<base, offset, frames, live>>

ALIGNMENT == 8

Regions == Threads \X {"stack", "heap"}

\* Java's int addition wraps around.
IntAdd(x, y) == IF x + y > IntMax THEN x + y - 2 * (IntMax + 1) ELSE x + y

\* Mutant: rounds down.
alignOffsetDown(off, align) == ((off - 1) \div align) * align

\* ((offset - 1) & ~(align - 1)) + align, for a power of two.
alignOffsetUp(off, align) == ((off - 1) \div align) * align + align

\* Unsafe.allocateMemory(size + ALIGNMENT) returns memory nobody else uses.
FreeBases ==
  {b \in Bases : \A r \in Regions :
      base[r] # Unmapped => \/ b + Capacity + ALIGNMENT <= base[r]
                            \/ base[r] + Capacity + ALIGNMENT <= b}

\* Mutant: one static fragment for everybody, no ThreadLocal.
SharedFragment(r) ==
  LET mapped == {base[q] : q \in Regions} \ {Unmapped}
  IN  IF mapped # {} THEN mapped ELSE FreeBases

\* ThreadLocal.get(): initialValue() maps the fragment on first use.
CurrentBase(r) == IF base[r] = Unmapped THEN FreeBases ELSE {base[r]}

\* Mutants: no room for the rounding; what is already in use is forgotten.
FitsWithoutSlack(r, required) == ~(Capacity - offset[r] < required)
FitsWhenEmpty(r, required)    == ~(Capacity < IntAdd(required, ALIGNMENT))

Fits(r, required) == ~(Capacity - offset[r] < IntAdd(required, ALIGNMENT))

Init == /\ base   = [r \in Regions |-> Unmapped]
        /\ offset = [r \in Regions |-> 0]
        /\ frames = [t \in Threads |-> <<>>]
        /\ live   = {}

\* Mutant: saves the base of the stack, not its current address.
createStackFrameAtBase(t) ==
  LET r == <<t, "stack">> IN
  \E b \in CurrentBase(r) :
    /\ Len(frames[t]) < MaxFrames
    /\ base'   = [base EXCEPT ![r] = b]
    /\ frames' = [frames EXCEPT ![t] = Append(@, b)]
    /\ UNCHANGED <<offset, live>>

createStackFrame(t) ==
  LET r == <<t, "stack">> IN
  \E b \in CurrentBase(r) :
    /\ Len(frames[t]) < MaxFrames
    /\ base'   = [base EXCEPT ![r] = b]
    /\ frames' = [frames EXCEPT ![t] = Append(@, b + offset[r])]
    /\ UNCHANGED <<offset, live>>

\* Mutants: the current address is not restored; the difference is taken the
\* wrong way round.
destroyStackFrameOnly(t) ==
  LET n == Len(frames[t]) IN
  /\ n > 0
  /\ frames' = [frames EXCEPT ![t] = SubSeq(@, 1, n - 1)]
  /\ live'   = {blk \in live :
                  ~(blk.thread = t /\ blk.kind = "stack" /\ blk.depth = n)}
  /\ UNCHANGED <<base, offset>>

destroyStackFrameSwapped(t) ==
  LET r == <<t, "stack">>
      n == Len(frames[t])
  IN  /\ n > 0
      /\ offset' = [offset EXCEPT ![r] = base[r] - frames[t][n]]
      /\ frames' = [frames EXCEPT ![t] = SubSeq(@, 1, n - 1)]
      /\ UNCHANGED <<base, live>>

destroyStackFrame(t) ==
  LET r == <<t, "stack">>
      n == Len(frames[t])
  IN  /\ n > 0
      /\ offset' = [offset EXCEPT ![r] = frames[t][n] - base[r]]
      /\ frames' = [frames EXCEPT ![t] = SubSeq(@, 1, n - 1)]
      /\ live'   = {blk \in live :
                      ~(blk.thread = t /\ blk.kind = "stack" /\ blk.depth = n)}
      /\ UNCHANGED base

\* Stack.pop() on a thread without a frame: EmptyStackException, after the
\* fragment was mapped.
destroyStackFrameEmpty(t) ==
  LET r == <<t, "stack">> IN
  \E b \in CurrentBase(r) :
    /\ frames[t] = <<>>
    /\ base' = [base EXCEPT ![r] = b]
    /\ UNCHANGED <<offset, frames, live>>

\* allocateStack and allocateData run the same code on their own fragment.
Allocate(t, kind, depth, required) ==
  LET r == <<t, kind>> IN
  \E b \in CurrentBase(r) :
    LET addr == alignOffsetUp(b + offset[r], ALIGNMENT) IN
    /\ Fits(r, required)
    /\ base'   = [base EXCEPT ![r] = b]
    /\ offset' = [offset EXCEPT ![r] = addr + required - b]
    /\ live'   = live \cup {[thread |-> t, kind |-> kind, addr |-> addr,
                             size |-> required, depth |-> depth]}
    /\ UNCHANGED frames

allocateStack(t, required) == Allocate(t, "stack", Len(frames[t]), required)

allocateData(t, required) == Allocate(t, "heap", 0, required)

\* "Not enough memory in the stack" / "... in the heap".
AllocateFails(t, kind, required) ==
  LET r == <<t, kind>> IN
  \E b \in CurrentBase(r) :
    /\ ~Fits(r, required)
    /\ base' = [base EXCEPT ![r] = b]
    /\ UNCHANGED <<offset, frames, live>>

\* Mutant: the current address becomes 0, not the base.
resetHeapToZero(t) ==
  LET r == <<t, "heap">> IN
  \E b \in CurrentBase(r) :
    /\ base'   = [base EXCEPT ![r] = b]
    /\ offset' = [offset EXCEPT ![r] = -b]
    /\ live'   = {blk \in live : ~(blk.thread = t /\ blk.kind = "heap")}
    /\ UNCHANGED frames

resetHeap(t) ==
  LET r == <<t, "heap">> IN
  \E b \in CurrentBase(r) :
    /\ base'   = [base EXCEPT ![r] = b]
    /\ offset' = [offset EXCEPT ![r] = 0]
    /\ live'   = {blk \in live : ~(blk.thread = t /\ blk.kind = "heap")}
    /\ UNCHANGED frames

Next == \E t \in Threads :
          \/ createStackFrame(t)
          \/ destroyStackFrame(t)
          \/ destroyStackFrameEmpty(t)
          \/ \E required \in Requests :
               \/ allocateStack(t, required)
               \/ allocateData(t, required)
               \/ \E kind \in {"stack", "heap"} : AllocateFails(t, kind, required)
          \/ resetHeap(t)

Spec == Init /\ [][Next]_vars

-----------------------------------------------------------------------------
(* Properties. *)

\* The requests for which required + ALIGNMENT does not leave the int range.
RequestsFitInt == \A n \in Requests : 0 <= n /\ n + ALIGNMENT <= IntMax

BlockType == [thread : Threads, kind : {"stack", "heap"}, addr : Nat,
              size : Nat, depth : Nat]

\* The state has its type.
TypeOK ==
  /\ base \in [Regions -> Nat \cup {Unmapped}]
  /\ offset \in [Regions -> Nat]
  /\ frames \in [Threads -> Seq(Nat)]
  /\ live \subseteq BlockType

\* verifyStackAddress, and its counterpart for the heap.
InFragment(r, addr, size) ==
  base[r] <= addr /\ addr + size < base[r] + Capacity

\* VMemory.java:140-144, VMemorySuite: every block in use starts on an 8-byte
\* boundary and lies strictly inside its own thread's fragment, although the
\* fragment itself may start at any address and although the capacity is only
\* compared with required + ALIGNMENT before the start is rounded up.
BlocksInFragment ==
  \A blk \in live :
    LET r == <<blk.thread, blk.kind>> IN
    /\ base[r] # Unmapped
    /\ blk.addr % ALIGNMENT = 0
    /\ InFragment(r, blk.addr, blk.size)

\* VMemory.java:34-37: no byte is in two live blocks, whatever threads, frames
\* and fragments they come from; so a store through one pointer cannot change
\* what another thread, or a caller's frame, reads.
BlocksDisjoint ==
  \A blk, other \in live :
    \/ blk = other
    \/ blk.addr + blk.size <= other.addr
    \/ other.addr + other.size <= blk.addr

\* The first free byte of a mapped fragment.
CurrentAddr(r) == base[r] + offset[r]

\* VMemory.java:113-138: stack space is never lost.  What a stack has in use
\* ends with a live block, so closing the frames of a thread gives back every
\* byte they took.
NoLostSpace ==
  \A r \in Regions : offset[r] > 0 =>
    \E blk \in live : /\ blk.thread = r[1] /\ blk.kind = r[2]
                      /\ blk.addr + blk.size = CurrentAddr(r)

\* VMemory.java:75-78, assert(base <= addr && addr <= base + numBytes): the
\* current address of a fragment never leaves it.
CurrentAddrInFragment == \A r \in Regions : offset[r] \in 0 .. Capacity

\* The bump allocators implement the abstract allocator.
A == INSTANCE FrameAllocator
       WITH depth <- [t \in Threads |-> Len(frames[t])], Sizes <- Requests
Refinement == A!Spec
=============================================================================
