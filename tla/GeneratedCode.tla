---------------------------- MODULE GeneratedCode ----------------------------
(***************************************************************************)
(* What the functions the translator emits do to the stack of the virtual  *)
(* memory, from Java calling one of them to its return or its exception.   *)
(*                                                                         *)
(* JVMWriter::printFunction opens every function with createStackFrame and *)
(* a Ret instruction closes the frame before it loads the result.  No      *)
(* handler closes it (setjmp, whose Jump class the runtime does not have,  *)
(* is left out): an exception leaves every generated frame of the thread   *)
(* open, up to the Java code that made the outermost call.                 *)
(*                                                                         *)
(* An activation remembers, for the properties only, the address the stack *)
(* stood at when the function was entered and the blocks it allocated.     *)
(***************************************************************************)
EXTENDS SharedMemory, SequencesExt

CONSTANT MaxCalls  \* bound: generated functions nested in one thread

VARIABLES calls,   \* calls[t]: the activations of generated functions, outermost first
          thrown   \* thrown[t]: history, an exception has left generated code

vars == <<base, offset, frames, live, calls, thrown>>

StackOf(t) == <<t, "stack">>

\* The address a function entered now finds the stack at.
EntryAddr(t) == base'[StackOf(t)] + offset[StackOf(t)]

Activation(t) ==
  [pc |-> "body", entry |-> EntryAddr(t), own |-> {}]

Running(t, pc) == calls[t] # <<>> /\ Last(calls[t]).pc = pc

Init == /\ Mem!Init
        /\ calls  = [t \in Threads |-> <<>>]
        /\ thrown = [t \in Threads |-> FALSE]

\* createStackFrame, the first instruction of a function.
Enter(t) == /\ Len(calls[t]) < MaxCalls
            /\ Mem!createStackFrame(t)
            /\ calls' = [calls EXCEPT ![t] = Append(@, Activation(t))]
            /\ UNCHANGED thrown

\* Java calls a generated function: LLJVMUtils.invoke, or reflection.
InvokeFromJava(t) == calls[t] = <<>> /\ Enter(t)

\* The exception passes through every activation of the thread.
Unwind(t) == /\ calls'  = [calls EXCEPT ![t] = <<>>]
             /\ thrown' = [thrown EXCEPT ![t] = TRUE]

\* The block allocateStack hands out belongs to the innermost activation.
AllocateOwn(t, required, pc) ==
  /\ Mem!allocateStack(t, required)
  /\ calls' = [calls EXCEPT ![t][Len(calls[t])].own = @ \cup (live' \ live),
                            ![t][Len(calls[t])].pc  = pc]
  /\ UNCHANGED thrown

\* alloca, insertvalue, vector operations: a block until the function returns.
Alloca(t, required) == Running(t, "body") /\ AllocateOwn(t, required, "body")

\* The operands of a call are packed in a block of the caller's own frame.
PackOperands(t, required) == Running(t, "body") /\ AllocateOwn(t, required, "calling")

\* A call without parameters packs nothing.
CallWithoutOperands(t) ==
  /\ Running(t, "body")
  /\ calls' = [calls EXCEPT ![t][Len(calls[t])].pc = "calling"]
  /\ UNCHANGED <<memVars, thrown>>

\* "Not enough memory in the stack".
OutOfStack(t, required) == /\ Running(t, "body")
                           /\ Mem!AllocateFails(t, "stack", required)
                           /\ Unwind(t)

\* Mutant: the callee opens no frame.
EnterCalleeWithoutFrame(t) ==
  /\ Running(t, "calling")
  /\ Len(calls[t]) < MaxCalls
  /\ calls' = [calls EXCEPT ![t] = Append(@,
       [pc |-> "body", entry |-> base[StackOf(t)] + offset[StackOf(t)],
        own |-> {}])]
  /\ UNCHANGED <<memVars, thrown>>

\* Function.invoke_* reaches a function of a generated class (by its class name, or
\* because its method was registered) ...
EnterCallee(t) == Running(t, "calling") /\ Enter(t)

\* ... or a registered Java method ...
ExternalReturns(t) ==
  /\ Running(t, "calling")
  /\ calls' = [calls EXCEPT ![t][Len(calls[t])].pc = "body"]
  /\ UNCHANGED <<memVars, thrown>>

\* ... or throws: method not found, wrong return type, exception of the method.
CallThrows(t) == Running(t, "calling") /\ Unwind(t) /\ UNCHANGED memVars

Unreachable(t) == Running(t, "body") /\ Unwind(t) /\ UNCHANGED memVars

\* The caller goes on behind the call.
Resume(callers) ==
  [i \in DOMAIN callers |->
     IF i < Len(callers) THEN callers[i] ELSE [callers[i] EXCEPT !.pc = "body"]]

\* Mutant: a return that leaves the frame open.
RetWithoutDestroy(t) ==
  /\ Running(t, "body")
  /\ calls' = [calls EXCEPT ![t] = Resume(Front(@))]
  /\ UNCHANGED <<memVars, thrown>>

\* Ret: the frame is destroyed first, then the result is loaded and returned.
Ret(t) ==
  /\ Running(t, "body")
  /\ Mem!destroyStackFrame(t)
  /\ calls' = [calls EXCEPT ![t] = Resume(Front(@))]
  /\ UNCHANGED thrown

Next == \E t \in Threads :
          \/ InvokeFromJava(t)
          \/ \E required \in Requests :
               \/ Alloca(t, required)
               \/ PackOperands(t, required)
               \/ OutOfStack(t, required)
          \/ CallWithoutOperands(t)
          \/ EnterCallee(t)
          \/ ExternalReturns(t)
          \/ CallThrows(t)
          \/ Unreachable(t)
          \/ Ret(t)

Spec == Init /\ [][Next]_vars

-----------------------------------------------------------------------------
(* Properties. *)

\* The memory has its type, and so have the activations; own is checked to be a
\* set of live blocks by LocalsStayLive.
TypeOK ==
  /\ Mem!TypeOK
  /\ thrown \in [Threads -> BOOLEAN]
  /\ \A t \in Threads : \A i \in DOMAIN calls[t] :
       LET a == calls[t][i] IN
       /\ a.pc \in {"body", "calling"}
       /\ a.entry \in Nat
       /\ a.own \subseteq Mem!BlockType

\* block.cc:79-88 with VMemory.java:113-125: the innermost saved addresses are
\* those of the running activations, in order, even above the frames earlier
\* exceptions left behind; so a return pops its own frame and no other.
FramesMatchCalls ==
  \A t \in Threads :
    LET left == Len(frames[t]) - Len(calls[t]) IN
    /\ left >= 0
    /\ \A i \in DOMAIN calls[t] : frames[t][left + i] = calls[t][i].entry

\* What a function allocated, locals and packed operands alike, stays allocated
\* while the function is active: no callee's return, no exception caught below
\* and no other thread frees it (function.cc:62-110, block.cc:79-88).
LocalsStayLive ==
  \A t \in Threads : \A i \in DOMAIN calls[t] : calls[t][i].own \subseteq live

\* VMemory.java:34-37 with function.cc:62-110: no byte belongs to two activations,
\* of one thread or of two, so a function that stores into its locals changes
\* nothing another one reads from its own, whatever calls and exceptions rewound
\* the stack before.
LocalsApart ==
  \A t, u \in Threads : \A i \in DOMAIN calls[t], j \in DOMAIN calls[u] :
    <<t, i>> # <<u, j>> =>
      \A a \in calls[t][i].own, b \in calls[u][j].own :
        a.addr + a.size <= b.addr \/ b.addr + b.size <= a.addr

\* As long as no exception has left generated code on a thread, the stack of an
\* idle thread is empty again: calls leak nothing (function.cc:415, block.cc:81).
IdleStackIsEmpty ==
  \A t \in Threads :
    calls[t] = <<>> /\ ~thrown[t] => frames[t] = <<>> /\ offset[StackOf(t)] = 0
=============================================================================
