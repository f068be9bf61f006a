--------------------------- MODULE GeneratedClasses ---------------------------
(***************************************************************************)
(* The life of generated classes and of their global variables.            *)
(*                                                                         *)
(* LLJVMClassLoader defines a class; the JVM runs its <clinit> in the      *)
(* first thread that uses it, once, while other threads that need the      *)
(* class wait.  JVMWriter::printClInit emits that method: reset the heap   *)
(* of the thread, then allocate every global variable and keep its address *)
(* in a static field, which functions read from any thread.  The Numba     *)
(* runtime allocates from the same heaps while functions run.              *)
(*                                                                         *)
(* All generated classes have one name, so a loader defines at most one;   *)
(* a class stands for its loader.                                          *)
(***************************************************************************)
EXTENDS SharedMemory

CONSTANTS Classes,  \* the generated classes, one per loader
          Globals,  \* Globals[c]: the sizes of its global variables, in order
          NoClass   \* no class was initialised in the thread

ASSUME GlobalsAssumption == Globals \in [Classes -> Seq(Requests)]

VARIABLES status,   \* status[c]: what the JVM knows of c
          runner,   \* runner[c]: the thread that runs or ran its <clinit>
          fields,   \* fields[c]: the blocks its static fields point to
          latest    \* latest[t]: history, the last class whose <clinit> began on t

classVars        == <<status, runner, fields, latest>>
memoryAndClasses == <<base, offset, frames, live, status, runner, fields, latest>>

ClassesInit == /\ Mem!Init
               /\ status = [c \in Classes |-> "unloaded"]
               /\ runner = [c \in Classes |-> NoClass]
               /\ fields = [c \in Classes |-> <<>>]
               /\ latest = [t \in Threads |-> NoClass]

Initializing(t, c) == status[c] = "initializing" /\ runner[c] = t
Busy(t) == \E c \in Classes : Initializing(t, c)

\* loadClassFromBytecode, loadClassFromBitcode: a second defineClass of the same
\* loader is a LinkageError.
loadClass(c) ==
  /\ status[c] = "unloaded"
  /\ status' = [status EXCEPT ![c] = "defined"]
  /\ UNCHANGED <<base, offset, frames, live, runner, fields, latest>>

\* The first use of c; <clinit> begins with resetHeap.
BeginClInit(t, c) ==
  /\ status[c] = "defined" /\ ~Busy(t)
  /\ Mem!resetHeap(t)
  /\ status' = [status EXCEPT ![c] = "initializing"]
  /\ runner' = [runner EXCEPT ![c] = t]
  /\ latest' = [latest EXCEPT ![t] = c]
  /\ UNCHANGED fields

NextGlobal(c) == Globals[c][Len(fields[c]) + 1]

\* allocateData and putstatic of the next global variable.
AllocateGlobal(t, c) ==
  /\ Initializing(t, c) /\ Len(fields[c]) < Len(Globals[c])
  /\ Mem!allocateData(t, NextGlobal(c))
  /\ \E block \in live' \ live : fields' = [fields EXCEPT ![c] = Append(@, block)]
  /\ UNCHANGED <<status, runner, latest>>

\* Mutant: a failed allocation is tried again.
ClInitRetries(t, c) ==
  /\ Initializing(t, c) /\ Len(fields[c]) < Len(Globals[c])
  /\ Mem!AllocateFails(t, "heap", NextGlobal(c))
  /\ UNCHANGED classVars

\* "Not enough memory in the heap": ExceptionInInitializerError, c stays unusable.
ClInitFails(t, c) ==
  /\ Initializing(t, c) /\ Len(fields[c]) < Len(Globals[c])
  /\ Mem!AllocateFails(t, "heap", NextGlobal(c))
  /\ status' = [status EXCEPT ![c] = "erroneous"]
  /\ UNCHANGED <<runner, fields, latest>>

\* The initialisers are stored, <clinit> returns.
EndClInit(t, c) ==
  /\ Initializing(t, c) /\ Len(fields[c]) = Len(Globals[c])
  /\ status' = [status EXCEPT ![c] = "ready"]
  /\ UNCHANGED <<base, offset, frames, live, runner, fields, latest>>

\* NumbaRuntime allocates a MemInfo for a running function.
AllocateMemInfo(t, required) ==
  /\ ~Busy(t)
  /\ Mem!allocateData(t, required) \/ Mem!AllocateFails(t, "heap", required)
  /\ UNCHANGED classVars

ClInitStep(t, c) == AllocateGlobal(t, c) \/ ClInitFails(t, c) \/ EndClInit(t, c)

ClassesNext == \/ \E c \in Classes : loadClass(c)
               \/ \E t \in Threads, c \in Classes : BeginClInit(t, c) \/ ClInitStep(t, c)
               \/ \E t \in Threads, required \in Requests : AllocateMemInfo(t, required)

ClassesSpec == ClassesInit /\ [][ClassesNext]_memoryAndClasses

\* The JVM keeps running the thread that initialises a class.
ClassesFairSpec ==
  ClassesSpec /\ \A t \in Threads, c \in Classes : WF_memoryAndClasses(ClInitStep(t, c))

-----------------------------------------------------------------------------
(* Properties. *)

\* The state has its type.
ClassesTypeOK ==
  /\ Mem!TypeOK
  /\ status \in [Classes -> {"unloaded", "defined", "initializing", "ready", "erroneous"}]
  /\ runner \in [Classes -> Threads \cup {NoClass}]
  /\ fields \in [Classes -> Seq(Mem!BlockType)]
  /\ latest \in [Threads -> Classes \cup {NoClass}]

GlobalBlocks(c) == {fields[c][i] : i \in DOMAIN fields[c]}

Apart(b, d) == b.addr + b.size <= d.addr \/ d.addr + d.size <= b.addr

\* sections.cc:92-122 with VMemory.java:171-185: the global variables of the class
\* that a thread initialised last stay allocated, and apart from those of every
\* class another thread initialised last, whatever other threads load, initialise
\* or reset and whatever the Numba runtime allocates.
LatestGlobalsLive ==
  \A t \in Threads : latest[t] # NoClass =>
    /\ GlobalBlocks(latest[t]) \subseteq live
    /\ \A u \in Threads \ {t} : latest[u] # NoClass =>
         \A b \in GlobalBlocks(latest[t]), d \in GlobalBlocks(latest[u]) : Apart(b, d)

\* The initialisation of a class ends, so a thread that waits for it goes on.
InitializationEnds ==
  \A c \in Classes : status[c] = "initializing" ~> status[c] \in {"ready", "erroneous"}
=============================================================================
