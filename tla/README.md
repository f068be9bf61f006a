# Verification of lljvm-translator

lljvm-translator turns LLVM bitcode into JVM bytecode and runs it: a C++ back end
(`lib/lljvm-native`) prints Jasmin assembly, `JVMAssembler` assembles and verifies it,
`LLJVMClassLoader` defines the class, and a Java run time (`core/.../runtime`) gives the
generated functions memory, calls and external symbols. `python/` adds a Numba run time and
array holders. This directory holds TLA+ models of the parts of that system that keep state
between calls, TLC runs that check them, and TLAPS proofs about the memory everything else
rests on, about the parts that use it and about the code the translator emits.

## Inventory

| part | state | operations | hard behaviour |
|---|---|---|---|
| Virtual memory, `VMemory.java` | per thread: two fragments (base, current offset), a stack of saved addresses | create/destroy frame, allocateStack, allocateData, resetHeap; loads, stores, pack | lazy mapping by many threads, rounding at odd bases, int overflow, exceptions that skip destroy |
| Generated functions, `function.cc`, `block.cc`, `instruction.cc` | JVM frames and the virtual stack | enter, alloca, pack operands, call, return, throw | frames left by exceptions, results in freed frames |
| Function registry, `Function.java`, `Pair.java`, `ReflectionUtils.getClass` | concurrent map of Java methods, method cache and its monitor, current loader of each thread | put, remove, clear, invoke_* | nested calls under a reentrant monitor, two reads of the map, one name for all classes, class files of that name outside the loaders |
| Generated classes, `LLJVMClassLoader.java`, `sections.cc` | class state, static fields, heaps | define, `<clinit>`, Numba allocations | class initialisation in whichever thread comes first, failure half way, heap reset under other classes |
| Python arrays, `PyArrayHolder.java`, `ArrayUtils.java` | native structure and data, a dimension per Java object | create, with, reshape, close | the collector between address and copy, allocation failure, JVMs without array addresses, views with another dimension |
| Field values, `FieldValue.java` | concurrent map | put, remove, clear, get | two reads of the map; names checked long before they are read |
| Run time initialisation, `LLJVMRuntime`, `LLJVMLoader`, `NumbaRuntimeLoader` | flags, API objects, native libraries, static initialisers, temporary files | initialise, load | providers that throw, half-initialised loaders, monitors taken inside static initialisers, one of which catches everything |
| Numba run time, `NumbaRuntime.java` | `MemInfo` blocks in the heap | alloc, dtor, Python callbacks | sizes cast to int |
| Control flow of emitted code, `branch.cc`, `block.cc` | labels and local variables of a function | branches, switches, selects, phi copies | copies made on edges, in an order LLVM does not have; labels between them |
| Integer and floating-point instructions, `instruction.cc`, `Instruction.java`, `const.cc`, `loadstore.cc` | local variables | comparisons, arithmetic, conversions | LLVM's widths in Java's signed int and long |
| Loading a class, `LLJVMClassLoader`, `LLJVMUtils`, `lljvm.cc` | what the loader has defined | check of the run time, verify, translate, check of external references, assemble, define | every step can fail; references are checked one by one while others change them |
| Aggregates and constants, `types.cc`, `const.cc`, `sections.cc`, `instruction.cc`, `loadstore.cc` | blocks on the stack and in the heap of `VMemory` | static constants, getelementptr, loads, stores, vector and struct instructions, operand packs | each handler computes offsets for itself; a loaded aggregate is an address; sizes with and without padding |
| Passes of the driver, `backend.cc` | none of its own | LLVM's pass manager | order of passes |
| Assembler, verifier | none | assemble, check the whitelist | instructions the visitor does not look at |

Generated code calls `VMemory` for memory and `Function` for every call it makes; `Function`
invokes methods of generated classes, which are initialised by the JVM and then allocate their
globals in `VMemory`; Python arrays are passed to generated functions as addresses.

What makes each part correct: blocks never overlap and frames give back what they took
(memory); a return pops its own frame and locals outlive callees (functions); the monitor
follows the calls and names resolve afresh, in what the lookup finds (registry); globals stay what they
are while a class is in use (classes); native memory has one owner and shapes fit the items
(arrays); the emitted code computes what the bitcode means, block by block (control flow) and
instruction by instruction (integers); what is called initialised is complete, a loaded class
resolves, nobody waits for ever (run time and loading); registers and pointers of composite type
see the values LLVM computed (aggregates).

## Modules

| module | code | how they correspond |
|---|---|---|
| `FrameAllocator` | what `VMemory` promises | abstract specification: blocks, no addresses computed |
| `VMemory` | `VMemory.java:34-185` | `base`, `offset` are the two fields of `VMemFragment` of every thread's stack and heap, `frames` the `Stack<Long>`; one action per public operation, and one per way it fails |
| `VMemoryProofs` | | the inductive invariant, the safety theorems, the refinement |
| `SharedMemory` | | the `VMemory` of one program, as `Mem`, which `GeneratedCode` and `GeneratedClasses` extend |
| `GeneratedCode` | `function.cc`, `block.cc:79-95`, `Function._invoke` | composes `VMemory` with the activations of generated functions; `calls[t]` is the JVM stack of thread `t` |
| `GeneratedCodeProofs` | | frames and locals of generated functions for any threads, depths and exceptions; that they use `VMemory` as specified; in its second part, the globals of any classes and threads |
| `FunctionRegistry` | `Function.java`, `Pair.java`, `ReflectionUtils.getClass`, `currentClassLoader` | `registered` are the keys of `externalFuncPointers`, `monitor` that of `methodCache`; each read of the map and each wait for the monitor is a step of its own; `ClassFound` is the lookup of `getClass`, outside the loaders first (`classFile`), then in the current loader |
| `FunctionRegistryProofs` | | the monitor, resolution and withdrawal for any threads, loaders and depth of calls |
| `GeneratedClasses` | `sections.cc:42-122`, `LLJVMClassLoader`, `NumbaRuntime:115-142` | composes `VMemory` with the JVM's class initialisation; `fields[c]` are the static fields |
| `PyArrayHolder` | `PyArrayHolder.java` | `header[b]` is the native structure, `handle[h]` the fields of a Java object; `with` takes the address, which the JVM may not support (`supported`), `setArrayData` does the rest |
| `PyArrayHolderProofs` | | ownership, contents and layout of native memory for any holders, blocks and arrays |
| `LlvmControl` | the LLVM language reference, as the translator relies on it | abstract specification: control flow of a function, one basic block a step, all phi instructions of a block at once |
| `ControlFlow` | `branch.cc`, `block.cc:27-64`, `loadstore.cc:27-97`, `getLabelName` | `printFunctionBody(p)` is the code the printers write for a function `p`, operator by operator; the actions are the JVM instructions in it, run on an operand stack and local variables |
| `ControlFlowProofs` | | the emitted code is right for any well-formed functions, of any size |
| `Arithmetic` | `instruction.cc:75-421` for scalars, `Instruction.java:53-442`, `const.cc:41-64`, `loadstore.cc:67-97` | `Emitted(i)` is load, instruction or helper call, store; `Meaning(i)` is LLVM's definition |
| `ArithmeticProofs` | | every instruction computes what LLVM defines, for every width and precision |
| `RuntimeLoading` | `LLJVMRuntime`, `LLJVMLoader`, `NumbaRuntimeLoader`, `NumbaRuntime:46-98`, `ArrayUtils:30-71`, `FieldValue`, `LLJVMClassLoader:82-104`, `LLJVMUtils`, `JVMAssembler`, `BytecodeVerifier.verify`, `lljvm.cc:41-303` | `stack[t]` are the methods thread `t` is in; an activity stands for the monitor it holds or the static initialiser it runs, and its `pc` for the statement that is next, one for every access to shared state; `library`, `static`, `external`, `isInitialized` are the flags, the API fields, what the JVM knows of four classes, and the registries |
| `RuntimeLoadingProofs` | | libraries, providers, references and reads for any threads, providers, names and classes |
| `Aggregates` | `types.cc`, `const.cc:66-240`, `sections.cc`, the vector and aggregate handlers of `instruction.cc`, `loadstore.cc`, loads, stores and `pack` of `VMemory.java` | runs the instructions of a function in any well-typed order; `value` of a register and `objects` are what LLVM computes, `local` and `memory` what the emitted code does |
| `AggregatesProofs` | | values, objects and writes of any number of instructions, for any types, globals and masks |
| `MC...` | | constants of the runs |

History variables exist for the properties only and no guard reads them: `live` in `VMemory`
(the blocks handed out and not freed), `thrown` and the `entry` and `own` of an
activation in `GeneratedCode`, `withdrawn` in `FunctionRegistry`, `latest` in
`GeneratedClasses`, `failures` (which only its bound reads), `leaked`, `stored` and `layoutBy` in `PyArrayHolder`, `entered` in
`ControlFlow` (the block passed last, which the refinement maps to `block`), `withdrawn`,
`touched` and `lastRead` in `RuntimeLoading`, `blocks` in `Aggregates`. Definitions marked
*Mutant* are wrong variants of the definition that follows them; nothing uses them, and
putting one in the place of its original breaks the property `PROJECT.json` names.

Abstractions: a block is an interval of addresses, its contents are not kept; functions,
classes and arrays are model values; debug logging and message texts are left out. In
`ControlFlow` values are single bits, a body holds `not` and `select`, and an instruction is a
record instead of a line of text. In `Arithmetic` the widths 1, 8, 16, 32, 64 are a parameter
that keeps their order, as are the precisions 24 and 53 of float and double, and a word is a
number; floating-point numbers are NaN and integers of so many significant bits, without
fractions, infinities and signed zeros. In `Aggregates` a number is a token and a byte is the
token it belongs to, the width and its position, so a read at the wrong place or of the wrong
width yields `Junk`. In `RuntimeLoading` which bytes a library has and what a translation prints
are left out, failures are choices. Sixteen bits stand for Java's int and eight for its long,
where an overflow matters, so that the boundary is reached by the values of a run.

What is external and modelled from its use: the native allocator (returns memory nobody
uses), Java's monitors and class initialisation (one thread initialises, the others wait,
failure is permanent), the collector (may move an array whenever native code has only its
address).

## Runs

| run | question | bounds, and why they are enough |
|---|---|---|
| `vmemory_frames` | are blocks aligned, inside, disjoint; is space given back; does every step implement `FrameAllocator`? | one thread, 2 frames, fragments of 32 bytes at an odd and an aligned base, sizes 0, 8, 13: every offset modulo 8 and a full fragment occur; more threads are in the runs that compose `VMemory`, and in the proofs |
| `vmemory_overflow` | *violated*: does the assertion of `setCurrentAddr` hold for any int? | a request 3 below the largest int |
| `generated_calls` | do calls, returns and exceptions keep frames and locals right, and locals apart? | 2 threads, 3 nested calls in each, 4 frames, so that calls above leaked frames occur |
| `registry_calls` | monitor and its release, resolution, the two reads | 2 threads, 2 loaders of which one lacks a function, a class file that appears and vanishes, a cache of one entry, 2 nested calls |
| `pyarray` | leaks, double frees, lost data; shape and strides | 2 holders (two owners, or an owner and a view), 4 blocks that are reused, 2 arrays, both dimensions, one move of the collector, allocations that fail, one of them after a free, JVMs with and without array addresses |
| `pyarray_moved` | *violated*: does `with` copy its array? | one move |
| `classes_globals` | do globals stay intact, does an initialisation end? | 3 classes, 2 threads, 2 heaps; `c3` fits only the heap at the aligned address |
| `control_flow` | does the emitted code do what the bitcode means, with an empty stack between blocks, an operand for every instruction and a label for every jump? | every function of an entry, a loop block and an exit from small sets of terminators, phi operands (constants, values, `undef`, which occurs nowhere else) and bodies: both landing labels, loops back to the same phi instructions, equal successors and switches occur |
| `arithmetic` | does each scalar instruction compute what LLVM defines, and keep locals in range? | widths 1, 3, 4, 5, 7, precisions 4 and 5, all operands: long division reaches every quotient, parity bit and divisor above half the dividend; a long loses up to two bits to a double, so ties both ways occur |
| `aggregates` | do registers and pointers of composite type see what LLVM computed, and does nothing write elsewhere? | 3 instructions after `<clinit>`, enough for make, change, look at; a vector of 2 x 4 bytes, a struct of fields of 1, 4 and 2 x 2 bytes, whose offsets differ under every alignment, a pointer to it; zero, mixed and string globals; a mask with an undefined element and one that repeats; casts to narrower, equal and wider elements |
| `aggregates_constants` | *violated*: is every static constant stored? | the same, with constants of plain numbers |
| `runtime_loading` | is what is called initialised complete, does what is loaded resolve, does every call end? | 2 threads that make 4 calls together, so that a call meets one in progress and one that failed, and two load one class at once; 2 providers of an entry each, which may throw before or after it, a class from bitcode and one from bytecode, 2 names, one with a dot whose sanitized form is the other; 1 change by others at any time, of values of either type |

Where the code is known to differ from LLVM, the property says so by name and leaves the case
out, or the run does; put back, each of them violates the property:

- `ComputesLlvm` leaves out the instructions `Diverges` names: `lshr` of i8 and i16, which
  shifts in sign bits; signed comparison, sign extension and `sitofp` of i1, which read the local
  1 as positive; comparison of an i1 with the constant true, which `const.cc` loads as -1;
  `uitofp` from i64 to float, which rounds twice; `fptoui` to i64 of 2^63 and more, from which
  `fptoui_i64` subtracts one too many.
- `control_flow` leaves out functions with a phi instruction that reads an earlier one of its
  block (`NoPhiReadsEarlierPhi`): the copies are made one after the other, and the second sees
  the new value. It leaves out switches into blocks with phi instructions (`NoSwitchIntoPhis`),
  which the comment of `printSwitchInstruction` leaves to another pass. And it leaves out functions
  with `undef` as operand of something else than a phi instruction (`UndefOnlyInPhis`): `const.cc`
  pushes a long of two words for it, which violates `InstructionsCanRun`.
- `aggregates` admits no member of `Divergences`. `storeAfterLoad` (a loaded aggregate is an
  address, and changes with a later store), `zeroMask` (a shuffle whose mask is zero yields zero
  instead of copies of the first element) and `resizingCast` (a vector cast steps through its
  source in the wrong width) violate `RegistersHoldLlvmValues`; `aggregateStore` (a store of an
  aggregate stores its address), `padding` (initialisers are packed with alignment, fields are
  looked for without) and `dataArray` (the subject of `aggregates_constants`) violate
  `PointersReachTheirObjects`; `mixedOperands` (operands packed with alignment into a block
  sized without) violates `WritesStayInBlocks`.
- `LatestGlobalsLive` speaks of the class a thread initialised *last*: `<clinit>` resets the
  heap of its thread, and globals of classes initialised there before share bytes with it.
- `LayoutMatchesItems` holds for dimensions whose product does not wrap; `reshape(x, y)`
  compares the wrapped product with the number of items.
- `ReadsFailOnlyAfterChanges` speaks of names that generated code reads as the driver checked
  them: the driver does not sanitize; in the run the dotted name is checked, and another name read.
- `MemoryIsOwned` and `DataStaysIntact` hold until an allocation fails after `with` has freed the old
  data, to which the structure then still points. The leak of a `create(ar)` that throws, because an
  allocation or `addressOf` does, is part of what `MemoryIsOwned` states (`leaked`).

Bounds on counters are guards, named in the modules: `MaxFrames`, `MaxCalls`, `MaxMoves`,
`MaxFailures`, `MaxChanges`, `MaxInstructions`.
Deadlock is not checked where the model really stops: `generated_calls` when exceptions have
used up `MaxFrames`, the `pyarray*` runs when failed creations have leaked all native blocks,
`arithmetic` after the one instruction and the `aggregates*` runs after `MaxInstructions`,
`runtime_loading` when every thread has made its calls (that no call hangs before is `CallsEnd`).
Everywhere else it is. In `control_flow` a missing operand or label would stop the model;
`InstructionsCanRun` says so as an invariant, so that it can be proved as well.

The violated runs are the findings in `PROJECT.json`: each quotes the comment, assertion or
message the code contradicts.

Fairness: `FunctionRegistry!FairSpec` asks that a thread which can take a step of its call
eventually does, `GeneratedClasses!ClassesFairSpec` the same of the thread in `<clinit>`; the JVM
schedules every runnable thread. `RuntimeLoading!FairSpec` asks it of the step of every thread
that is in a call; a thread that waits for a monitor has no step. Because threads make finitely
many calls, a monitor is free from some time on, so `CallsEnd` needs no fair monitors; what it
excludes is two threads that wait for each other. The functions of the registry model end by
themselves (`budget`). Java's monitors are not fair, so that every *waiting* thread gets in is not
claimed, only that the holder leaves.

## Proofs

In all theorems the constants are arbitrary, within the named assumptions of the component's
module.

### Virtual memory

`VMemoryProofs` proves, for all threads, addresses, bases, capacities, requests and frame
bounds that satisfy `ConstantsAssumption`, and under `RequestsFitInt` (no request wraps the
capacity check; `vmemory_overflow` shows the assumption is needed):

- `BlocksStayInFragment`, `BlocksStayDisjoint`, `SpaceIsNeverLost`,
  `CurrentAddrStaysInFragment`: the four safety properties of the runs;
- `TypeCorrect` (`TypeOK`): in particular every offset, saved address and block is an int;
- `VMemoryImplementsFrameAllocator`: the refinement.

None of the four is inductive. That a new block is apart from the old ones needs that old
blocks lie in the *used* part of their fragment, that fragments are apart, and, since
destroying a frame makes part of the fragment unused again, that blocks of outer frames lie
below every address saved later. `IInv` is the conjunction of these facts; it has one named
part for each of them. One lemma per operation proves that the operation keeps `IInv`
(`CreateStep`, `DestroyStep`, `AllocateStep`, `ResetStep`, `MapOnlyStep`); `AlignUp` and
`FitsAfterRounding` are the arithmetic: rounding up moves the start by at most seven bytes, and
the slack of eight covers it. The refinement follows from `IInv`: a bump allocation is an
abstract allocation because the new block is apart from all live ones.

### Generated functions

`GeneratedCodeProofs` composes with these theorems instead of repeating them:
`GeneratedCodeUsesVMemory` shows `Spec => Mem!Spec`, every step of generated code is one of
`VMemory` or leaves it alone, and an instance of `VMemoryProofs` gives the memory's invariant.
Then, for any threads and any depth:

- `ReturnsPopTheirOwnFrame` (`FramesMatchCalls`): the last `Len(calls[t])` saved addresses are
  the entries of the activations, in order, however many frames exceptions left *below*;
- `LocalsOutliveCallees` (`LocalsStayLive`) and `CallsLeakNothing` (`IdleStackIsEmpty`);
- `LocalsStayApart` (`LocalsApart`) and `TypeCorrect`, which need the memory's addresses to be
  right and so assume `RequestsFitInt`.

The inductive invariant adds that the blocks of an activation were allocated with its own frame
on top (`BlocksKnowTheirFrame`; without it a return could free the caller's blocks), that a stack
with frames is mapped (`FramesAreMapped`), and that without exceptions there are no other frames
and no bytes in use than those of the activations (`NothingLeftBehind`).

### Function registry

`FunctionRegistryProofs`: `MonitorFollowsCalls`, `NullNeedsWithdrawal`,
`CallsResolveAfresh` and `TypeCorrect`, whatever class files others write and remove. The monitor's owner is the one thread with
internal calls past the lookup, and its count their number; what makes that inductive is that
only the innermost invocation of a thread can be waiting (`OnlyTheTopWaits`), since those below
are in their callee. Counting under `Append` and `Front` is done with cardinalities
(`InMonitor`), not by induction on the stack.

### Generated classes

The second part of `GeneratedCodeProofs` extends `GeneratedClasses` over the same
`SharedMemory`: `GlobalsStayLive` (`LatestGlobalsLive`) and `ClassesTypeCorrect`
(`ClassesTypeOK`), under `RequestsFitInt`, again through the theorems about the memory.
Globals lie in the heap of the thread that ran `<clinit>` (`GlobalsLieWithTheRunner`), so the
reset of another thread cannot touch them, and a thread that resets its own heap becomes the
runner of a new latest class (`LatestIsRun`).

### Python arrays

`PyArrayHolderProofs`: `MemoryHasOneOwner`, `DataSurvives` and `TypeCorrect`, for any holders,
native blocks, arrays and moves of the collector. The first two are kept together: an owner frees
only its blocks, which are disjoint from the others', so the others' data stays; and only an owner
is in the middle of `with` (`OwnersHaveBlocks`). Structures that a failed `create(ar)` leaked are in
`leaked` and nobody's. Both are stated while no allocation has failed after a free. `TypeCorrect` contains that Java's wrapping
multiplication (`TimesIsWord`) keeps strides in a long.

`LayoutsMatch` (`LayoutMatchesItems`) assumes `ProductsFit`: callers pass dimensions whose product
with each other and with the size of an item is a long. The assumption is needed, `reshape`
compares the *wrapped* product with the number of items. The invariant behind it is
about the words of a structure, not about what the methods return: they hold the shape and strides
that the holder which last set them reads with its own number of dimensions (`ShapedFor`), and an
operation on one holder leaves the words alone that another reads (`OthersStayShaped`).

### Runtime initialisation and native libraries

`RuntimeLoadingProofs`: `TypeCorrect`, `LoadedOnce`, `ApiOfReadyClasses`,
`CompleteWhenInitialized`, `ReferencesResolve` and `FailedReadsAreExplained`, the type invariant
and the five safety properties of `runtime_loading`, for any threads, providers, entries, names and classes. The proof never
speaks of a thread's stack as a sequence after its first part: a stack is at most a loader above
a static initialiser above a call (`WellFormed`), so three functions of the thread, `Loader`,
`Clinit` and `Call`, say all of it, and `ContinueStep`, `EnterStep`, `ReturnStep`, `EmptyStep` and
`BeginStep` say what the operations on stacks do to them. `Loading` is the part of the invariant
about libraries: one thread is in a loader and one in a static initialiser (`Alone`), and an API
object that is half set up belongs to a thread still setting it up or to a class that is erroneous
(`HalfSetUp`), which is why nobody with a class in the middle of initialisation can be handed it. The static
initialiser of `ArrayUtils` catches what its loader throws (`CatchStep`) and its class then ends
`unsupported`, which is no claim to an API.
`Calling` is the part about calls: what each has registered, found or may rely on where it stands
(`InitializeFits`, `LoadClassFits`, `ReadFits`). The two meet nowhere but in exceptions.

`TypeCorrect` needs besides that a class in initialisation has a thread that runs its static
initialiser, and which exceptions a read can meet.

### Control flow

`ControlFlowProofs` proves the property of a compiler that matters most, for functions of any
number of blocks, phi instructions and instructions, in any graph:

- `ImplementsLlvm` (`Refinement`): what the emitted code does is what `LlvmControl` allows, for
  functions with the three properties the code is known to need, `UndefOnlyInPhis`,
  `NoPhiReadsEarlierPhi` and `NoSwitchIntoPhis` (see Runs);
- `CodeCanRun` (`InstructionsCanRun`): no instruction lacks an operand or finds a long in its
  place, no jump a label;
- `BlocksStartEmpty` (`BlocksStartWithEmptyStack`) and `TypeCorrect`. These three assume
  `UndefOnlyInPhis` only: an `undef` elsewhere is pushed as a long, which no instruction takes.

The functions satisfy `WellFormed`, named in `ControlFlow`: successors are blocks, a phi has an
operand for each predecessor, a value has one definition. LLVM's verifier enforces it when bitcode
is read, and `getUID` numbers values and blocks apart.

The proof is a logic of assertions for emitted code, after Hoare. `Triple(p, c, P, Q)` says of a
piece `c` of code that the points between its instructions can be annotated with sets of states, `P`
before the first and `Q` after the last, so that every instruction has its operand and leads from
the set before it to the one after it, or to a label of the function and a state that belongs there.
What belongs at a label is fixed (`LabelStates`): at the label of a block the stack is empty, and
LLVM may move there with these values of phi instructions; at the landing label of a
conditional branch the copies of the true edge are still to be made; at the two labels of a `select`
the condition does not hold, and the result is on the stack. Each printer has its triple (`TripleOfSelect`, `TripleOfPhiCopy`, `TripleOfCondBranch`,
`TripleOfSwitch`, ...), `TripleOfConcat` and `TripleOfFlatten` compose them as the printers
concatenate code, and `TripleOfCode` is the triple of the function. The inductive invariant
(`IInv`) says that the current state is in the annotation of `pc`; a step of the machine keeps it
because the instruction is right for its two annotations (`StepKeeps`, `GoesOn`, `GoesTo`).
Copies of phi instructions are where the order matters: `AfterCopies` says what the first `k`
copies have done, and `CopyAdvances` takes it from `k - 1` to `k` because the operand still to be
read is no destination written before (`OperandSurvives`), which is `NoPhiReadsEarlierPhi`. An operand
that is `undef` is not copied, and LLVM lets the phi instruction have any value.

The code is built by folds, whose unfolding needs induction. It is induction over *sets* of
numbers (`LeastElement`, `SetInduction`, from the well-foundedness of `<`), so no theorem takes an
operator as a parameter: `FlattenUnfolds` and `AfterUnfolds` say what the two folds compute for
one more element.

### Scalar instructions

`ArithmeticProofs` proves, for all widths and precisions that satisfy `WidthAssumption` (1 < i8 <
i16 < i32 < i64) and `PrecisionAssumption` (float has at least the bits of an i16 and fewer than
an i32, double at least those of an i32 and fewer than an i64), and for a `NaN` that is no number:

- `TypeCorrect` (`TypeOK`): whatever instruction has run, its local variable holds a value of its
  type, also where the instruction is one that `Diverges` names;
- `ComputesWhatLlvmDefines` (`ComputesLlvm`): every other instruction computes, on all operands
  for which LLVM defines the result, what LLVM defines;
- for every range `h` of Java's int or long, `UnsignedComparisons` (`icmp_ult` to `icmp_uge`
  compare the patterns), `UDivLongIsUnsigned` and `URemLongIsUnsigned` (quotient and remainder of
  the patterns for every divisor other than 0).

The inductive invariant says no more than that the result is what `Emitted` yields for an
instruction of `Init`; the work is one lemma per instruction (`AddSubMulCorrect` to
`FloatToIntegerCorrect`). They rest on one notion: `Yields(ty, v, n)`, the JVM's number `v` is in
the range of the JVM type and differs from `n` by a multiple of `2^Width[ty]`. `StoresPattern`
shows that the truncating store then leaves the local variable of the pattern of `n`, whichever
number `v` is, and `Loads` that a loaded operand stands for its pattern, so that addition,
subtraction, multiplication and left shift need only that they respect congruence. Division and
right shift do not, and are shown case by case.

In `udiv` and `urem` of longs the interesting case is a dividend with its top bit set and a
divisor without: the code halves the dividend, divides, doubles and corrects. `HalvedDivision`
shows that the doubled remainder `2r + parity` is less than twice the divisor, so that one
correction is enough and that no intermediate value wraps; `DivUnique` (quotient and remainder are
determined by their equation) turns the equation it keeps into the result.

The laws of powers of two are not known to the provers. `CountSubsets` replaces `2^n` by the number
of subsets of `1 .. n`, for which the library has theorems; with `SetInduction` (on a set of
numbers, from the well-foundedness of `<`) this gives `PowerSuccessor`, `PowerSum` and
`PowersGrow`. Rounding is treated by what it preserves: `RoundHasBits` and `RoundKeeps` (a rounded
number has no more significant bits than fit, and such a number is left alone), `RoundBounded` (no
power of two is passed) and `RoundLargest` (`Long.MAX_VALUE` is not rounded down, so that
`fptoui_i64` takes every smaller number as it is). `LongToDouble` shows that the mantissa and the
discarded bits `uitofp_f64` computes by hand are those of rounding to nearest, ties to even.

### Aggregates

`AggregatesProofs` proves the four properties of the run `aggregates` for any vectors, arrays and
structs, allocated types, modules of global variables, masks and widths, and any number of
instructions:

- `RegistersKeepTheirValues` (`RegistersHoldLlvmValues`): whatever is allocated, filled or stored
  later, a register read at the offsets of its type has the value LLVM computed;
- `PointersFindTheirObjects` (`PointersReachTheirObjects`): through every pointer, by whatever path
  of getelementptr, memory has what was stored last or what the initialiser says;
- `WritesStay` (`WritesStayInBlocks`) and `TypeCorrect` (`TypeOK`).

They assume `Divergences = {}`, as the run does: no instruction differs from LLVM in one of the ways
listed under Runs. What a type, a constant and a module may be is `AggregatesAssumption`: LLVM's
types give each number of an array one width and every field at least one number; arguments, the
object an argument points to, the heap and the stack are places of their own, in this order, which
the code never relies on; globals fit into the heap, or `allocateData` would have thrown.

The properties are not inductive. The model runs two machines side by side that speak of different
things: LLVM of numbers, the emitted code of bytes, which it copies, zeroes and fills without
knowing where a number begins. The invariant relates them byte by byte: `Holds(m, a, w, x)` says
that the bytes of the number `x` are at `a`, `Held` the same of every number of a value at the
offsets of its type, and `Undef` holds anywhere. `IInv` says that the *regions* (what the caller
passed, and the blocks allocated) are apart and below the top of the stack (`AreRegions`,
`IsMemory`), that every object of LLVM is a region with its contents held in it and no two objects
share one (`AreObjects`), and that a register is a number, a value held inside one region, or a
pointer to a run of numbers inside one object, at the offset its layout gives it
(`AreRegisters`, `IsPointer`). `AreRecords` adds that registers and objects have no fields besides.

An instruction is shown to keep `IInv` in three moves. What it *writes* is a lemma about memory
alone (`WriteEffect`, `ZeroEffect`, `CopyEffect`, `FillEffect`, `PackEffect`, `StructEffect`): the
bytes it changes, and what is held there afterwards. What it *leaves alone* follows from regions
being apart: `BlockStep` says that a write into a fresh block keeps every register and object,
`ReadingStep` and `AllocatingStep` that instructions without writes do, `StoredEffect` what a store
to part of an object does to that object and to no other. What its *result* means is a lemma about
layouts: `PartLayout` (a run of equal widths inside a type is laid out there as by itself, which is
why getelementptr, insertvalue and extractvalue may each compute offsets on their own), `PartHeld`,
`PartReplaced`. The two hardest instructions are the shuffle, which copies both operands into one
block, moves the local variable of the first operand there (`RegisterMoved`) and picks from it
(`InputsCopied`, `MaskPicks`), and the operand pack, where what `pack` writes must be where `unpack`
looks although both align as they go (`PackAddress`, `UnpackedIsOperand`). `ClInitKeeps` follows the
static initialiser: globals lie apart because sizes are rounded up to eight (`GlobalPlaces`), and
packing with alignment meets the offsets computed without it when no field needs padding
(`FieldPacked`, with `NeedsNoPadding` as its reason).

Sums of widths, filled vectors, packed structs and initialised globals are recursive functions.
They are unfolded by induction over sets of numbers, as in `ControlFlowProofs`: `SumsUnfold`,
`FillUnfold`, `StructUnfold` and `GlobalsUnfold` give the equations, the rest follows from those.

### Model-checked only

The liveness properties (`MonitorIsReleased`, `InitializationEnds`, `CallsEnd`): the prover has no
rules for fairness. Every invariant and every action property of the passing runs is a theorem.

## Plan

Done: all modules above, with proofs about `VMemory`, `GeneratedCode`, `FunctionRegistry`,
`GeneratedClasses`, `PyArrayHolder`, `RuntimeLoading`, `ControlFlow`, `Arithmetic` and
`Aggregates`.

Next modules, in this order:

1. `OperandStack`: the stack effect of what the writer emits for each instruction against
   the `.limit` it prints.
2. `Verifier`: which bytecode `BytecodeVerifier` accepts against the whitelist.
3. Aggregates that functions return, in `Aggregates` composed with `GeneratedCode`.

Next theorems: that what `Aggregates` allocates is a behaviour of `VMemory`, so that the capacity of
the stack enters its invariant.

## Not modelled

Assembling (vendored Jasmin), LLVM itself and its passes, the JNI calls into CPython
(`lib/numba-rt-native/runtime.c`), the opcode tables of the verifier, the wrappers of external
programs (`clang/`, `python/lljvm`), the benchmark, and `Platform.java`, whose operations are
modelled where they are used. Calls of a holder's `close()` after the first, `with()` on a view (excluded by an
assertion) and `setjmp` (its Java class does not exist) are outside the models.

Of generated functions: `invoke` and its catch labels, varargs, aggregates that a function
returns (`block.cc:80` admits that the result points into the frame just destroyed). Of
aggregates: a first getelementptr index other than 0, constant vector operands other than zero,
allocas of several elements, and `extractelement` of an undefined element.

`PROJECT.json` maps the code that is the project's own. Most lines of C++, C and Java in the
repository are not: googletest and googlemock, Jasmin and the JNI headers are vendored, and are
left aside.
