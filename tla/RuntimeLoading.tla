---------------------------- MODULE RuntimeLoading ----------------------------
(***************************************************************************)
(* How the runtime comes up, and how classes are loaded on top of it.      *)
(*                                                                         *)
(* LLJVMRuntime.initialize runs every provider once, under its monitor;    *)
(* the Numba provider needs its class initialised, which loads a native    *)
(* library.  LLJVMClassLoader refuses to work before that, translates with *)
(* a native library of its own, whose driver checks one by one that the    *)
(* external functions and fields of the module are registered, and uses    *)
(* the class name that the static initialiser of JVMAssembler computes.    *)
(* Generated code then reads the external fields while other threads       *)
(* register and withdraw them.                                             *)
(*                                                                         *)
(* A thread is a stack of activities, the one that runs first.  It holds   *)
(* the monitors and initialises the classes its activities stand for.  An  *)
(* exception gives all of them back, unless the static initialiser of      *)
(* ArrayUtils catches it: the class is ready then, but supports no         *)
(* addresses of arrays, which is the static value "unsupported" here.      *)
(*                                                                         *)
(* Every generated class has a loader of its own and stands for it.        *)
(***************************************************************************)
EXTENDS Integers, Sequences

CONSTANTS
  Threads,
  Providers,     \* the providers of RuntimeInterface; NumbaRuntime is one
  NumbaRuntime,
  Entries,       \* Entries[p]: what p registers, name by name
  Names,         \* names of external functions and fields
  Types,         \* the Java types of their values
  Absent,        \* no value
  Classes,       \* generated classes
  FromBitcode,   \* those loaded from bitcode, the others from bytecode
  References,    \* References[c]: the names of the external references of c
  Sanitized,     \* Sanitized[n]: n as it appears in generated code
  Pointer,       \* the type generated code reads external fields with
  MaxCalls,      \* bound: calls of all threads
  MaxChanges     \* bound: names others register or withdraw

ASSUME RuntimeAssumption ==
  /\ NumbaRuntime \in Providers
  /\ Absent \notin Types /\ Pointer \in Types
  /\ FromBitcode \subseteq Classes
  /\ DOMAIN Entries = Providers /\ References \in [Classes -> SUBSET Names]
  /\ Sanitized \in [Names -> Names]
  /\ \A p \in Providers : Entries[p] \in [DOMAIN Entries[p] -> Types]
  /\ \A p \in Providers : DOMAIN Entries[p] \subseteq Names
  /\ MaxCalls \in Nat /\ MaxChanges \in Nat

\* The classes whose static initialisers load a library, and which library.
StaticClasses == {"VMemory", "JVMAssembler", "NumbaRuntime", "ArrayUtils"}
Libraries     == {"lljvm", "numba"}
LibraryOf(s)  == IF s = "NumbaRuntime" THEN "numba" ELSE "lljvm"

VARIABLES
  isInitialized,  \* LLJVMRuntime.isInitialized
  external,       \* external[n]: the type of the value registered as n
  library,        \* library[l]: isLoaded, the API object, calls of System.load
  static,         \* static[s]: what the JVM knows of the class s
  class,          \* class[c]: whether the loader of c has defined it
  stack,          \* stack[t]: the activities of t
  calls,          \* how many calls the threads have made
  changes,        \* how many names others have changed
  withdrawn,      \* history: names withdrawn and not registered since
  touched,        \* history, touched[c]: names withdrawn or registered by others
                  \* since the load of c began, the first one of those that overlap
  lastRead        \* history, lastRead[t]: how the last read of t ended

vars == <<isInitialized, external, library, static, class, stack, calls,
          changes, withdrawn, touched, lastRead>>

Activity(op, arg, pc, todo, names) ==
  [op |-> op, arg |-> arg, pc |-> pc, todo |-> todo, names |-> names, thrown |-> FALSE]

NoRead == [class |-> Absent, names |-> {}, result |-> "none"]

Init == /\ isInitialized = FALSE
        /\ external  = [n \in Names |-> Absent]
        /\ library   = [l \in Libraries |-> [isLoaded |-> FALSE, api |-> "null", loads |-> 0]]
        /\ static    = [s \in StaticClasses |-> "uninitialized"]
        /\ class     = [c \in Classes |-> "none"]
        /\ stack     = [t \in Threads |-> <<>>]
        /\ calls     = 0
        /\ changes   = 0
        /\ withdrawn = {}
        /\ touched   = [c \in FromBitcode |-> {}]
        /\ lastRead  = [t \in Threads |-> NoRead]

-----------------------------------------------------------------------------
(* Activities. *)

Now(t)        == Head(stack[t])
At(t, op, pc) == stack[t] # <<>> /\ Now(t).op = op /\ Now(t).pc = pc

Does(t, op, arg) == \E i \in DOMAIN stack[t] : stack[t][i].op = op /\ stack[t][i].arg = arg

Continue(t, activity) == stack' = [stack EXCEPT ![t] = <<activity>> \o Tail(@)]
Goto(t, pc)           == Continue(t, [Now(t) EXCEPT !.pc = pc])

\* The running activity calls another one and goes on at pc when it returns.
Enter(t, activity, pc) ==
  stack' = [stack EXCEPT ![t] = <<activity, [Now(t) EXCEPT !.pc = pc]>> \o Tail(@)]

\* A call of t ends.
Result(t, result) ==
  LET call == stack[t][Len(stack[t])]
  IN lastRead' = IF call.op = "read" /\ call.names # {}
                 THEN [lastRead EXCEPT ![t] = [class |-> call.arg, names |-> call.names,
                                               result |-> result]]
                 ELSE lastRead

Return(t) ==
  /\ stack' = [stack EXCEPT ![t] = Tail(@)]
  /\ IF Len(stack[t]) = 1 THEN Result(t, "ok") ELSE UNCHANGED lastRead

\* An exception leaves every activity; each class in the middle of its static
\* initialiser is as given from then on.
Unwind(t, exception, failed) ==
  /\ stack'  = [stack EXCEPT ![t] = <<>>]
  /\ static' = [s \in StaticClasses |-> IF Does(t, "clinit", s) THEN failed ELSE static[s]]
  /\ Result(t, exception)

\* Mutant: what a static initialiser does is tried again at the next use.
ThrowAndRetry(t, exception) == Unwind(t, exception, "uninitialized")

\* Mutant: a class whose static initialiser failed is forgotten.
ThrowAndForget(t, exception) == Unwind(t, exception, "initializing")

\* A class whose static initialiser failed is erroneous for ever.
Throw(t, exception) == Unwind(t, exception, "erroneous")

\* ArrayUtils loads the library only on a JVM of a vendor it knows.
Starts(s) == IF s = "ArrayUtils" THEN {"load", "unsupported"} ELSE {"load"}

\* The first use of a class: its static initialiser runs once, other threads wait.
Use(t, s, pc) ==
  \/ /\ static[s] \in {"ready", "unsupported"} \/ Does(t, "clinit", s)
     /\ Goto(t, pc)
     /\ UNCHANGED <<static, lastRead>>
  \/ /\ static[s] = "uninitialized"
     /\ static' = [static EXCEPT ![s] = "initializing"]
     /\ \E start \in Starts(s) : Enter(t, Activity("clinit", s, start, {}, {}), pc)
     /\ UNCHANGED lastRead
  \/ /\ static[s] = "erroneous"
     /\ Throw(t, "NoClassDefFoundError")

\* A user of the library makes a call.
Begin(t, activity) ==
  /\ stack[t] = <<>>
  /\ calls < MaxCalls /\ calls' = calls + 1
  /\ stack' = [stack EXCEPT ![t] = <<activity>>]

data   == <<isInitialized, external, library, class, changes, withdrawn, touched>>
onlyPc == <<data, static, calls, lastRead>>   \* all but stack

-----------------------------------------------------------------------------
(* Native libraries: loadLLJVMApi and loadNumbaRuntimeApi. *)

\* Mutant: the loader is not synchronized.
EnterUnsynchronized(t, l, pc) ==
  Enter(t, Activity("load", l, "api", {}, {}), pc) /\ UNCHANGED onlyPc

\* The synchronized method is entered.
EnterLoader(t, l, pc) ==
  /\ \A u \in Threads \ {t} : ~Does(u, "load", l)
  /\ Enter(t, Activity("load", l, "api", {}, {}), pc)
  /\ UNCHANGED onlyPc

\* An API object that is already there is returned.
FindApi(t) ==
  /\ At(t, "load", "api")
  /\ IF library[Now(t).arg].api # "null"
     THEN Return(t)
     ELSE Goto(t, "isLoaded") /\ UNCHANGED lastRead
  /\ UNCHANGED <<data, static, calls>>

\* Mutant: the loader keeps something in the virtual memory.
CheckLoadedInMemory(t) ==
  /\ At(t, "load", "isLoaded")
  /\ IF Now(t).arg = "lljvm" /\ ~library["lljvm"].isLoaded
     THEN Use(t, "VMemory", "extract")
     ELSE Goto(t, "create") /\ UNCHANGED <<static, lastRead>>
  /\ UNCHANGED <<data, calls>>

\* loadNativeLibrary: the check.
CheckLoaded(t) ==
  /\ At(t, "load", "isLoaded")
  /\ Goto(t, IF library[Now(t).arg].isLoaded THEN "create" ELSE "extract")
  /\ UNCHANGED onlyPc

\* The static initialiser of ArrayUtils catches what the loader throws, nothing else
\* throws while it runs, and goes on without support for addresses.
InArrayUtils(t) == Len(stack[t]) > 1 /\ stack[t][2].op = "clinit" /\ stack[t][2].arg = "ArrayUtils"

Catch(t) ==
  /\ stack' = [stack EXCEPT ![t] = <<[stack[t][2] EXCEPT !.pc = "unsupported"]>> \o Tail(Tail(@))]
  /\ UNCHANGED <<static, lastRead>>

\* findNativeLibrary extracts to a file of a fresh name and System.load loads it;
\* an IOException becomes a null that is dereferenced, a copy that differs or that
\* the linker refuses is an exception too.
LoadNativeLibrary(t) ==
  /\ At(t, "load", "extract")
  /\ \/ /\ library' = [library EXCEPT ![Now(t).arg].isLoaded = TRUE,
                                      ![Now(t).arg].loads = @ + 1]
        /\ Goto(t, "create")
        /\ UNCHANGED <<static, lastRead>>
     \/ /\ IF InArrayUtils(t) THEN Catch(t) ELSE Throw(t, "not loaded")
        /\ UNCHANGED library
  /\ UNCHANGED <<isInitialized, external, class, calls, changes, withdrawn, touched>>

\* The API field is assigned; for Numba that is before the interpreter is set up.
CreateApi(t) ==
  /\ At(t, "load", "create")
  /\ library' = [library EXCEPT ![Now(t).arg].api =
                   IF Now(t).arg = "numba" THEN "created" ELSE "complete"]
  /\ IF Now(t).arg = "numba"
     THEN Goto(t, "paths") /\ UNCHANGED lastRead
     ELSE Return(t)
  /\ UNCHANGED <<isInitialized, external, class, changes, withdrawn, touched, static, calls>>

\* initialize() and the package paths, which an external python prints.
SetUpPython(t) ==
  /\ At(t, "load", "paths")
  /\ \/ /\ library' = [library EXCEPT !["numba"].api = "complete"]
        /\ Return(t)
        /\ UNCHANGED static
     \/ Throw(t, "no python") /\ UNCHANGED library
  /\ UNCHANGED <<isInitialized, external, class, calls, changes, withdrawn, touched>>

\* Static initialisers: each loads its library, and then the class is ready.
InitializeClass(t) ==
  /\ At(t, "clinit", "load")
  /\ EnterLoader(t, LibraryOf(Now(t).arg), "ready")

EndClassInit(t) ==
  /\ At(t, "clinit", "ready")
  /\ static' = [static EXCEPT ![Now(t).arg] = "ready"]
  /\ Return(t)
  /\ UNCHANGED <<data, calls>>

\* The static initialiser of ArrayUtils ends without support: the vendor is not known,
\* the loader has thrown, or measuring the addresses of objects throws.
EndUnsupported(t) ==
  /\ At(t, "clinit", "unsupported") \/ At(t, "clinit", "ready")
  /\ Now(t).arg = "ArrayUtils"
  /\ static' = [static EXCEPT !["ArrayUtils"] = "unsupported"]
  /\ Return(t)
  /\ UNCHANGED <<data, calls>>

-----------------------------------------------------------------------------
(* LLJVMRuntime.initialize. *)

\* The synchronized method is entered.
BeginInitialize(t) ==
  /\ \A u \in Threads \ {t} : \A i \in DOMAIN stack[u] : stack[u][i].op # "initialize"
  /\ Begin(t, Activity("initialize", NumbaRuntime, "check", Providers, {}))
  /\ UNCHANGED <<data, static, lastRead>>

\* Mutant: the flag is set before the providers have run.
CheckAndSetInitialized(t) ==
  /\ At(t, "initialize", "check")
  /\ isInitialized' = TRUE
  /\ IF isInitialized THEN Return(t) ELSE Goto(t, "next") /\ UNCHANGED lastRead
  /\ UNCHANGED <<external, library, class, changes, withdrawn, touched, static, calls>>

CheckInitialized(t) ==
  /\ At(t, "initialize", "check")
  /\ IF isInitialized THEN Return(t) ELSE Goto(t, "next") /\ UNCHANGED lastRead
  /\ UNCHANGED <<data, static, calls>>

\* ServiceLoader finds the next provider; Numba's is a class that loads a library.
NextProvider(t) ==
  /\ At(t, "initialize", "next")
  /\ \E p \in Now(t).todo :
       Continue(t, [Now(t) EXCEPT !.arg = p, !.pc = "instantiate", !.todo = @ \ {p}])
  /\ UNCHANGED onlyPc

Instantiate(t) ==
  /\ At(t, "initialize", "instantiate")
  /\ IF Now(t).arg = NumbaRuntime
     THEN Use(t, "NumbaRuntime", "register")
     ELSE \/ Goto(t, "register") /\ UNCHANGED <<static, lastRead>>
          \/ Throw(t, "provider")
  /\ UNCHANGED <<data, calls>>

Unregistered(t) == DOMAIN Entries[Now(t).arg] \ Now(t).names

\* rt.initialize(): one FieldValue.put or Function.put after the other, in the order
\* of reflection.
Register(t) ==
  /\ At(t, "initialize", "register")
  /\ \E n \in Unregistered(t) :
       /\ external'  = [external EXCEPT ![n] = Entries[Now(t).arg][n]]
       /\ withdrawn' = withdrawn \ {n}
       /\ Continue(t, [Now(t) EXCEPT !.names = @ \cup {n}])
  /\ UNCHANGED <<isInitialized, library, class, changes, touched, static, calls, lastRead>>

\* A provider throws before it has registered everything.
ProviderFails(t) ==
  /\ At(t, "initialize", "register")
  /\ Throw(t, "provider")
  /\ UNCHANGED <<data, calls>>

EndProvider(t) ==
  /\ At(t, "initialize", "register") /\ Unregistered(t) = {}
  /\ IF Now(t).todo # {}
     THEN /\ Continue(t, [Now(t) EXCEPT !.pc = "next", !.names = {}])
          /\ UNCHANGED <<isInitialized, lastRead>>
     ELSE isInitialized' = TRUE /\ Return(t)
  /\ UNCHANGED <<external, library, class, changes, withdrawn, touched, static, calls>>

-----------------------------------------------------------------------------
(* LLJVMClassLoader.loadClassFromBitcode and loadClassFromBytecode. *)

BeginLoad(t, c) ==
  /\ Begin(t, Activity("loadClass", c, "initialized", {}, {}))
  /\ touched' = [b \in FromBitcode |->
                   IF b = c /\ class[c] = "none" /\ \A u \in Threads : ~Does(u, "loadClass", c)
                   THEN {} ELSE touched[b]]
  /\ UNCHANGED <<isInitialized, external, library, class, changes, withdrawn, static, lastRead>>

\* checkIfLLJVMRuntimeInitialized reads the volatile flag without the monitor.
CheckRuntime(t) ==
  /\ At(t, "loadClass", "initialized")
  /\ IF isInitialized
     THEN /\ Goto(t, IF Now(t).arg \in FromBitcode THEN "verify" ELSE "assemble")
          /\ UNCHANGED <<static, lastRead>>
     ELSE Throw(t, "not initialized")
  /\ UNCHANGED <<data, calls>>

\* checkLLVMBitcodeFormat and asJVMAssemblyCode load the API each.
VerifyBitcode(t) ==
  At(t, "loadClass", "verify") /\ EnterLoader(t, "lljvm", "translate")

Translate(t) ==
  At(t, "loadClass", "translate") /\ EnterLoader(t, "lljvm", "references")

\* The module is invalid, the printers throw, which the driver turns into an exception
\* of Java, or the verifier refuses bytecode before it needs the class name.
Reject(t) ==
  /\ \/ At(t, "loadClass", "translate")
     \/ At(t, "loadClass", "references") /\ Now(t).names = {}
     \/ At(t, "loadClass", "assemble") /\ Now(t).arg \notin FromBitcode
  /\ Throw(t, "rejected")
  /\ UNCHANGED <<data, calls>>

Unchecked(t) == References[Now(t).arg] \ Now(t).names

\* Mutant: only the last reference counts.
CheckLastReference(t) ==
  /\ At(t, "loadClass", "references")
  /\ \E n \in Unchecked(t) :
       Continue(t, [Now(t) EXCEPT !.names = @ \cup {n}, !.thrown = external[n] = Absent])
  /\ UNCHANGED onlyPc

\* toJVMAssemblyCode asks Java for one reference after the other; a missing one
\* leaves an exception pending and the loop goes on, what later calls answer with
\* it pending does not matter.
CheckReference(t) ==
  /\ At(t, "loadClass", "references")
  /\ \E n \in Unchecked(t) :
       Continue(t, [Now(t) EXCEPT !.names = @ \cup {n},
                                  !.thrown = @ \/ external[n] = Absent])
  /\ UNCHANGED onlyPc

\* Mutant: the pending exception is cleared.
EndTranslationSilently(t) ==
  /\ At(t, "loadClass", "references") /\ Unchecked(t) = {}
  /\ Goto(t, "assemble")
  /\ UNCHANGED onlyPc

\* Back in Java a pending exception is thrown.
EndTranslation(t) ==
  /\ At(t, "loadClass", "references") /\ Unchecked(t) = {}
  /\ \/ ~Now(t).thrown /\ Goto(t, "assemble") /\ UNCHANGED <<static, lastRead>>
     \/ Now(t).thrown /\ Throw(t, "unresolved")
  /\ UNCHANGED <<data, calls>>

\* The name of generated classes is a static field of JVMAssembler.
Assemble(t) ==
  /\ At(t, "loadClass", "assemble")
  /\ Use(t, "JVMAssembler", "define")
  /\ UNCHANGED <<data, calls>>

\* The verifier accepts the class or not; a loader defines the name once.
DefineClass(t) ==
  /\ At(t, "loadClass", "define")
  /\ \/ /\ class[Now(t).arg] = "none"
        /\ class' = [class EXCEPT ![Now(t).arg] = "defined"]
        /\ Return(t)
        /\ UNCHANGED static
     \/ Throw(t, IF class[Now(t).arg] = "none" THEN "illegal bytecode" ELSE "LinkageError")
        /\ UNCHANGED class
  /\ UNCHANGED <<isInitialized, external, library, changes, withdrawn, touched, calls>>

-----------------------------------------------------------------------------
(* Generated code and other users of the registries. *)

\* A generated function runs: it needs the virtual memory, then it reads a field.
BeginRead(t, c, n) ==
  /\ class[c] = "defined" /\ n \in References[c]
  /\ Begin(t, Activity("read", c, "memory", {}, {Sanitized[n]}))
  /\ UNCHANGED <<data, static, lastRead>>

UseMemory(t) ==
  /\ At(t, "read", "memory")
  /\ Use(t, "VMemory", "containsKey")
  /\ UNCHANGED <<data, calls>>

\* _get: containsKey ...
ContainsField(t) ==
  /\ At(t, "read", "containsKey")
  /\ \E n \in Now(t).names :
       IF external[n] # Absent
       THEN Goto(t, "get") /\ UNCHANGED <<static, lastRead>>
       ELSE Throw(t, "missing")
  /\ UNCHANGED <<data, calls>>

\* ... and get, whose result is dereferenced, and the check of the type: a global
\* variable is a pointer, so generated code always asks for a long.
GetField(t) ==
  /\ At(t, "read", "get")
  /\ \E n \in Now(t).names :
       IF external[n] = Pointer
       THEN Return(t) /\ UNCHANGED static
       ELSE Throw(t, IF external[n] = Absent THEN "null" ELSE "type")
  /\ UNCHANGED <<data, calls>>

\* Somebody asks for the address of an array, PyArrayHolder.create(ar) after it has
\* allocated its structure.
BeginAddress(t) ==
  /\ \E pc \in {"memory", "array"} :
       Begin(t, Activity("address", NumbaRuntime, pc, {}, {}))
  /\ UNCHANGED <<data, static, lastRead>>

AllocateHolder(t) ==
  /\ At(t, "address", "memory")
  /\ Use(t, "VMemory", "array")
  /\ UNCHANGED <<data, calls>>

UseArrays(t) ==
  /\ At(t, "address", "array")
  /\ Use(t, "ArrayUtils", "addressOf")
  /\ UNCHANGED <<data, calls>>

EndAddress(t) ==
  /\ At(t, "address", "addressOf")
  /\ IF static["ArrayUtils"] = "ready"
     THEN Return(t) /\ UNCHANGED static
     ELSE Throw(t, "not supported")
  /\ UNCHANGED <<data, calls>>

\* Others change the registries.
Change(names, value) ==
  /\ changes < MaxChanges /\ changes' = changes + 1
  /\ external'  = [n \in Names |-> IF n \in names THEN value ELSE external[n]]
  /\ withdrawn' = IF value = Absent THEN withdrawn \cup names ELSE withdrawn \ names
  /\ touched'   = [c \in FromBitcode |-> touched[c] \cup names]
  /\ UNCHANGED <<isInitialized, library, class, static, stack, calls, lastRead>>

\* FieldValue and Function: put, remove, clear.
Put(n, type) == Change({n}, type)
Remove(n)    == external[n] # Absent /\ Change({n}, Absent)
Clear        == Change(Names, Absent)
-----------------------------------------------------------------------------
LoadStep(t) == FindApi(t) \/ CheckLoaded(t) \/ LoadNativeLibrary(t) \/ CreateApi(t)
               \/ SetUpPython(t) \/ InitializeClass(t) \/ EndClassInit(t) \/ EndUnsupported(t)

InitializeStep(t) == CheckInitialized(t) \/ NextProvider(t) \/ Instantiate(t)
                     \/ Register(t) \/ ProviderFails(t) \/ EndProvider(t)

ClassStep(t) == CheckRuntime(t) \/ VerifyBitcode(t) \/ Translate(t) \/ Reject(t)
                \/ CheckReference(t) \/ EndTranslation(t) \/ Assemble(t) \/ DefineClass(t)

ReadStep(t) == UseMemory(t) \/ ContainsField(t) \/ GetField(t)

AddressStep(t) == AllocateHolder(t) \/ UseArrays(t) \/ EndAddress(t)

Step(t) == LoadStep(t) \/ InitializeStep(t) \/ ClassStep(t) \/ ReadStep(t) \/ AddressStep(t)

Next == \/ \E t \in Threads : BeginInitialize(t) \/ BeginAddress(t) \/ Step(t)
        \/ \E t \in Threads, c \in Classes : BeginLoad(t, c)
        \/ \E t \in Threads, c \in Classes, n \in Names : BeginRead(t, c, n)
        \/ \E n \in Names, type \in Types : Put(n, type)
        \/ \E n \in Names : Remove(n)
        \/ Clear

Spec == Init /\ [][Next]_vars

\* The JVM runs its threads.
FairSpec == Spec /\ \A t \in Threads : WF_vars(Step(t))

-----------------------------------------------------------------------------
(* Properties. *)

ActivityType ==
  [op     : {"initialize", "clinit", "load", "loadClass", "read", "address"},
   arg    : Providers \cup StaticClasses \cup Libraries \cup Classes,
   pc     : {"check", "next", "instantiate", "register", "load", "ready", "api",
             "isLoaded", "extract", "create", "paths", "initialized", "verify",
             "translate", "references", "assemble", "define", "memory",
             "containsKey", "get", "unsupported", "array", "addressOf"},
   todo   : SUBSET Providers,
   names  : SUBSET Names,
   thrown : BOOLEAN]

\* The state has its type; a class is being initialised while a thread runs its
\* static initialiser.
TypeOK ==
  /\ isInitialized \in BOOLEAN
  /\ external \in [Names -> Types \cup {Absent}]
  /\ library \in [Libraries -> [isLoaded : BOOLEAN, api : {"null", "created", "complete"},
                                loads : Nat]]
  /\ static \in [StaticClasses -> {"uninitialized", "initializing", "ready", "unsupported",
                                 "erroneous"}]
  /\ class \in [Classes -> {"none", "defined"}]
  /\ stack \in [Threads -> Seq(ActivityType)]
  /\ calls \in 0 .. MaxCalls
  /\ changes \in 0 .. MaxChanges
  /\ withdrawn \subseteq Names
  /\ touched \in [FromBitcode -> SUBSET Names]
  /\ \A s \in StaticClasses :
       static[s] = "initializing" <=> \E t \in Threads : Does(t, "clinit", s)
  /\ lastRead \in [Threads -> [class : Classes \cup {Absent}, names : SUBSET Names,
                                result : {"none", "ok", "missing", "null", "type",
                                          "NoClassDefFoundError", "not loaded"}]]

\* LLJVMRuntime.java:29-36: once isInitialized is set, which loadClass reads without
\* the monitor, every entry of every provider is registered, unless somebody has
\* withdrawn it; however many initialisations failed half way before.
InitializedMeansComplete ==
  isInitialized =>
    \A p \in Providers : \A n \in DOMAIN Entries[p] : external[n] # Absent \/ n \in withdrawn

\* LLJVMLoader.java:33-61 and NumbaRuntimeLoader.java:45-71: a native library is
\* loaded at most once, and is loaded when its API object exists, although every
\* static initialiser and every class loader asks for it.
LibrariesLoadOnce ==
  \A l \in Libraries :
    /\ library[l].loads = IF library[l].isLoaded THEN 1 ELSE 0
    /\ library[l].api # "null" => library[l].isLoaded

\* NumbaRuntime.java:79, VMemory.java:187, JVMAssembler.java:35-44: a class that can
\* be used has a completely set up API.  NumbaRuntimeLoader hands a half set up API
\* to whoever asks again after a failure; nobody does, for the class that asks is
\* erroneous by then.  ArrayUtils.java:34-64, which catches what the loader throws,
\* ends without support for addresses when it has got no API.
ReadyClassesHaveTheirApi ==
  \A s \in StaticClasses : static[s] = "ready" => library[LibraryOf(s)].api = "complete"

\* lljvm.cc:162-179 with LLJVMClassLoader.java:83-87: each external reference of a
\* class loaded from bitcode is registered, unless others have withdrawn it since the
\* load began, or since the first of the loads that overlap when threads load it at once.
LoadedClassesResolve ==
  \A c \in FromBitcode : class[c] = "defined" =>
    \A n \in References[c] : external[n] # Absent \/ n \in touched[c]

\* FieldValue.java:53-71: generated code from bitcode fails to read a field only if
\* others have changed the field since the class was loaded, if the runtime registers
\* it with another type, for the driver checks names only, or if its name is not that
\* of a reference, for the driver does not sanitize the names it checks.
ReadsFailOnlyAfterChanges ==
  \A t \in Threads :
    LET read == lastRead[t]
    IN read.class \in FromBitcode /\ read.result \in {"missing", "null", "type"} =>
         \A n \in read.names :
           \/ n \in touched[read.class] \/ n \notin References[read.class]
           \/ read.result = "type" /\ external[n] # Pointer

\* Monitors and static initialisers never make threads wait for each other: every
\* call comes back, with a result or with an exception.
CallsEnd == \A t \in Threads : stack[t] # <<>> ~> stack[t] = <<>>
=============================================================================
