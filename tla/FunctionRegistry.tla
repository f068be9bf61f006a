--------------------------- MODULE FunctionRegistry ---------------------------
(***************************************************************************)
(* Calls between functions: core/.../runtime/Function.java.                *)
(*                                                                         *)
(* Generated code calls functions by name, through Function.invoke_*.  A   *)
(* function the module only declares has an empty class name: it is a Java *)
(* method registered in externalFuncPointers, a concurrent map that is     *)
(* read twice per call.  A function of the module itself, reached through  *)
(* a constant cast of its address, has the one name all generated classes  *)
(* share: it is looked up in the class path and in the working directory,  *)
(* and only then in the thread's current class loader; resolution and call *)
(* both run inside synchronized (methodCache).                             *)
(*                                                                         *)
(* A function of a generated class is a pair <<where, name>>: the class of *)
(* a loader, or that of a class file found outside the loaders.            *)
(***************************************************************************)
EXTENDS Integers, Sequences, SequencesExt, FiniteSets

CONSTANTS
  Threads,     \* threads that run generated code
  Loaders,     \* class loaders
  ClassFiles,  \* class files of the shared name; one that cannot be read has no functions
  NoFile,      \* there is no such class file
  Names,       \* signatures of generated functions
  Defines,     \* Defines[w]: the names the class of the loader or class file w declares
  Signatures,  \* signatures of external functions
  CacheSize,   \* maximumSize of methodCache
  MaxCalls,    \* bound: nested calls made under one call from Java
  Nobody       \* the monitor is free

ASSUME RegistryAssumption ==
  /\ Defines \in [Loaders \cup ClassFiles -> SUBSET Names]
  /\ NoFile \notin ClassFiles
  /\ CacheSize \in Nat \ {0}
  /\ MaxCalls \in Nat
  /\ Nobody \notin Threads

VARIABLES
  registered,  \* the keys of externalFuncPointers
  cache,       \* the entries of methodCache
  monitor,     \* the monitor of methodCache
  current,     \* current[t]: LLJVMClassLoader.currentClassLoader
  classFile,   \* the class file a lookup finds outside the loaders
  stack,       \* stack[t]: the invocations in progress, outermost first
  budget,      \* budget[t]: calls the function Java called may still make
  withdrawn    \* withdrawn[t]: history, signatures removed since t checked

vars == <<registered, cache, monitor, current, classFile, stack, budget, withdrawn>>

Functions == {fn \in (Loaders \cup ClassFiles) \X Names : fn[2] \in Defines[fn[1]]}

\* An invocation: of Java's own call, of an external function, of a generated one.
Java(fn)      == [kind |-> "java",     pc |-> "running",  target |-> fn]
External(sig) == [kind |-> "external", pc |-> "checked",  target |-> sig]
Internal(f)   == [kind |-> "internal", pc |-> "entering", target |-> f]

Top(t) == Last(stack[t])
TopIs(t, kind, pc) == stack[t] # <<>> /\ Top(t).kind = kind /\ Top(t).pc = pc

\* Generated code is what runs on t.
InGeneratedCode(t) == TopIs(t, "java", "running") \/ TopIs(t, "internal", "running")

\* Java code is: outside every call, or inside an external function.
InJava(t) == stack[t] = <<>> \/ TopIs(t, "external", "running")

ReplaceTop(t, invocation) == [stack EXCEPT ![t] = Append(Front(@), invocation)]

Init == /\ registered = {}
        /\ cache      = <<>>
        /\ monitor    = [owner |-> Nobody, count |-> 0]
        /\ current    \in [Threads -> Loaders]
        /\ classFile  \in ClassFiles \cup {NoFile}
        /\ stack      = [t \in Threads |-> <<>>]
        /\ budget     = [t \in Threads |-> 0]
        /\ withdrawn  = [t \in Threads |-> {}]

\* put, remove and clear, by any thread.
put(sig) == /\ registered' = registered \cup {sig}
            /\ UNCHANGED <<cache, monitor, current, classFile, stack, budget, withdrawn>>

Withdraw(sigs) ==
  /\ registered' = registered \ sigs
  /\ withdrawn'  = [t \in Threads |-> withdrawn[t] \cup (registered \cap sigs)]
  /\ UNCHANGED <<cache, monitor, current, classFile, stack, budget>>

remove(sig) == Withdraw({sig})
clear       == Withdraw(Signatures)

\* currentClassLoader.set(...)
SetLoader(t, l) == /\ InJava(t)
                   /\ current' = [current EXCEPT ![t] = l]
                   /\ UNCHANGED <<registered, cache, monitor, classFile, stack, budget, withdrawn>>

\* Anybody writes, replaces or removes a class file of the shared name.
SetClassFile(c) == /\ classFile' = c
                   /\ UNCHANGED <<registered, cache, monitor, current, stack, budget, withdrawn>>

\* Java calls a function of a generated class, wherever it came from.
InvokeFromJava(t, fn) ==
  /\ stack[t] = <<>>
  /\ stack'  = [stack EXCEPT ![t] = <<Java(fn)>>]
  /\ budget' = [budget EXCEPT ![t] = MaxCalls]
  /\ UNCHANGED <<registered, cache, monitor, current, classFile, withdrawn>>

Call(t, invocation) ==
  /\ InGeneratedCode(t)
  /\ budget[t] > 0
  /\ budget' = [budget EXCEPT ![t] = @ - 1]
  /\ stack'  = [stack EXCEPT ![t] = Append(@, invocation)]

\* synchronized blocks leave the monitor however they are left.
ExitMonitor(n) ==
  monitor' = IF monitor.count > n THEN [monitor EXCEPT !.count = @ - n]
             ELSE [owner |-> Nobody, count |-> 0]

\* The synchronized blocks t is in.
Held(t) == Cardinality({i \in DOMAIN stack[t] : stack[t][i].kind = "internal"
                                             /\ stack[t][i].pc = "running"})

\* Mutant: lock and unlock without a finally.
ThrowKeepingMonitor(t, count) ==
  /\ stack'  = [stack EXCEPT ![t] = <<>>]
  /\ budget' = [budget EXCEPT ![t] = 0]
  /\ UNCHANGED <<registered, monitor, current, classFile, withdrawn>>

\* An exception leaves every invocation of t, up to Java; count is the number
\* of synchronized blocks on its way.
Throw(t, count) ==
  /\ stack'  = [stack EXCEPT ![t] = <<>>]
  /\ budget' = [budget EXCEPT ![t] = 0]
  /\ IF count > 0 THEN ExitMonitor(count) ELSE UNCHANGED monitor
  /\ UNCHANGED <<registered, current, classFile, withdrawn>>

\* Mutant: no containsKey before the get.
CallUnchecked(t, sig) ==
  /\ Call(t, External(sig))
  /\ withdrawn' = [withdrawn EXCEPT ![t] = {}]
  /\ UNCHANGED <<registered, cache, monitor, current, classFile>>

\* containsKey: the first of the two reads of the map.
CheckExternal(t, sig) ==
  /\ sig \in registered
  /\ Call(t, External(sig))
  /\ withdrawn' = [withdrawn EXCEPT ![t] = {}]
  /\ UNCHANGED <<registered, cache, monitor, current, classFile>>

\* "Cannot resolve an external function".
UnknownExternal(t, sig) ==
  /\ InGeneratedCode(t)
  /\ sig \notin registered
  /\ Throw(t, Held(t))
  /\ UNCHANGED cache

\* get: the second read.
FetchExternal(t) ==
  /\ TopIs(t, "external", "checked")
  /\ Top(t).target \in registered
  /\ stack' = ReplaceTop(t, [Top(t) EXCEPT !.pc = "running"])
  /\ UNCHANGED <<registered, cache, monitor, current, classFile, budget, withdrawn>>

\* The second read returns null, validateMethod dereferences it.
FetchNull(t) ==
  /\ TopIs(t, "external", "checked")
  /\ Top(t).target \notin registered
  /\ Throw(t, Held(t))
  /\ UNCHANGED cache

\* A call with the class name: first wait for the monitor.
CallInternal(t, f) ==
  /\ Call(t, Internal(f))
  /\ UNCHANGED <<registered, cache, monitor, current, classFile, withdrawn>>

MayEnter(t) == TopIs(t, "internal", "entering") /\ monitor.owner \in {t, Nobody}

\* Mutant: a Pair with an equals of its own.
PairEqualsByContent(key, other) == key = other

\* The key of a lookup is always a new Pair, and Pair inherits Object.equals.
PairEquals(key, other) == FALSE

CachedFor(f) == {cache[i].method : i \in {j \in DOMAIN cache : PairEquals(cache[j].key, f)}}

\* ReflectionUtils.getClass: a new URLClassLoader over the class path and the
\* working directory, which reads the class file anew; then the current loader.
ClassFound(t) == IF classFile # NoFile THEN classFile ELSE current[t]

\* CacheLoader.load
LoadedFor(t, f) == {<<ClassFound(t), f>>} \cap Functions

\* methodCache.get: what is cached, or what is loaded.
Resolved(t, f) == IF CachedFor(f) # {} THEN CachedFor(f) ELSE LoadedFor(t, f)

\* Mutant: a cache without a maximum size.
CacheForever(f, method) ==
  IF CachedFor(f) # {} THEN UNCHANGED cache
  ELSE cache' = Append(cache, [key |-> f, method |-> method])

\* A loaded method is cached; a full cache evicts some entry.
CacheLoaded(f, method) ==
  IF CachedFor(f) # {} THEN UNCHANGED cache
  ELSE LET filled == Append(cache, [key |-> f, method |-> method]) IN
       IF Len(filled) <= CacheSize THEN cache' = filled
       ELSE \E i \in DOMAIN filled : cache' = RemoveAt(filled, i)

EnterInternal(t) ==
  /\ MayEnter(t)
  /\ \E method \in Resolved(t, Top(t).target) :
       /\ CacheLoaded(Top(t).target, method)
       /\ stack' = ReplaceTop(t, [kind |-> "internal", pc |-> "running", target |-> method])
  /\ monitor' = [owner |-> t, count |-> monitor.count + 1]
  /\ UNCHANGED <<registered, current, classFile, budget, withdrawn>>

\* "Method not found": thrown inside the synchronized block.
InternalNotFound(t) ==
  /\ MayEnter(t)
  /\ Resolved(t, Top(t).target) = {}
  /\ Throw(t, Held(t))
  /\ UNCHANGED cache

Return(t) ==
  /\ stack[t] # <<>>
  /\ Top(t).pc = "running"
  /\ stack' = [stack EXCEPT ![t] = Front(@)]
  /\ IF Top(t).kind = "internal" THEN ExitMonitor(1) ELSE UNCHANGED monitor
  /\ UNCHANGED <<registered, cache, current, classFile, budget, withdrawn>>

\* The body of the function throws, or validateMethod rejects its return type.
BodyThrows(t) ==
  /\ stack[t] # <<>>
  /\ Top(t).pc = "running"
  /\ Throw(t, Held(t))
  /\ UNCHANGED cache

\* What t itself does once it has been called.
Step(t) == \/ \E sig \in Signatures : CheckExternal(t, sig) \/ UnknownExternal(t, sig)
           \/ FetchExternal(t)
           \/ FetchNull(t)
           \/ \E f \in Names : CallInternal(t, f)
           \/ EnterInternal(t)
           \/ InternalNotFound(t)
           \/ Return(t)
           \/ BodyThrows(t)

Next == \/ \E sig \in Signatures : put(sig) \/ remove(sig)
        \/ clear
        \/ \E c \in ClassFiles \cup {NoFile} : SetClassFile(c)
        \/ \E t \in Threads :
             \/ \E l \in Loaders : SetLoader(t, l)
             \/ \E fn \in Functions : InvokeFromJava(t, fn)
             \/ Step(t)

Spec == Init /\ [][Next]_vars

\* The JVM keeps running a thread that can run.
FairSpec == Spec /\ \A t \in Threads : WF_vars(Step(t))

-----------------------------------------------------------------------------
(* Properties. *)

\* The invocations a thread can have in progress.
InvocationType ==
  [kind : {"java"}, pc : {"running"}, target : Functions]
    \cup [kind : {"external"}, pc : {"checked", "running"}, target : Signatures]
    \cup [kind : {"internal"}, pc : {"entering"}, target : Names]
    \cup [kind : {"internal"}, pc : {"running"}, target : Functions]

\* The state has its type; the cache never exceeds its maximum size.
TypeOK ==
  /\ registered \subseteq Signatures
  /\ cache \in Seq([key : Names, method : Functions]) /\ Len(cache) <= CacheSize
  /\ monitor \in [owner : Threads \cup {Nobody}, count : Nat]
  /\ current \in [Threads -> Loaders]
  /\ classFile \in ClassFiles \cup {NoFile}
  /\ stack \in [Threads -> Seq(InvocationType)]
  /\ budget \in [Threads -> 0 .. MaxCalls]
  /\ withdrawn \in [Threads -> SUBSET Signatures]

\* Function.java:142-152: the monitor is held by exactly the thread that runs a
\* function called by class name, once for each such call in progress; so two
\* threads never run such functions at the same time, and no return, exception
\* or failed lookup leaves the monitor locked or frees it too early.
MonitorMatchesCalls ==
  /\ \A t \in Threads : Held(t) = IF monitor.owner = t THEN monitor.count ELSE 0
  /\ monitor.owner = Nobody <=> monitor.count = 0

\* Function.java:52-64 with ReflectionUtils.java:50-63: although all generated
\* classes share one name and one cache, a call by class name runs the function
\* of the class the lookup finds at that moment, the class file if there is one
\* and otherwise the class of the thread's own current loader: never what another
\* thread, an earlier loader or an earlier class file left in the cache.  It fails
\* if and only if that class lacks the function.
ResolvesAfresh ==
  [][\A t \in Threads :
       MayEnter(t) /\ stack'[t] # stack[t]
         => LET fn == <<ClassFound(t), Top(t).target>> IN
            IF fn \in Functions THEN stack'[t] # <<>> /\ Last(stack'[t]).target = fn
            ELSE stack'[t] = <<>>]_vars

\* Function.java:156-157: the map is read twice, so a call can find null after it
\* found the key; but only when the function was withdrawn in between.
NullOnlyAfterWithdrawal ==
  \A t \in Threads :
    TopIs(t, "external", "checked") /\ Top(t).target \notin registered
      => Top(t).target \in withdrawn[t]

\* Function.java:145-151: bodies that end let go of the monitor, whatever they
\* call and however they end; a thread never waits for itself.
MonitorIsReleased ==
  \A t \in Threads : monitor.owner = t ~> monitor.owner # t
=============================================================================
