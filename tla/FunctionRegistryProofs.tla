------------------------ MODULE FunctionRegistryProofs ------------------------
(***************************************************************************)
(* Proofs about FunctionRegistry, for any threads, loaders, functions and  *)
(* signatures, any size of the cache and any number of nested calls.       *)
(*                                                                         *)
(* That the monitor matches the calls is counted: every invocation weighs  *)
(* one if it is inside synchronized (methodCache) and nothing otherwise.   *)
(* What an invocation below the innermost one weighs never changes, since  *)
(* only the innermost one can be waiting for the monitor.                  *)
(***************************************************************************)
EXTENDS FunctionRegistry, FiniteSetTheorems, SequenceTheorems, TLAPS

OnlyTheTopWaits ==
  \A t \in Threads : \A i \in DOMAIN stack[t] :
    i < Len(stack[t]) => stack[t][i].pc = "running"

IInv == /\ TypeOK
        /\ OnlyTheTopWaits
        /\ MonitorMatchesCalls
        /\ NullOnlyAfterWithdrawal

InMonitor(s) == {i \in DOMAIN s : s[i].kind = "internal" /\ s[i].pc = "running"}

Weight(invocation) ==
  IF invocation.kind = "internal" /\ invocation.pc = "running" THEN 1 ELSE 0

-----------------------------------------------------------------------------
(* Lemmas about sequences of invocations. *)

\* What Front and Last yield, and that they put a sequence together again.
LEMMA FrontLast ==
  ASSUME NEW S, NEW s \in Seq(S), s # <<>>
  PROVE  /\ Len(s) \in Nat \ {0}
         /\ Last(s) \in S
         /\ Front(s) \in Seq(S)
         /\ Len(Front(s)) = Len(s) - 1
         /\ \A i \in 1 .. Len(s) - 1 : Front(s)[i] = s[i]
         /\ s = Append(Front(s), Last(s))
  <1>. DEFINE n == Len(s)
              front == Front(s)
  <1>1. n \in Nat \ {0}
    BY EmptySeq, LenProperties
  <1>2. \A i \in 1 .. n : s[i] \in S
    BY ElementOfSeq
  <1>3. 1 .. n - 1 \subseteq 1 .. n /\ n - 1 \in Int /\ n \in 1 .. n
    BY <1>1
  <1>4. Last(s) \in S /\ Last(s) = s[n]
    BY <1>2, <1>3 DEF Last
  <1>5. /\ front \in Seq(S)
        /\ Len(front) = IF 1 <= n - 1 THEN n - 1 - 1 + 1 ELSE 0
        /\ \A i \in 1 .. n - 1 - 1 + 1 : front[i] = s[1 + i - 1]
    BY <1>2, <1>3, SubSeqProperties DEF Front
  <1>. HIDE DEF front, n
  <1>6. Len(front) = n - 1 /\ \A i \in 1 .. n - 1 : front[i] = s[i]
    BY <1>1, <1>5
  <1>. DEFINE t == Append(front, Last(s))
  <1>7. /\ t \in Seq(S) /\ Len(t) = Len(front) + 1
        /\ \A i \in 1 .. Len(front) : t[i] = front[i]
        /\ t[Len(front) + 1] = Last(s)
    BY <1>4, <1>5, AppendProperties
  <1>. HIDE DEF t
  <1>8. Len(t) = n /\ \A i \in 1 .. n : i \in 1 .. n - 1 \/ i = n
    BY <1>1, <1>6, <1>7
  <1>9. t[n] = s[n]
    BY <1>1, <1>4, <1>6, <1>7
  <1>10. \A i \in 1 .. n : s[i] = t[i]
    BY <1>6, <1>7, <1>8, <1>9
  <1>11. s = t
    BY <1>7, <1>8, <1>10, SeqEqual DEF n
  <1>. QED
    BY <1>1, <1>4, <1>5, <1>6, <1>11 DEF front, t, n

\* A new invocation adds its weight to the number of those in the monitor.
LEMMA InMonitorAppend ==
  ASSUME NEW S, NEW s \in Seq(S), NEW e \in S
  PROVE  /\ Cardinality(InMonitor(s)) \in Nat
         /\ Cardinality(InMonitor(Append(s, e))) = Cardinality(InMonitor(s)) + Weight(e)
  <1>. DEFINE n == Len(s)
              t == Append(s, e)
  <1>1. n \in Nat /\ DOMAIN s = 1 .. n
    BY LenProperties
  <1>2. /\ t \in Seq(S) /\ Len(t) = n + 1
        /\ \A i \in 1 .. n : t[i] = s[i]
        /\ t[n + 1] = e
    BY AppendProperties
  <1>3. DOMAIN t = 1 .. n + 1
    BY <1>2, LenProperties
  <1>. HIDE DEF t, n
  <1>4. IsFiniteSet(1 .. n)
    BY <1>1, FS_Interval
  <1>5. InMonitor(s) \subseteq 1 .. n
    BY <1>1 DEF InMonitor
  <1>6. IsFiniteSet(InMonitor(s)) /\ Cardinality(InMonitor(s)) \in Nat
    BY <1>4, <1>5, FS_Subset, FS_CardinalityType
  <1>7. n + 1 \notin 1 .. n /\ \A i \in 1 .. n + 1 : i \in 1 .. n \/ i = n + 1
    BY <1>1
  <1>8. 1 .. n \subseteq 1 .. n + 1 /\ n + 1 \in 1 .. n + 1
    BY <1>1
  <1>9. CASE Weight(e) = 1
    <2>1. e.kind = "internal" /\ e.pc = "running"
      BY <1>9 DEF Weight
    <2>2. InMonitor(t) = InMonitor(s) \cup {n + 1}
      BY <2>1, <1>1, <1>2, <1>3, <1>7, <1>8 DEF InMonitor
    <2>3. n + 1 \notin InMonitor(s)
      BY <1>5, <1>7
    <2>4. Cardinality(InMonitor(t)) = Cardinality(InMonitor(s)) + 1
      BY <2>2, <2>3, <1>6, FS_AddElement
    <2>. QED
      BY <2>4, <1>6, <1>9 DEF t
  <1>10. CASE Weight(e) = 0
    <2>1. ~(e.kind = "internal" /\ e.pc = "running")
      BY <1>10 DEF Weight
    <2>2. InMonitor(t) = InMonitor(s)
      BY <2>1, <1>1, <1>2, <1>3, <1>7, <1>8 DEF InMonitor
    <2>. QED
      BY <2>2, <1>6, <1>10 DEF t
  <1>. QED
    BY <1>9, <1>10 DEF Weight

\* Front takes the weight of the last invocation away.
LEMMA InMonitorFront ==
  ASSUME NEW S, NEW s \in Seq(S), s # <<>>
  PROVE  /\ Cardinality(InMonitor(Front(s))) \in Nat
         /\ Cardinality(InMonitor(s)) = Cardinality(InMonitor(Front(s))) + Weight(Last(s))
  <1>1. Front(s) \in Seq(S) /\ Last(s) \in S /\ s = Append(Front(s), Last(s))
    BY FrontLast
  <1>. QED
    BY <1>1, InMonitorAppend

LEMMA NobodyInMonitor == Cardinality(InMonitor(<<>>)) = 0
  <1>1. DOMAIN <<>> = {}
    OBVIOUS
  <1>2. InMonitor(<<>>) = {}
    BY <1>1 DEF InMonitor
  <1>. QED
    BY <1>2, FS_EmptySet

\* Only the last invocation of s may be waiting.
Settled(s) == \A i \in DOMAIN s : i < Len(s) => s[i].pc = "running"

LEMMA SettledAppend ==
  ASSUME NEW S, NEW s \in Seq(S), NEW e \in S, Settled(s),
         s = <<>> \/ Last(s).pc = "running"
  PROVE  /\ Settled(Append(s, e))
         /\ Append(s, e) \in Seq(S) /\ Append(s, e) # <<>>
         /\ Last(Append(s, e)) = e
  <1>. DEFINE n == Len(s)
              t == Append(s, e)
  <1>1. n \in Nat /\ DOMAIN s = 1 .. n
    BY LenProperties
  <1>2. /\ t \in Seq(S) /\ Len(t) = n + 1 /\ t # <<>>
        /\ \A i \in 1 .. n : t[i] = s[i]
        /\ t[n + 1] = e
    BY AppendProperties
  <1>3. DOMAIN t = 1 .. n + 1
    BY <1>2, LenProperties
  <1>4. \A i \in 1 .. n : s[i].pc = "running"
    <2>1. CASE s = <<>>
      <3>1. n = 0
        BY <2>1, EmptySeq
      <3>2. 1 .. n = {}
        BY <3>1
      <3>. QED
        BY <3>2
    <2>2. CASE Last(s).pc = "running"
      <3>1. s[n].pc = "running"
        BY <2>2 DEF Last
      <3>2. \A i \in 1 .. n : i < n \/ i = n
        <4>. HIDE DEF n
        <4>. QED
          BY <1>1
      <3>. QED
        BY <3>1, <3>2, <1>1 DEF Settled
    <2>. QED
      BY <2>1, <2>2
  <1>. HIDE DEF t, n
  <1>5. \A i \in 1 .. n + 1 : i < n + 1 => i \in 1 .. n
    BY <1>1
  <1>6. Settled(t)
    BY <1>2, <1>3, <1>4, <1>5 DEF Settled
  <1>. QED
    BY <1>2, <1>6 DEF t, Last

LEMMA SettledFront ==
  ASSUME NEW S, NEW s \in Seq(S), s # <<>>, Settled(s)
  PROVE  /\ Settled(Front(s))
         /\ Front(s) = <<>> \/ Last(Front(s)).pc = "running"
  <1>. DEFINE n == Len(s)
              front == Front(s)
  <1>1. /\ n \in Nat \ {0}
        /\ front \in Seq(S) /\ Len(front) = n - 1
        /\ \A i \in 1 .. n - 1 : front[i] = s[i]
    BY FrontLast
  <1>2. DOMAIN s = 1 .. n /\ DOMAIN front = 1 .. n - 1
    BY <1>1, LenProperties
  <1>3. \A i \in 1 .. n : i < n => s[i].pc = "running"
    BY <1>2 DEF Settled
  <1>4. front = <<>> \/ Len(front) # 0
    BY <1>1, EmptySeq
  <1>. HIDE DEF front, n
  <1>5. \A i \in 1 .. n - 1 : i \in 1 .. n /\ i < n
    BY <1>1
  <1>6. \A i \in 1 .. n - 1 : front[i].pc = "running"
    BY <1>1, <1>3, <1>5
  <1>7. Len(front) # 0 => n - 1 \in 1 .. n - 1
    BY <1>1
  <1>. QED
    BY <1>1, <1>2, <1>4, <1>6, <1>7 DEF Settled, Last, front

-----------------------------------------------------------------------------
(* Lemmas about steps: what happens to the stack, the monitor, the map. *)

LEMMA StackSettled ==
  OnlyTheTopWaits <=> \A t \in Threads : Settled(stack[t])
  BY DEF OnlyTheTopWaits, Settled

\* The innermost invocation of t calls another one, or Java calls the first.
LEMMA Push ==
  ASSUME TypeOK, OnlyTheTopWaits, NEW t \in Threads, NEW e \in InvocationType,
         stack[t] = <<>> \/ Top(t).pc = "running",
         Weight(e) = 0,
         stack' = [stack EXCEPT ![t] = Append(@, e)]
  PROVE  /\ stack' \in [Threads -> Seq(InvocationType)]
         /\ OnlyTheTopWaits'
         /\ \A u \in Threads : Held(u)' = Held(u)
         /\ \A u \in Threads : u # t => stack'[u] = stack[u]
         /\ stack'[t] # <<>> /\ Last(stack'[t]) = e
  <1>1. stack[t] \in Seq(InvocationType) /\ Settled(stack[t])
    BY StackSettled DEF TypeOK
  <1>2. /\ stack'[t] = Append(stack[t], e)
        /\ \A u \in Threads : u # t => stack'[u] = stack[u]
    BY DEF TypeOK
  <1>3. /\ Settled(stack'[t]) /\ stack'[t] \in Seq(InvocationType)
        /\ stack'[t] # <<>> /\ Last(stack'[t]) = e
    BY <1>1, <1>2, SettledAppend DEF Top
  <1>4. Cardinality(InMonitor(stack'[t])) = Cardinality(InMonitor(stack[t]))
    <2>1. /\ Cardinality(InMonitor(stack[t])) \in Nat
          /\ Cardinality(InMonitor(stack'[t])) = Cardinality(InMonitor(stack[t])) + Weight(e)
      BY <1>1, <1>2, InMonitorAppend
    <2>. QED
      BY <2>1
  <1>5. \A u \in Threads : Held(u)' = Held(u)
    <2>1. Held(t)' = Held(t)
      BY <1>4 DEF Held, InMonitor
    <2>2. \A u \in Threads : u # t => Held(u)' = Held(u)
      BY <1>2 DEF Held
    <2>. QED
      BY <2>1, <2>2
  <1>6. OnlyTheTopWaits'
    <2>1. \A u \in Threads : Settled(stack'[u])
      BY <1>2, <1>3, StackSettled
    <2>. QED
      BY <2>1 DEF OnlyTheTopWaits, Settled
  <1>. QED
    BY <1>1, <1>2, <1>3, <1>5, <1>6 DEF TypeOK

\* The innermost invocation of t goes on.
LEMMA Replace ==
  ASSUME TypeOK, OnlyTheTopWaits, NEW t \in Threads, NEW e \in InvocationType,
         stack[t] # <<>>, stack' = ReplaceTop(t, e)
  PROVE  /\ stack' \in [Threads -> Seq(InvocationType)]
         /\ OnlyTheTopWaits'
         /\ Held(t) \in Nat /\ Held(t)' \in Nat
         /\ Held(t)' + Weight(Top(t)) = Held(t) + Weight(e)
         /\ \A u \in Threads : u # t => stack'[u] = stack[u] /\ Held(u)' = Held(u)
         /\ stack'[t] # <<>> /\ Last(stack'[t]) = e
  <1>1. /\ stack[t] \in Seq(InvocationType) /\ Settled(stack[t])
        /\ Front(stack[t]) \in Seq(InvocationType)
    BY StackSettled, FrontLast DEF TypeOK
  <1>2. /\ stack'[t] = Append(Front(stack[t]), e)
        /\ \A u \in Threads : u # t => stack'[u] = stack[u]
    BY DEF TypeOK, ReplaceTop
  <1>3. /\ Settled(Front(stack[t]))
        /\ Front(stack[t]) = <<>> \/ Last(Front(stack[t])).pc = "running"
    BY <1>1, SettledFront
  <1>4. /\ Settled(stack'[t]) /\ stack'[t] \in Seq(InvocationType)
        /\ stack'[t] # <<>> /\ Last(stack'[t]) = e
    BY <1>1, <1>2, <1>3, SettledAppend
  <1>. DEFINE below == Cardinality(InMonitor(Front(stack[t])))
  <1>5. /\ below \in Nat
        /\ Cardinality(InMonitor(stack[t])) = below + Weight(Top(t))
        /\ Cardinality(InMonitor(stack'[t])) = below + Weight(e)
    BY <1>1, <1>2, InMonitorFront, InMonitorAppend DEF Top
  <1>6. Held(t) = below + Weight(Top(t)) /\ Held(t)' = below + Weight(e)
    BY <1>5 DEF Held, InMonitor
  <1>7. /\ Held(t) \in Nat /\ Held(t)' \in Nat
        /\ Held(t)' + Weight(Top(t)) = Held(t) + Weight(e)
    <2>1. Weight(Top(t)) \in Nat /\ Weight(e) \in Nat
      BY DEF Weight
    <2>. HIDE DEF below
    <2>. QED
      BY <2>1, <1>5, <1>6
  <1>8. OnlyTheTopWaits'
    <2>1. \A u \in Threads : Settled(stack'[u])
      BY <1>2, <1>4, StackSettled
    <2>. QED
      BY <2>1 DEF OnlyTheTopWaits, Settled
  <1>9. \A u \in Threads : u # t => Held(u)' = Held(u)
    BY <1>2 DEF Held
  <1>. QED
    BY <1>1, <1>2, <1>4, <1>7, <1>8, <1>9 DEF TypeOK, ReplaceTop

\* The innermost invocation of t returns.
LEMMA Pop ==
  ASSUME TypeOK, OnlyTheTopWaits, NEW t \in Threads, stack[t] # <<>>,
         stack' = [stack EXCEPT ![t] = Front(@)]
  PROVE  /\ stack' \in [Threads -> Seq(InvocationType)]
         /\ OnlyTheTopWaits'
         /\ Held(t) \in Nat /\ Held(t)' \in Nat
         /\ Held(t) = Held(t)' + Weight(Top(t))
         /\ \A u \in Threads : u # t => stack'[u] = stack[u] /\ Held(u)' = Held(u)
         /\ stack'[t] = <<>> \/ Last(stack'[t]).pc = "running"
  <1>1. /\ stack[t] \in Seq(InvocationType) /\ Settled(stack[t])
        /\ Front(stack[t]) \in Seq(InvocationType)
    BY StackSettled, FrontLast DEF TypeOK
  <1>2. /\ stack'[t] = Front(stack[t])
        /\ \A u \in Threads : u # t => stack'[u] = stack[u]
    BY DEF TypeOK
  <1>3. Settled(stack'[t]) /\ (stack'[t] = <<>> \/ Last(stack'[t]).pc = "running")
    BY <1>1, <1>2, SettledFront
  <1>4. /\ Cardinality(InMonitor(stack'[t])) \in Nat
        /\ Cardinality(InMonitor(stack[t])) = Cardinality(InMonitor(stack'[t])) + Weight(Top(t))
    BY <1>1, <1>2, InMonitorFront DEF Top
  <1>5. Held(t) = Held(t)' + Weight(Top(t)) /\ Held(t)' \in Nat
    BY <1>4 DEF Held, InMonitor
  <1>6. Held(t) \in Nat
    BY <1>5 DEF Weight
  <1>7. OnlyTheTopWaits'
    <2>1. \A u \in Threads : Settled(stack'[u])
      BY <1>2, <1>3, StackSettled
    <2>. QED
      BY <2>1 DEF OnlyTheTopWaits, Settled
  <1>8. \A u \in Threads : u # t => Held(u)' = Held(u)
    BY <1>2 DEF Held
  <1>. QED
    BY <1>1, <1>2, <1>3, <1>5, <1>6, <1>7, <1>8 DEF TypeOK

\* The monitor is left alone by a step that leaves no synchronized block.
LEMMA MonitorUntouched ==
  ASSUME MonitorMatchesCalls, monitor' = monitor,
         \A u \in Threads : Held(u)' = Held(u)
  PROVE  MonitorMatchesCalls'
  BY DEF MonitorMatchesCalls

\* A thread that throws leaves all its invocations and exactly the synchronized
\* blocks it was in (Function.java:145-151).
LEMMA ThrowStep ==
  ASSUME IInv, NEW t \in Threads, Throw(t, Held(t)), UNCHANGED cache
  PROVE  IInv'
  <1>1. /\ stack'[t] = <<>>
        /\ \A u \in Threads : u # t => stack'[u] = stack[u]
        /\ stack' \in [Threads -> Seq(InvocationType)]
        /\ budget' \in [Threads -> 0 .. MaxCalls]
        /\ UNCHANGED <<registered, current, classFile, withdrawn>>
    BY EmptySeq, RegistryAssumption DEF Throw, IInv, TypeOK, RegistryAssumption
  <1>2. /\ Held(t)' = 0
        /\ \A u \in Threads : u # t => Held(u)' = Held(u)
    BY <1>1, NobodyInMonitor DEF Held, InMonitor
  <1>3. Held(t) \in Nat
    <2>1. CASE stack[t] = <<>>
      BY <2>1, NobodyInMonitor DEF Held, InMonitor
    <2>2. CASE stack[t] # <<>>
      <3>1. stack[t] \in Seq(InvocationType)
        BY DEF IInv, TypeOK
      <3>2. /\ Cardinality(InMonitor(Front(stack[t]))) \in Nat
            /\ Cardinality(InMonitor(stack[t]))
                 = Cardinality(InMonitor(Front(stack[t]))) + Weight(Last(stack[t]))
        BY <2>2, <3>1, InMonitorFront
      <3>3. Cardinality(InMonitor(stack[t])) \in Nat
        BY <3>2 DEF Weight
      <3>. QED
        BY <3>3 DEF Held, InMonitor
    <2>. QED
      BY <2>1, <2>2
  <1>4. /\ monitor \in [owner : Threads \cup {Nobody}, count : Nat]
        /\ Held(t) = IF monitor.owner = t THEN monitor.count ELSE 0
        /\ monitor.owner = Nobody <=> monitor.count = 0
        /\ t # Nobody
    BY RegistryAssumption DEF IInv, TypeOK, MonitorMatchesCalls, RegistryAssumption
  <1>5. /\ monitor' \in [owner : Threads \cup {Nobody}, count : Nat]
        /\ MonitorMatchesCalls'
    <2>1. CASE Held(t) > 0
      <3>1. monitor.owner = t /\ Held(t) = monitor.count
        BY <2>1, <1>4
      <3>2. monitor' = [owner |-> Nobody, count |-> 0]
        BY <2>1, <3>1, <1>4 DEF Throw, ExitMonitor
      <3>3. \A u \in Threads : Held(u)' = 0
        BY <3>1, <1>2 DEF IInv, MonitorMatchesCalls
      <3>. QED
        BY <3>2, <3>3, RegistryAssumption DEF MonitorMatchesCalls, RegistryAssumption
    <2>2. CASE Held(t) = 0
      <3>1. monitor' = monitor
        BY <2>2 DEF Throw
      <3>2. \A u \in Threads : Held(u)' = Held(u)
        BY <2>2, <1>2
      <3>. QED
        BY <3>1, <3>2, <1>4, MonitorUntouched DEF IInv
    <2>. QED
      BY <2>1, <2>2, <1>3
  <1>6. TypeOK'
    BY <1>1, <1>5 DEF IInv, TypeOK
  <1>7. OnlyTheTopWaits'
    <2>1. DOMAIN stack'[t] = {}
      BY <1>1
    <2>. QED
      BY <2>1, <1>1 DEF IInv, OnlyTheTopWaits
  <1>8. NullOnlyAfterWithdrawal'
    BY <1>1 DEF IInv, NullOnlyAfterWithdrawal, TopIs, Top
  <1>. QED
    BY <1>5, <1>6, <1>7, <1>8 DEF IInv

-----------------------------------------------------------------------------
(* One lemma per step. *)

LEMMA InitIInv == Init => IInv
  <1>. SUFFICES ASSUME Init PROVE IInv
    OBVIOUS
  <1>1. TypeOK
    BY EmptySeq, RegistryAssumption DEF Init, TypeOK, RegistryAssumption
  <1>2. \A t \in Threads : stack[t] = <<>> /\ DOMAIN stack[t] = {}
    BY DEF Init
  <1>3. \A t \in Threads : Held(t) = 0
    BY <1>2, NobodyInMonitor DEF Held, InMonitor
  <1>4. MonitorMatchesCalls
    BY <1>3 DEF Init, MonitorMatchesCalls
  <1>. QED
    BY <1>1, <1>2, <1>4 DEF IInv, OnlyTheTopWaits, NullOnlyAfterWithdrawal, TopIs

\* put, remove, clear and SetLoader: no invocation of any thread changes.
LEMMA RegistrationStep ==
  ASSUME IInv, UNCHANGED <<cache, monitor, stack, budget>>,
         current' \in [Threads -> Loaders], classFile' \in ClassFiles \cup {NoFile},
         registered' \subseteq Signatures,
         withdrawn' \in [Threads -> SUBSET Signatures],
         \A t \in Threads : registered \subseteq registered' \cup withdrawn'[t],
         \A t \in Threads : withdrawn[t] \subseteq withdrawn'[t]
  PROVE  IInv'
  <1>1. TypeOK'
    BY DEF IInv, TypeOK
  <1>2. OnlyTheTopWaits' /\ MonitorMatchesCalls'
    BY DEF IInv, OnlyTheTopWaits, MonitorMatchesCalls, Held
  <1>3. NullOnlyAfterWithdrawal'
    <2>. SUFFICES ASSUME NEW t \in Threads, TopIs(t, "external", "checked")',
                         Last(stack'[t]).target \notin registered'
                  PROVE  Last(stack'[t]).target \in withdrawn'[t]
      BY DEF NullOnlyAfterWithdrawal, Top
    <2>1. TopIs(t, "external", "checked") /\ Last(stack'[t]) = Top(t)
      BY DEF TopIs, Top
    <2>2. Top(t).target \in registered => Top(t).target \in withdrawn'[t]
      BY <2>1
    <2>3. Top(t).target \notin registered => Top(t).target \in withdrawn[t]
      BY <2>1 DEF IInv, NullOnlyAfterWithdrawal
    <2>. QED
      BY <2>1, <2>2, <2>3
  <1>. QED
    BY <1>1, <1>2, <1>3 DEF IInv

\* A thread that gets a new innermost invocation, outside the monitor.
LEMMA PushStep ==
  ASSUME IInv, NEW t \in Threads, NEW e \in InvocationType,
         stack[t] = <<>> \/ Top(t).pc = "running", Weight(e) = 0,
         e.kind = "external" /\ e.pc = "checked" => e.target \in registered,
         stack' = [stack EXCEPT ![t] = Append(@, e)],
         budget' \in [Threads -> 0 .. MaxCalls],
         withdrawn' \in [Threads -> SUBSET Signatures],
         \A u \in Threads : u # t => withdrawn'[u] = withdrawn[u],
         UNCHANGED <<registered, cache, monitor, current, classFile>>
  PROVE  IInv'
  <1>1. /\ stack' \in [Threads -> Seq(InvocationType)]
        /\ OnlyTheTopWaits'
        /\ \A u \in Threads : Held(u)' = Held(u)
        /\ \A u \in Threads : u # t => stack'[u] = stack[u]
        /\ stack'[t] # <<>> /\ Last(stack'[t]) = e
    BY Push DEF IInv
  <1>2. TypeOK'
    BY <1>1 DEF IInv, TypeOK
  <1>3. MonitorMatchesCalls'
    BY <1>1, MonitorUntouched DEF IInv
  <1>4. NullOnlyAfterWithdrawal'
    BY <1>1 DEF IInv, NullOnlyAfterWithdrawal, TopIs, Top
  <1>. QED
    BY <1>1, <1>2, <1>3, <1>4 DEF IInv

\* The invocations of the model are invocations, and weigh nothing at first.
LEMMA Invocations ==
  /\ \A fn \in Functions : Java(fn) \in InvocationType /\ Weight(Java(fn)) = 0
                           /\ Java(fn).kind # "external"
  /\ \A sig \in Signatures : External(sig) \in InvocationType /\ Weight(External(sig)) = 0
                             /\ External(sig).target = sig
  /\ \A f \in Names : Internal(f) \in InvocationType /\ Weight(Internal(f)) = 0
                      /\ Internal(f).kind # "external"
  BY DEF Java, External, Internal, InvocationType, Weight

\* Calls: from Java, of an external function, of a generated one.
LEMMA CallStep ==
  ASSUME IInv, NEW t \in Threads,
         \/ \E fn \in Functions : InvokeFromJava(t, fn)
         \/ \E sig \in Signatures : CheckExternal(t, sig)
         \/ \E f \in Names : CallInternal(t, f)
  PROVE  IInv'
  <1>1. ASSUME NEW fn \in Functions, InvokeFromJava(t, fn) PROVE IInv'
    <2>1. Append(<<>>, Java(fn)) = <<Java(fn)>>
      OBVIOUS
    <2>2. stack' = [stack EXCEPT ![t] = Append(@, Java(fn))]
      BY <1>1, <2>1 DEF InvokeFromJava
    <2>3. budget' \in [Threads -> 0 .. MaxCalls]
      BY <1>1, RegistryAssumption DEF InvokeFromJava, IInv, TypeOK, RegistryAssumption
    <2>. QED
      BY <1>1, <2>2, <2>3, Invocations, PushStep DEF InvokeFromJava, IInv, TypeOK
  <1>2. ASSUME NEW e, Call(t, e)
        PROVE  /\ Top(t).pc = "running"
               /\ budget' \in [Threads -> 0 .. MaxCalls]
               /\ stack' = [stack EXCEPT ![t] = Append(@, e)]
    <2>1. budget[t] \in 0 .. MaxCalls /\ budget[t] > 0 /\ MaxCalls \in Nat
      BY <1>2, RegistryAssumption DEF Call, IInv, TypeOK, RegistryAssumption
    <2>2. budget[t] - 1 \in 0 .. MaxCalls
      BY <2>1
    <2>. QED
      BY <1>2, <2>2 DEF Call, InGeneratedCode, TopIs, IInv, TypeOK
  <1>3. ASSUME NEW sig \in Signatures, CheckExternal(t, sig) PROVE IInv'
    <2>1. Call(t, External(sig)) /\ sig \in registered
      BY <1>3 DEF CheckExternal
    <2>2. /\ withdrawn' \in [Threads -> SUBSET Signatures]
          /\ \A u \in Threads : u # t => withdrawn'[u] = withdrawn[u]
          /\ UNCHANGED <<registered, cache, monitor, current, classFile>>
      BY <1>3 DEF CheckExternal, IInv, TypeOK
    <2>. QED
      BY <2>1, <2>2, <1>2, Invocations, PushStep
  <1>4. ASSUME NEW f \in Names, CallInternal(t, f) PROVE IInv'
    <2>1. Call(t, Internal(f)) /\ UNCHANGED <<registered, cache, monitor, current, classFile, withdrawn>>
      BY <1>4 DEF CallInternal
    <2>2. /\ Top(t).pc = "running"
          /\ budget' \in [Threads -> 0 .. MaxCalls]
          /\ stack' = [stack EXCEPT ![t] = Append(@, Internal(f))]
      BY <2>1, <1>2
    <2>3. /\ withdrawn' \in [Threads -> SUBSET Signatures]
          /\ \A u \in Threads : u # t => withdrawn'[u] = withdrawn[u]
      BY <2>1 DEF IInv, TypeOK
    <2>. QED
      BY <2>1, <2>2, <2>3, Invocations, PushStep
  <1>. QED
    BY <1>1, <1>3, <1>4

\* The second read of the map finds the function.
LEMMA FetchStep ==
  ASSUME IInv, NEW t \in Threads, FetchExternal(t)
  PROVE  IInv'
  <1>. DEFINE e == [Top(t) EXCEPT !.pc = "running"]
  <1>1. stack[t] # <<>> /\ Top(t).kind = "external" /\ Top(t).pc = "checked"
    BY DEF FetchExternal, TopIs
  <1>2. Top(t) \in InvocationType
    BY <1>1, FrontLast DEF IInv, TypeOK, Top
  <1>3. /\ e \in InvocationType /\ e.kind = "external" /\ e.pc = "running"
        /\ Weight(e) = 0 /\ Weight(Top(t)) = 0
    BY <1>1, <1>2 DEF InvocationType, Weight
  <1>4. /\ stack' = ReplaceTop(t, e)
        /\ UNCHANGED <<registered, cache, monitor, current, classFile, budget, withdrawn>>
    BY DEF FetchExternal
  <1>. HIDE DEF e
  <1>5. /\ stack' \in [Threads -> Seq(InvocationType)]
        /\ OnlyTheTopWaits'
        /\ Held(t) \in Nat /\ Held(t)' \in Nat
        /\ Held(t)' + Weight(Top(t)) = Held(t) + Weight(e)
        /\ \A u \in Threads : u # t => stack'[u] = stack[u] /\ Held(u)' = Held(u)
        /\ stack'[t] # <<>> /\ Last(stack'[t]) = e
    BY <1>1, <1>3, <1>4, Replace DEF IInv
  <1>6. \A u \in Threads : Held(u)' = Held(u)
    <2>1. Held(t)' = Held(t)
      BY <1>3, <1>5
    <2>. QED
      BY <2>1, <1>5
  <1>7. TypeOK'
    BY <1>4, <1>5 DEF IInv, TypeOK
  <1>8. MonitorMatchesCalls'
    BY <1>4, <1>6, MonitorUntouched DEF IInv
  <1>9. NullOnlyAfterWithdrawal'
    BY <1>3, <1>4, <1>5 DEF IInv, NullOnlyAfterWithdrawal, TopIs, Top
  <1>. QED
    BY <1>5, <1>7, <1>8, <1>9 DEF IInv

\* RemoveAt makes a sequence shorter by one.
LEMMA RemoveAtProperties ==
  ASSUME NEW S, NEW s \in Seq(S), NEW i \in DOMAIN s
  PROVE  RemoveAt(s, i) \in Seq(S) /\ Len(RemoveAt(s, i)) = Len(s) - 1
  <1>. DEFINE n == Len(s)
              a == SubSeq(s, 1, i - 1)
              b == SubSeq(s, i + 1, n)
  <1>1. n \in Nat /\ DOMAIN s = 1 .. n
    BY LenProperties
  <1>2. \A j \in 1 .. n : s[j] \in S
    BY ElementOfSeq
  <1>. HIDE DEF n
  <1>3. /\ i \in 1 .. n /\ i - 1 \in Int /\ i + 1 \in Int /\ n \in Int
        /\ 1 .. i - 1 \subseteq 1 .. n /\ i + 1 .. n \subseteq 1 .. n
    BY <1>1
  <1>4. /\ \A j \in 1 .. i - 1 : s[j] \in S
        /\ \A j \in i + 1 .. n : s[j] \in S
    BY <1>2, <1>3
  <1>5. a \in Seq(S) /\ Len(a) = IF 1 <= i - 1 THEN i - 1 - 1 + 1 ELSE 0
    BY <1>3, <1>4, SubSeqProperties
  <1>6. b \in Seq(S) /\ Len(b) = IF i + 1 <= n THEN n - (i + 1) + 1 ELSE 0
    BY <1>3, <1>4, SubSeqProperties
  <1>. HIDE DEF a, b
  <1>7. a \o b \in Seq(S) /\ Len(a \o b) = Len(a) + Len(b)
    BY <1>5, <1>6, ConcatProperties
  <1>8. Len(a) + Len(b) = n - 1
    BY <1>1, <1>3, <1>5, <1>6
  <1>. QED
    BY <1>7, <1>8 DEF RemoveAt, a, b, n

\* A loaded method does not make the cache exceed its size.
LEMMA CacheKeepsItsSize ==
  ASSUME TypeOK, NEW f \in Names, NEW method \in Functions, CacheLoaded(f, method)
  PROVE  cache' \in Seq([key : Names, method : Functions]) /\ Len(cache') <= CacheSize
  <1>. DEFINE E == [key : Names, method : Functions]
              filled == Append(cache, [key |-> f, method |-> method])
  <1>1. cache \in Seq(E) /\ Len(cache) <= CacheSize /\ CacheSize \in Nat
    BY RegistryAssumption DEF TypeOK, RegistryAssumption
  <1>2. [key |-> f, method |-> method] \in E
    OBVIOUS
  <1>3. filled \in Seq(E) /\ Len(filled) = Len(cache) + 1 /\ Len(cache) \in Nat
    BY <1>1, <1>2, AppendProperties, LenProperties
  <1>4. CASE Len(filled) <= CacheSize /\ cache' = filled
    BY <1>3, <1>4
  <1>5. ASSUME NEW i \in DOMAIN filled, cache' = RemoveAt(filled, i)
        PROVE  cache' \in Seq(E) /\ Len(cache') <= CacheSize
    <2>1. cache' \in Seq(E) /\ Len(cache') = Len(filled) - 1
      BY <1>3, <1>5, RemoveAtProperties
    <2>. HIDE DEF filled, E
    <2>2. Len(cache') = Len(cache)
      BY <1>3, <2>1
    <2>. QED
      BY <1>1, <2>1, <2>2
  <1>6. CachedFor(f) = {}
    BY DEF CachedFor, PairEquals
  <1>. QED
    BY <1>4, <1>5, <1>6 DEF CacheLoaded

\* What a lookup yields is the function of the class it finds at that moment, as no
\* key is ever equal to one in the cache (Pair.java, ReflectionUtils.getClass).
LEMMA LookupLoads ==
  ASSUME NEW t \in Threads, NEW f
  PROVE  Resolved(t, f) = {<<ClassFound(t), f>>} \cap Functions
  BY DEF Resolved, CachedFor, PairEquals, LoadedFor

\* The thread gets into the monitor and its call runs (Function.java:145-148).
LEMMA EnterStep ==
  ASSUME IInv, NEW t \in Threads, EnterInternal(t)
  PROVE  IInv'
  <1>1. /\ stack[t] # <<>> /\ Top(t).kind = "internal" /\ Top(t).pc = "entering"
        /\ monitor.owner \in {t, Nobody}
    BY DEF EnterInternal, MayEnter, TopIs
  <1>2. Top(t) \in InvocationType
    BY <1>1, FrontLast DEF IInv, TypeOK, Top
  <1>3. Top(t).target \in Names /\ Weight(Top(t)) = 0
    BY <1>1, <1>2 DEF InvocationType, Weight
  <1>4. PICK method \in Functions :
          /\ CacheLoaded(Top(t).target, method)
          /\ stack' = ReplaceTop(t, [kind |-> "internal", pc |-> "running", target |-> method])
    BY LookupLoads DEF EnterInternal
  <1>5. /\ monitor' = [owner |-> t, count |-> monitor.count + 1]
        /\ UNCHANGED <<registered, current, classFile, budget, withdrawn>>
    BY DEF EnterInternal
  <1>. DEFINE e == [kind |-> "internal", pc |-> "running", target |-> method]
  <1>6. e \in InvocationType /\ Weight(e) = 1 /\ e.pc = "running"
    BY DEF InvocationType, Weight
  <1>7. /\ cache' \in Seq([key : Names, method : Functions]) /\ Len(cache') <= CacheSize
    BY <1>3, <1>4, CacheKeepsItsSize DEF IInv
  <1>8. stack' = ReplaceTop(t, e)
    BY <1>4
  <1>. HIDE DEF e
  <1>9. /\ stack' \in [Threads -> Seq(InvocationType)]
        /\ OnlyTheTopWaits'
        /\ Held(t) \in Nat /\ Held(t)' \in Nat
        /\ Held(t)' + Weight(Top(t)) = Held(t) + Weight(e)
        /\ \A u \in Threads : u # t => stack'[u] = stack[u] /\ Held(u)' = Held(u)
        /\ stack'[t] # <<>> /\ Last(stack'[t]) = e
    BY <1>1, <1>6, <1>8, Replace DEF IInv
  <1>10. Held(t)' = Held(t) + 1
    BY <1>3, <1>6, <1>9
  <1>11. /\ monitor \in [owner : Threads \cup {Nobody}, count : Nat]
         /\ \A u \in Threads : Held(u) = IF monitor.owner = u THEN monitor.count ELSE 0
         /\ monitor.owner = Nobody <=> monitor.count = 0
         /\ Nobody \notin Threads
    BY RegistryAssumption DEF IInv, TypeOK, MonitorMatchesCalls, RegistryAssumption
  <1>12. Held(t) = monitor.count /\ \A u \in Threads : u # t => Held(u) = 0
    BY <1>1, <1>11
  <1>13. monitor.count + 1 \in Nat /\ monitor.count + 1 # 0
    BY <1>11
  <1>14. TypeOK'
    BY <1>5, <1>7, <1>9, <1>13 DEF IInv, TypeOK
  <1>15. MonitorMatchesCalls'
    BY <1>5, <1>9, <1>10, <1>11, <1>12, <1>13 DEF MonitorMatchesCalls
  <1>16. NullOnlyAfterWithdrawal'
    BY <1>5, <1>6, <1>9 DEF IInv, NullOnlyAfterWithdrawal, TopIs, Top
  <1>. QED
    BY <1>9, <1>14, <1>15, <1>16 DEF IInv

\* A return leaves the synchronized block of its own call, if it was in one.
LEMMA ReturnStep ==
  ASSUME IInv, NEW t \in Threads, Return(t)
  PROVE  IInv'
  <1>1. /\ stack[t] # <<>> /\ Top(t).pc = "running"
        /\ stack' = [stack EXCEPT ![t] = Front(@)]
        /\ IF Top(t).kind = "internal" THEN ExitMonitor(1) ELSE UNCHANGED monitor
        /\ UNCHANGED <<registered, cache, current, classFile, budget, withdrawn>>
    BY DEF Return
  <1>2. /\ stack' \in [Threads -> Seq(InvocationType)]
        /\ OnlyTheTopWaits'
        /\ Held(t) \in Nat /\ Held(t)' \in Nat
        /\ Held(t) = Held(t)' + Weight(Top(t))
        /\ \A u \in Threads : u # t => stack'[u] = stack[u] /\ Held(u)' = Held(u)
        /\ stack'[t] = <<>> \/ Last(stack'[t]).pc = "running"
    BY <1>1, Pop DEF IInv
  <1>3. /\ monitor \in [owner : Threads \cup {Nobody}, count : Nat]
        /\ \A u \in Threads : Held(u) = IF monitor.owner = u THEN monitor.count ELSE 0
        /\ monitor.owner = Nobody <=> monitor.count = 0
        /\ Nobody \notin Threads
    BY RegistryAssumption DEF IInv, TypeOK, MonitorMatchesCalls, RegistryAssumption
  <1>4. monitor' \in [owner : Threads \cup {Nobody}, count : Nat] /\ MonitorMatchesCalls'
    <2>1. CASE Top(t).kind # "internal"
      <3>1. Weight(Top(t)) = 0 /\ monitor' = monitor
        BY <2>1, <1>1 DEF Weight
      <3>2. Held(t)' = Held(t)
        BY <3>1, <1>2
      <3>. QED
        BY <3>1, <3>2, <1>2, <1>3, MonitorUntouched DEF IInv
    <2>2. CASE Top(t).kind = "internal"
      <3>1. Weight(Top(t)) = 1 /\ ExitMonitor(1)
        BY <2>2, <1>1 DEF Weight
      <3>2. Held(t)' = Held(t) - 1 /\ Held(t) # 0
        BY <3>1, <1>2
      <3>3. /\ monitor.owner = t /\ monitor.count = Held(t)
            /\ monitor.count \in Nat
        BY <3>2, <1>3
      <3>4. \A u \in Threads : u # t => Held(u)' = 0
        BY <3>3, <1>2, <1>3
      <3>5. CASE monitor.count > 1
        <4>1. monitor' = [monitor EXCEPT !.count = @ - 1]
          BY <3>1, <3>5 DEF ExitMonitor
        <4>2. monitor.count - 1 \in Nat /\ monitor.count - 1 # 0
          BY <3>3, <3>5
        <4>3. monitor'.owner = t /\ monitor'.count = Held(t)'
          BY <4>1, <3>2, <3>3, <1>3
        <4>. QED
          BY <4>1, <4>2, <4>3, <3>2, <3>3, <3>4, <1>3 DEF MonitorMatchesCalls
      <3>6. CASE ~(monitor.count > 1)
        <4>1. monitor' = [owner |-> Nobody, count |-> 0]
          BY <3>1, <3>6 DEF ExitMonitor
        <4>2. Held(t)' = 0
          BY <3>2, <3>3, <3>6, <1>2
        <4>. QED
          BY <4>1, <4>2, <3>4, <1>3 DEF MonitorMatchesCalls
      <3>. QED
        BY <3>5, <3>6
    <2>. QED
      BY <2>1, <2>2
  <1>5. TypeOK'
    BY <1>1, <1>2, <1>4 DEF IInv, TypeOK
  <1>6. NullOnlyAfterWithdrawal'
    BY <1>1, <1>2 DEF IInv, NullOnlyAfterWithdrawal, TopIs, Top
  <1>. QED
    BY <1>2, <1>4, <1>5, <1>6 DEF IInv

\* Every step, and every stutter, keeps the invariant.
LEMMA NextIInv == IInv /\ [Next]_vars => IInv'
  <1>. SUFFICES ASSUME IInv, [Next]_vars PROVE IInv'
    OBVIOUS
  <1>1. CASE UNCHANGED vars
    BY <1>1, RegistrationStep DEF vars, IInv, TypeOK
  <1>2. ASSUME NEW sig \in Signatures, put(sig) PROVE IInv'
    BY <1>2, RegistrationStep DEF put, IInv, TypeOK
  <1>3. ASSUME NEW sigs \in SUBSET Signatures, Withdraw(sigs) PROVE IInv'
    <2>1. withdrawn' = [t \in Threads |-> withdrawn[t] \cup (registered \cap sigs)]
      BY <1>3 DEF Withdraw
    <2>. QED
      BY <2>1, <1>3, RegistrationStep DEF Withdraw, IInv, TypeOK
  <1>4. ASSUME NEW t \in Threads, NEW l \in Loaders, SetLoader(t, l) PROVE IInv'
    BY <1>4, RegistrationStep DEF SetLoader, IInv, TypeOK
  <1>5. ASSUME NEW c \in ClassFiles \cup {NoFile}, SetClassFile(c) PROVE IInv'
    BY <1>5, RegistrationStep DEF SetClassFile, IInv, TypeOK
  <1>6. ASSUME NEW t \in Threads, NEW fn \in Functions, InvokeFromJava(t, fn) PROVE IInv'
    BY <1>6, CallStep
  <1>7. ASSUME NEW t \in Threads, Step(t) PROVE IInv'
    <2>1. CASE \E sig \in Signatures : CheckExternal(t, sig)
      BY <2>1, CallStep
    <2>2. CASE \E f \in Names : CallInternal(t, f)
      BY <2>2, CallStep
    <2>3. CASE \E sig \in Signatures : UnknownExternal(t, sig)
      BY <2>3, ThrowStep DEF UnknownExternal
    <2>4. CASE FetchNull(t) \/ InternalNotFound(t) \/ BodyThrows(t)
      BY <2>4, ThrowStep DEF FetchNull, InternalNotFound, BodyThrows
    <2>5. CASE FetchExternal(t)
      BY <2>5, FetchStep
    <2>6. CASE EnterInternal(t)
      BY <2>6, EnterStep
    <2>7. CASE Return(t)
      BY <2>7, ReturnStep
    <2>. QED
      BY <1>7, <2>1, <2>2, <2>3, <2>4, <2>5, <2>6, <2>7 DEF Step
  <1>. QED
    BY <1>1, <1>2, <1>3, <1>4, <1>5, <1>6, <1>7 DEF Next, remove, clear

-----------------------------------------------------------------------------
(* Theorems. *)

\* The inductive invariant holds in every state of the registry.
THEOREM Invariance == Spec => []IInv
  BY InitIInv, NextIInv, PTL DEF Spec

\* The state has its type, and a full cache stays at its size (Function.java:52-64).
THEOREM TypeCorrect == Spec => []TypeOK
  <1>1. IInv => TypeOK
    BY DEF IInv
  <1>. QED
    BY <1>1, Invariance, PTL

\* The monitor is held by exactly the thread that runs functions called by class
\* name, once for each such call (Function.java:142-152).
THEOREM MonitorFollowsCalls == Spec => []MonitorMatchesCalls
  <1>1. IInv => MonitorMatchesCalls
    BY DEF IInv
  <1>. QED
    BY <1>1, Invariance, PTL

\* A call finds null after it found the key only if the function was withdrawn in
\* between (Function.java:156-157).
THEOREM NullNeedsWithdrawal == Spec => []NullOnlyAfterWithdrawal
  <1>1. IInv => NullOnlyAfterWithdrawal
    BY DEF IInv
  <1>. QED
    BY <1>1, Invariance, PTL

\* A call by class name runs the function of the class the lookup finds at that
\* moment, the class file before the current loader, and fails if and only if that
\* class lacks it: for any loaders, class files and cache (Function.java:52-64,
\* ReflectionUtils.java:50-63).
THEOREM CallsResolveAfresh == Spec => ResolvesAfresh
  <1>. DEFINE Found(t) == <<ClassFound(t), Top(t).target>>
              Resolves ==
                \A t \in Threads :
                  MayEnter(t) /\ stack'[t] # stack[t]
                    => LET fn == <<ClassFound(t), Top(t).target>> IN
                       IF fn \in Functions THEN stack'[t] # <<>> /\ Last(stack'[t]).target = fn
                       ELSE stack'[t] = <<>>
  <1>1. IInv /\ [Next]_vars => [Resolves]_vars
    <2>. SUFFICES ASSUME IInv, Next, NEW t \in Threads, MayEnter(t), stack'[t] # stack[t]
                  PROVE  IF Found(t) \in Functions
                         THEN stack'[t] # <<>> /\ Last(stack'[t]).target = Found(t)
                         ELSE stack'[t] = <<>>
      OBVIOUS
    <2>1. /\ stack[t] # <<>> /\ Top(t).kind = "internal" /\ Top(t).pc = "entering"
          /\ stack \in [Threads -> Seq(InvocationType)]
      BY DEF MayEnter, TopIs, IInv, TypeOK
    <2>2. EnterInternal(t) \/ InternalNotFound(t)
      <3>1. \A sig : ~put(sig) /\ ~remove(sig)
        BY DEF put, remove, Withdraw
      <3>2. ~clear /\ (\A u, l : ~SetLoader(u, l)) /\ \A c : ~SetClassFile(c)
        BY DEF clear, Withdraw, SetLoader, SetClassFile
      <3>3. ASSUME NEW u \in Threads, NEW fn, InvokeFromJava(u, fn) PROVE FALSE
        BY <2>1, <3>3 DEF InvokeFromJava
      <3>4. ASSUME NEW u \in Threads, Step(u) PROVE u = t
        BY <2>1, <3>4 DEF Step, CheckExternal, UnknownExternal, FetchExternal, FetchNull,
           CallInternal, EnterInternal, InternalNotFound, Return, BodyThrows, Call, Throw,
           ReplaceTop
      <3>5. Step(t)
        BY <3>1, <3>2, <3>3, <3>4 DEF Next
      <3>6. /\ \A sig : ~CheckExternal(t, sig) /\ ~UnknownExternal(t, sig)
            /\ \A f : ~CallInternal(t, f)
        BY <2>1 DEF CheckExternal, UnknownExternal, CallInternal, Call, InGeneratedCode, TopIs
      <3>7. ~FetchExternal(t) /\ ~FetchNull(t) /\ ~Return(t) /\ ~BodyThrows(t)
        BY <2>1 DEF FetchExternal, FetchNull, Return, BodyThrows, TopIs
      <3>. QED
        BY <3>5, <3>6, <3>7 DEF Step
    <2>. HIDE DEF Found
    <2>3. Resolved(t, Top(t).target) = {Found(t)} \cap Functions
      BY LookupLoads DEF Found
    <2>4. CASE EnterInternal(t)
      <3>1. PICK method \in Resolved(t, Top(t).target) :
              stack' = ReplaceTop(t, [kind |-> "internal", pc |-> "running", target |-> method])
        BY <2>4 DEF EnterInternal
      <3>2. method = Found(t) /\ method \in Functions
        BY <2>3, <3>1
      <3>3. [kind |-> "internal", pc |-> "running", target |-> method] \in InvocationType
        BY <3>2 DEF InvocationType
      <3>4. /\ stack'[t] # <<>>
            /\ Last(stack'[t]) = [kind |-> "internal", pc |-> "running", target |-> method]
        BY <2>1, <3>1, <3>3, Replace DEF IInv
      <3>. QED
        BY <3>2, <3>4
    <2>5. CASE InternalNotFound(t)
      <3>1. Found(t) \notin Functions
        BY <2>3, <2>5 DEF InternalNotFound
      <3>2. stack'[t] = <<>>
        BY <2>1, <2>5 DEF InternalNotFound, Throw
      <3>. QED
        BY <3>1, <3>2
    <2>. QED
      BY <2>2, <2>4, <2>5
  <1>. QED
    BY <1>1, Invariance, PTL DEF Spec, ResolvesAfresh
=============================================================================
