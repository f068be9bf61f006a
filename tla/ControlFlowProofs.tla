-------------------------- MODULE ControlFlowProofs --------------------------
(***************************************************************************)
(* The code of ControlFlow is right for every well-formed function in      *)
(* which undef is an operand of phi instructions only.                     *)
(*                                                                         *)
(* The argument is a logic of assertions over straight pieces of emitted   *)
(* code: Triple(p, c, P, Q) says that c, started in a state of P, runs     *)
(* without lacking an operand until it leaves through a jump, to a label   *)
(* whose assertion then holds, or at its end in a state of Q.  Each        *)
(* printer gets its triple, sequences of pieces are put together with the  *)
(* rules for \o and FlattenSeq, and the triple of the whole function is    *)
(* the invariant.                                                          *)
(***************************************************************************)
EXTENDS ControlFlow, Integers, SequenceTheorems, WellFoundedInduction, TLAPS

-----------------------------------------------------------------------------
(* Induction over the natural numbers, as a statement about sets. *)

\* A set of natural numbers that is not empty has a least element.
LEMMA LeastElement ==
  ASSUME NEW T \in SUBSET Nat, T # {}
  PROVE  \E n \in T : \A m \in T : n <= m
<1> DEFINE R == OpToRel(<, Nat)
<1>1. IsWellFoundedOn(R, Nat)
  BY NatLessThanWellFounded
<1>2. \A x, y \in Nat : <<y, x>> \in R <=> y < x
  BY DEF OpToRel
<1> HIDE DEF R
<1>3. PICK x \in T : \A y \in T : ~(<<y, x>> \in R)
  BY <1>1, WFMin
<1>4. ASSUME NEW y \in T PROVE x <= y
  <2>1. ~(y < x)
    BY <1>2, <1>3
  <2> QED
    BY <2>1
<1> QED
  BY <1>4

\* A set with 0 that is closed under the successor holds every natural number.
LEMMA SetInduction ==
  ASSUME NEW S, 0 \in S, \A n \in Nat : n \in S => n + 1 \in S
  PROVE  Nat \subseteq S
<1> DEFINE T == {n \in Nat : n \notin S}
<1> SUFFICES ASSUME T # {} PROVE FALSE
  OBVIOUS
<1>1. PICK n \in T : \A m \in T : n <= m
  BY LeastElement
<1>2. n # 0 /\ n \in Nat
  OBVIOUS
<1>3. n - 1 \in Nat /\ ~(n <= n - 1) /\ (n - 1) + 1 = n
  BY <1>2
<1>4. n - 1 \in S
  BY <1>1, <1>3
<1> QED
  BY <1>3, <1>4

-----------------------------------------------------------------------------
(* Pieces of code are sequences of whatever they consist of. *)

\* A function over the first n numbers is a sequence of length n.
LEMMA FunctionIsSequence ==
  ASSUME NEW n \in Nat, NEW s, s = [i \in 1 .. n |-> s[i]]
  PROVE  IsSequence(s) /\ Len(s) = n /\ DOMAIN s = 1 .. n
<1>1. s \in [1 .. n -> ToSet(s)]
  BY DEF ToSet
<1>2. s \in Seq(ToSet(s))
  BY <1>1, SeqDef
<1>3. Len(s) \in Nat /\ DOMAIN s = 1 .. Len(s)
  BY <1>2, LenProperties
<1>4. DOMAIN s = 1 .. n
  BY <1>1
<1>5. Len(s) = n
  BY <1>3, <1>4
<1> QED
  BY <1>2, <1>4, <1>5 DEF IsSequence

\* A sequence is a function over the numbers up to its length.
LEMMA SequenceIsFunction ==
  ASSUME NEW s, IsSequence(s)
  PROVE  /\ Len(s) \in Nat
         /\ DOMAIN s = 1 .. Len(s)
         /\ s = [i \in 1 .. Len(s) |-> s[i]]
         /\ \A i \in 1 .. Len(s) : s[i] \in ToSet(s)
<1>1. s \in Seq(ToSet(s))
  BY DEF IsSequence
<1>2. Len(s) \in Nat /\ s \in [1 .. Len(s) -> ToSet(s)] /\ DOMAIN s = 1 .. Len(s)
  BY <1>1, LenProperties
<1> QED
  BY <1>2

LEMMA SeqIsSequence ==
  ASSUME NEW S, NEW s \in Seq(S)
  PROVE  IsSequence(s)
<1>1. Len(s) \in Nat /\ s \in [1 .. Len(s) -> S]
  BY LenProperties
<1>2. s = [i \in 1 .. Len(s) |-> s[i]]
  BY <1>1
<1> QED
  BY <1>1, <1>2, FunctionIsSequence

LEMMA EmptyIsSequence == IsSequence(<<>>) /\ Len(<<>>) = 0
  BY DEF IsSequence, ToSet

LEMMA SingletonIsSequence ==
  ASSUME NEW x
  PROVE  /\ IsSequence(<<x>>) /\ Len(<<x>>) = 1 /\ <<x>>[1] = x
         /\ x \in ToSet(<<x>>)
<1>1. DOMAIN <<x>> = 1 .. 1 /\ <<x>>[1] = x /\ 1 \in 1 .. 1
  OBVIOUS
<1>2. x \in ToSet(<<x>>)
  BY <1>1 DEF ToSet
<1>3. <<x>> \in Seq(ToSet(<<x>>)) /\ Len(<<x>>) = 1
  BY <1>2
<1> QED
  BY <1>1, <1>2, <1>3 DEF IsSequence

\* What a concatenation is, and what is in it.
LEMMA ConcatIsSequence ==
  ASSUME NEW s, NEW t, IsSequence(s), IsSequence(t)
  PROVE  /\ IsSequence(s \o t)
         /\ Len(s \o t) = Len(s) + Len(t)
         /\ \A i \in 1 .. Len(s) : (s \o t)[i] = s[i]
         /\ \A i \in 1 .. Len(t) : (s \o t)[Len(s) + i] = t[i]
         /\ ToSet(s) \subseteq ToSet(s \o t)
         /\ ToSet(t) \subseteq ToSet(s \o t)
<1> DEFINE S == ToSet(s) \cup ToSet(t)
<1>1. s \in Seq(S) /\ t \in Seq(S)
  BY SeqMonotonic DEF IsSequence
<1>2. Len(s) \in Nat /\ Len(t) \in Nat /\ DOMAIN s = 1 .. Len(s) /\ DOMAIN t = 1 .. Len(t)
  BY SequenceIsFunction
<1> HIDE DEF S
<1>3. /\ s \o t \in Seq(S) /\ Len(s \o t) = Len(s) + Len(t)
      /\ \A i \in 1 .. Len(s) + Len(t) : (s \o t)[i] =
           IF i <= Len(s) THEN s[i] ELSE t[i - Len(s)]
  BY <1>1, ConcatProperties
<1>4. DOMAIN (s \o t) = 1 .. (Len(s) + Len(t)) /\ s \o t \in [1 .. (Len(s) + Len(t)) -> S]
  BY <1>3, LenProperties
<1>5. \A i \in 1 .. Len(s) : (s \o t)[i] = s[i] /\ i \in DOMAIN (s \o t)
  BY <1>2, <1>3, <1>4
<1>6. ASSUME NEW i \in 1 .. Len(t)
      PROVE  (s \o t)[Len(s) + i] = t[i] /\ Len(s) + i \in DOMAIN (s \o t)
  <2>1. /\ Len(s) + i \in 1 .. Len(s) + Len(t) /\ ~(Len(s) + i <= Len(s))
        /\ (Len(s) + i) - Len(s) = i
    BY <1>2
  <2> QED
    BY <1>3, <1>4, <2>1
<1>7. IsSequence(s \o t)
  BY <1>3, SeqIsSequence
<1>8. ToSet(s) \subseteq ToSet(s \o t)
  BY <1>2, <1>5 DEF ToSet
<1>9. ToSet(t) \subseteq ToSet(s \o t)
  BY <1>2, <1>6 DEF ToSet
<1> QED
  BY <1>3, <1>5, <1>6, <1>7, <1>8, <1>9
-----------------------------------------------------------------------------
(* FlattenSeq and FoldLeft, unfolded. *)

\* The recursive function that FlattenSeq chooses exists.
LEMMA FlattenChoice ==
  ASSUME NEW seqs, NEW n \in Nat
  PROVE  \E f : f = [i \in 1 .. n |-> IF i = 1 THEN seqs[i] ELSE f[i - 1] \o seqs[i]]
<1> DEFINE Flattens(f, m) == f = [i \in 1 .. m |->
                                    IF i = 1 THEN seqs[i] ELSE f[i - 1] \o seqs[i]]
           T == {m \in Nat : \E f : Flattens(f, m)}
<1>1. 0 \in T
  <2>1. <<>> = [i \in 1 .. 0 |-> IF i = 1 THEN seqs[i] ELSE <<>>[i - 1] \o seqs[i]]
    OBVIOUS
  <2> QED
    BY <2>1
<1>2. ASSUME NEW m \in Nat, m \in T PROVE m + 1 \in T
  <2>1. PICK f : f = [i \in 1 .. m |-> IF i = 1 THEN seqs[i] ELSE f[i - 1] \o seqs[i]]
    BY <1>2
  <2> DEFINE g == [i \in 1 .. m + 1 |-> IF i \in 1 .. m THEN f[i]
                                        ELSE IF i = 1 THEN seqs[i] ELSE f[i - 1] \o seqs[i]]
             h == [i \in 1 .. m + 1 |-> IF i = 1 THEN seqs[i] ELSE g[i - 1] \o seqs[i]]
  <2>2. ASSUME NEW i \in 1 .. m + 1 PROVE g[i] = h[i]
    <3>1. h[i] = IF i = 1 THEN seqs[i] ELSE g[i - 1] \o seqs[i]
      OBVIOUS
    <3>2. CASE i = 1
      <4>1. g[i] = seqs[i]
        BY <2>1, <3>2
      <4> QED
        BY <3>1, <3>2, <4>1
    <3>3. CASE i # 1
      <4>1. i - 1 \in 1 .. m /\ i - 1 \in 1 .. m + 1
        BY <3>3
      <4>2. g[i - 1] = f[i - 1]
        BY <4>1
      <4>3. g[i] = f[i - 1] \o seqs[i]
        <5>1. CASE i \in 1 .. m
          <6>1. g[i] = f[i]
            BY <5>1
          <6>2. f[i] = IF i = 1 THEN seqs[i] ELSE f[i - 1] \o seqs[i]
            BY <2>1, <5>1
          <6> QED
            BY <3>3, <6>1, <6>2
        <5>2. CASE i \notin 1 .. m
          BY <3>3, <5>2
        <5> QED
          BY <5>1, <5>2
      <4> QED
        BY <3>1, <3>3, <4>2, <4>3
    <3> QED
      BY <3>2, <3>3
  <2>3. g = h
    <3>1. DOMAIN g = 1 .. m + 1 /\ DOMAIN h = 1 .. m + 1
      OBVIOUS
    <3>2. g = [i \in 1 .. m + 1 |-> g[i]] /\ h = [i \in 1 .. m + 1 |-> h[i]]
      OBVIOUS
    <3> HIDE DEF g, h
    <3> QED
      BY <2>2, <3>2
  <2>4. Flattens(g, m + 1)
    <3> HIDE DEF g
    <3> QED
      BY <2>3
  <2> HIDE DEF g, Flattens
  <2> QED
    BY <2>4
<1> HIDE DEF T
<1>3. n \in T
  BY <1>1, <1>2, SetInduction
<1> QED
  BY <1>3 DEF T

\* FlattenSeq puts one sequence after the other.
LEMMA FlattenUnfolds ==
  ASSUME NEW seqs, IsSequence(seqs), \A i \in 1 .. Len(seqs) : IsSequence(seqs[i])
  PROVE  \E F : /\ F[0] = <<>>
                /\ \A k \in 1 .. Len(seqs) : F[k] = F[k - 1] \o seqs[k]
                /\ FlattenSeq(seqs) = F[Len(seqs)]
<1> DEFINE n == Len(seqs)
<1>1. n \in Nat
  BY SequenceIsFunction
<1>2. CASE n = 0
  <2> DEFINE F == [k \in {0} |-> <<>>]
  <2>1. FlattenSeq(seqs) = seqs
    BY <1>2 DEF FlattenSeq
  <2>2. seqs = <<>>
    BY <1>2, EmptySeq DEF IsSequence
  <2>3. F[0] = <<>> /\ (\A k \in 1 .. n : FALSE)
    BY <1>2
  <2> HIDE DEF F
  <2> QED
    BY <1>2, <2>1, <2>2, <2>3
<1>3. CASE n # 0
  <2> DEFINE flat == CHOOSE f : f = [i \in 1 .. n |->
                       IF i = 1 THEN seqs[i] ELSE f[i - 1] \o seqs[i]]
             F    == [k \in 0 .. n |-> IF k = 0 THEN <<>> ELSE flat[k]]
  <2>1. FlattenSeq(seqs) = flat[n]
    BY <1>3 DEF FlattenSeq
  <2>2. flat = [i \in 1 .. n |-> IF i = 1 THEN seqs[i] ELSE flat[i - 1] \o seqs[i]]
    BY <1>1, FlattenChoice
  <2> HIDE DEF flat
  <2>3. ASSUME NEW k \in 1 .. n PROVE F[k] = F[k - 1] \o seqs[k]
    <3>1. k \in 0 .. n /\ k - 1 \in 0 .. n /\ k # 0
      BY <1>1
    <3>2. F[k] = flat[k] /\ F[k - 1] = IF k - 1 = 0 THEN <<>> ELSE flat[k - 1]
      BY <3>1
    <3>3. flat[k] = IF k = 1 THEN seqs[k] ELSE flat[k - 1] \o seqs[k]
      BY <2>2
    <3>4. <<>> \o seqs[k] = seqs[k]
      BY ConcatEmptySeq DEF IsSequence
    <3>5. k - 1 = 0 <=> k = 1
      BY <1>1
    <3> HIDE DEF F
    <3> QED
      BY <3>2, <3>3, <3>4, <3>5
  <2>4. F[0] = <<>> /\ F[n] = flat[n]
    BY <1>1, <1>3
  <2> HIDE DEF F
  <2> QED
    BY <2>1, <2>3, <2>4
<1> QED
  BY <1>2, <1>3

\* A flattened sequence is one of pieces of code, with all that is in the pieces.
LEMMA FlattenIsSequence ==
  ASSUME NEW seqs, IsSequence(seqs), \A i \in 1 .. Len(seqs) : IsSequence(seqs[i])
  PROVE  /\ IsSequence(FlattenSeq(seqs))
         /\ \A i \in 1 .. Len(seqs) : ToSet(seqs[i]) \subseteq ToSet(FlattenSeq(seqs))
<1> DEFINE n == Len(seqs)
<1>1. n \in Nat
  BY SequenceIsFunction
<1>2. PICK F : /\ F[0] = <<>>
               /\ \A k \in 1 .. n : F[k] = F[k - 1] \o seqs[k]
               /\ FlattenSeq(seqs) = F[n]
  BY FlattenUnfolds
<1> HIDE DEF n
<1> DEFINE T == {k \in Nat : k <= n => /\ IsSequence(F[k])
                                       /\ \A i \in 1 .. k : ToSet(seqs[i]) \subseteq ToSet(F[k])}
<1>3. 0 \in T
  BY <1>2, EmptyIsSequence
<1>4. ASSUME NEW k \in Nat, k \in T PROVE k + 1 \in T
  <2> SUFFICES ASSUME k + 1 <= n
               PROVE  /\ IsSequence(F[k + 1])
                      /\ \A i \in 1 .. k + 1 : ToSet(seqs[i]) \subseteq ToSet(F[k + 1])
    OBVIOUS
  <2>1. k + 1 \in 1 .. n /\ (k + 1) - 1 = k /\ k <= n
    BY <1>1
  <2>2. F[k + 1] = F[k] \o seqs[k + 1]
    BY <1>2, <2>1
  <2>3. IsSequence(F[k]) /\ IsSequence(seqs[k + 1])
    BY <1>4, <2>1 DEF n
  <2>4. /\ IsSequence(F[k + 1])
        /\ ToSet(F[k]) \subseteq ToSet(F[k + 1])
        /\ ToSet(seqs[k + 1]) \subseteq ToSet(F[k + 1])
    BY <2>2, <2>3, ConcatIsSequence
  <2>5. ASSUME NEW i \in 1 .. k + 1 PROVE ToSet(seqs[i]) \subseteq ToSet(F[k + 1])
    <3>1. CASE i = k + 1
      BY <2>4, <3>1
    <3>2. CASE i # k + 1
      <4>1. i \in 1 .. k
        BY <3>2
      <4>2. ToSet(seqs[i]) \subseteq ToSet(F[k])
        BY <1>4, <2>1, <4>1
      <4> QED
        BY <2>4, <4>2
    <3> QED
      BY <3>1, <3>2
  <2> QED
    BY <2>4, <2>5
<1> HIDE DEF T
<1>5. n \in T
  BY <1>1, <1>3, <1>4, SetInduction
<1> QED
  BY <1>1, <1>2, <1>5 DEF T, n

\* The values after one instruction, and after the first k of a body.
Executed(inst, env) == [env EXCEPT ![inst.dest] = Llvm!Result(inst, env)]

IsIteration(f, body, env, S) ==
  f = [s \in SUBSET S |-> IF s = {} THEN env ELSE Executed(body[Max(s)], f[s \ {Max(s)}])]

Iteration(body, env) == CHOOSE f : IsIteration(f, body, env, DOMAIN body)

After(body, k, env) == Iteration(body, env)[1 .. k]

LEMMA MaxIsLast ==
  ASSUME NEW m \in Nat, NEW s \in SUBSET (1 .. m + 1), m + 1 \in s
  PROVE  Max(s) = m + 1
<1>1. \A y \in s : m + 1 >= y
  OBVIOUS
<1>2. \A x \in s : (\A y \in s : x >= y) => x = m + 1
  OBVIOUS
<1> QED
  BY <1>1, <1>2 DEF Max

LEMMA IterationChoice ==
  ASSUME NEW body, NEW env, NEW n \in Nat
  PROVE  \E f : IsIteration(f, body, env, 1 .. n)
<1> DEFINE T == {m \in Nat : \E f : IsIteration(f, body, env, 1 .. m)}
<1>1. 0 \in T
  <2> DEFINE f == [s \in SUBSET (1 .. 0) |-> env]
  <2>1. \A s \in SUBSET (1 .. 0) : s = {}
    OBVIOUS
  <2>2. f = [s \in SUBSET (1 .. 0) |->
               IF s = {} THEN env ELSE Executed(body[Max(s)], f[s \ {Max(s)}])]
    BY <2>1
  <2>3. IsIteration(f, body, env, 1 .. 0)
    BY <2>2 DEF IsIteration
  <2> HIDE DEF f
  <2> QED
    BY <2>3
<1>2. ASSUME NEW m \in Nat, m \in T PROVE m + 1 \in T
  <2>1. PICK f : IsIteration(f, body, env, 1 .. m)
    BY <1>2
  <2> DEFINE g == [s \in SUBSET (1 .. m + 1) |->
                     IF s \in SUBSET (1 .. m) THEN f[s]
                     ELSE Executed(body[Max(s)], f[s \ {Max(s)}])]
             h == [s \in SUBSET (1 .. m + 1) |->
                     IF s = {} THEN env ELSE Executed(body[Max(s)], g[s \ {Max(s)}])]
  <2>2. ASSUME NEW s \in SUBSET (1 .. m + 1) PROVE g[s] = h[s]
    <3>1. h[s] = IF s = {} THEN env ELSE Executed(body[Max(s)], g[s \ {Max(s)}])
      OBVIOUS
    <3>2. CASE s \in SUBSET (1 .. m)
      <4>1. g[s] = f[s]
        BY <3>2
      <4>2. f[s] = IF s = {} THEN env ELSE Executed(body[Max(s)], f[s \ {Max(s)}])
        BY <2>1, <3>2 DEF IsIteration
      <4>3. s \ {Max(s)} \in SUBSET (1 .. m) /\ s \ {Max(s)} \in SUBSET (1 .. m + 1)
        BY <3>2
      <4>4. g[s \ {Max(s)}] = f[s \ {Max(s)}]
        BY <4>3
      <4> HIDE DEF g, h
      <4> QED
        BY <3>1, <4>1, <4>2, <4>4
    <3>3. CASE s \notin SUBSET (1 .. m)
      <4>1. m + 1 \in s
        BY <3>3
      <4>2. Max(s) = m + 1
        BY <4>1, MaxIsLast
      <4>3. s \ {Max(s)} \in SUBSET (1 .. m) /\ s \ {Max(s)} \in SUBSET (1 .. m + 1)
        BY <4>2
      <4>4. g[s \ {Max(s)}] = f[s \ {Max(s)}]
        BY <4>3
      <4>5. g[s] = Executed(body[Max(s)], f[s \ {Max(s)}])
        BY <3>3
      <4>6. s # {}
        BY <4>1
      <4> HIDE DEF g, h
      <4> QED
        BY <3>1, <4>4, <4>5, <4>6
    <3> QED
      BY <3>2, <3>3
  <2>3. g = h
    <3>1. /\ g = [s \in SUBSET (1 .. m + 1) |-> g[s]]
          /\ h = [s \in SUBSET (1 .. m + 1) |-> h[s]]
      OBVIOUS
    <3> HIDE DEF g, h
    <3> QED
      BY <2>2, <3>1
  <2>4. IsIteration(g, body, env, 1 .. m + 1)
    <3> HIDE DEF g
    <3> QED
      BY <2>3 DEF IsIteration
  <2> HIDE DEF g
  <2> QED
    BY <2>4
<1> HIDE DEF T
<1>3. n \in T
  BY <1>1, <1>2, SetInduction
<1> QED
  BY <1>3 DEF T

\* AfterBody executes the instructions of a body one after the other.
LEMMA AfterUnfolds ==
  ASSUME NEW body, IsSequence(body), NEW env
  PROVE  /\ After(body, 0, env) = env
         /\ \A k \in 1 .. Len(body) :
              After(body, k, env) = Executed(body[k], After(body, k - 1, env))
         /\ Llvm!AfterBody(body, env) = After(body, Len(body), env)
<1> DEFINE n == Len(body)
           f == Iteration(body, env)
<1>1. n \in Nat /\ DOMAIN body = 1 .. n
  BY SequenceIsFunction
<1>2. f = [s \in SUBSET (1 .. n) |->
             IF s = {} THEN env ELSE Executed(body[Max(s)], f[s \ {Max(s)}])]
  <2>1. IsIteration(f, body, env, 1 .. n)
    BY <1>1, IterationChoice DEF Iteration
  <2> QED
    BY <2>1 DEF IsIteration
<1>3. Llvm!AfterBody(body, env) = f[1 .. n]
  BY <1>1 DEF Llvm!AfterBody, Llvm!FoldLeft, Llvm!MapThenFoldSet, Llvm!Max, Max,
              Iteration, IsIteration, Executed
<1> HIDE DEF f, n
<1>4. f[1 .. 0] = env
  <2>1. 1 .. 0 = {} /\ {} \in SUBSET (1 .. n)
    OBVIOUS
  <2> QED
    BY <1>2, <2>1
<1>5. ASSUME NEW k \in 1 .. n PROVE f[1 .. k] = Executed(body[k], f[1 .. k - 1])
  <2>1. k - 1 \in Nat /\ (k - 1) + 1 = k
    BY <1>1
  <2>2. k \in 1 .. k /\ 1 .. k \in SUBSET (1 .. n) /\ 1 .. k # {}
    BY <1>1
  <2>3. Max(1 .. k) = k
    BY <2>1, <2>2, MaxIsLast
  <2>4. (1 .. k) \ {k} = 1 .. k - 1
    BY <1>1
  <2> QED
    BY <1>2, <2>2, <2>3, <2>4
<1> QED
  BY <1>3, <1>4, <1>5 DEF After, n, f

-----------------------------------------------------------------------------
(* States of the run, and what holds of them at the points of the code. *)

Bit    == {0, 1}
Env    == [Values -> Bit]
Stacks == Seq(Bit)

\* The operand stack with one value.
One(n) == <<n>>

Body(p, b) == p.blocks[b].body
Phis(p, b) == p.blocks[b].phis
Term(p, b) == p.blocks[b].term

\* The operand stack, the local variables, and the block entered last with its
\* values.
State(k, l, b, v) == [stack |-> k, locals |-> l, block |-> b, values |-> v]

States(p) == [stack : Stacks, locals : Env, block : Blocks(p), values : Env]

\* The values at the end of the block.
End(p, s) == Llvm!AfterBody(Body(p, s.block), s.values)

\* In block b, after its first k instructions.
InBody(p, b, k) ==
  {s \in States(p) : s.stack = <<>> /\ s.block = b /\ s.locals = After(Body(p, b), k, s.values)}

\* In front of the k-th instruction, with m on the operand stack.
During(p, b, k, s) == s.block = b /\ s.locals = After(Body(p, b), k - 1, s.values)

\* The k-th instruction has its result on the operand stack.
Computed(p, b, k) ==
  {s \in States(p) : /\ During(p, b, k, s)
                     /\ s.stack = One(Llvm!Result(Body(p, b)[k], s.locals))}

\* The k-th instruction is a select, and its condition does not hold.
Declined(p, b, k) ==
  {s \in States(p) : /\ During(p, b, k, s)
                     /\ s.stack = <<>>
                     /\ Llvm!ValueOf(Body(p, b)[k].args[1], s.locals) # 1}

\* At the end of block b, and on the way from src to dest.
AtEnd(p, b) == {s \in States(p) : s.stack = <<>> /\ s.block = b /\ s.locals = End(p, s)}

Leaving(p, src, dest) == {s \in AtEnd(p, src) : Llvm!Target(Term(p, src), s.locals) = dest}

\* The functions that the copies of phi operands are made for.
PhisCopyable(p) == NoPhiReadsEarlierPhi(p) /\ NoSwitchIntoPhis(p)

\* The first k phi instructions have read their operands from env.
AfterCopies(phis, k, src, env) ==
  {e \in Env : \A v \in Values :
     IF \E i \in 1 .. k : phis[i].dest = v
       THEN \E i \in 1 .. k : phis[i].dest = v /\ e[v] \in Llvm!Eval(phis[i].from[src], env)
       ELSE e[v] = env[v]}

Copying(p, src, dest, k) ==
  {s \in States(p) :
     /\ s.stack = <<>> /\ s.block = src
     /\ PhisCopyable(p) =>
          /\ Llvm!Target(Term(p, src), End(p, s)) = dest
          /\ s.locals \in AfterCopies(Phis(p, dest), k, src, End(p, s))}

\* Control moves from the block entered last to dest, as LlvmControl has it.
Moves(p, s, dest) ==
  /\ Term(p, s.block).op # "ret"
  /\ Llvm!Target(Term(p, s.block), End(p, s)) = dest
  /\ s.locals \in Llvm!AfterPhis(Phis(p, dest), s.block, End(p, s))

\* At the label of block b: the function starts, or control moved here.
Entering(p, b) ==
  {s \in States(p) :
     /\ s.stack = <<>>
     /\ PhisCopyable(p) => Moves(p, s, b) \/ (s.block = b /\ s.values = s.locals)}

\* At the return.
Finished(p) ==
  {s \in States(p) :
     s.stack = <<>> /\ Term(p, s.block).op = "ret" /\ s.locals = End(p, s)}

\* What holds at a label.
LabelStates(p, l) ==
  {s \in States(p) :
     \/ \E b \in Blocks(p) : l = BlockLabel(b) /\ s \in Entering(p, b)
     \/ \E b, src \in Blocks(p) : l = PhiLabel(b, src) /\ s \in Leaving(p, src, b)
     \/ \E b \in Blocks(p) : \E k \in DOMAIN Body(p, b) :
          \/ l = SelectLabel(Body(p, b)[k], "a") /\ s \in Declined(p, b, k)
          \/ l = SelectLabel(Body(p, b)[k], "b") /\ s \in Computed(p, b, k)}

HasLabel(p, l) == Op("label", l) \in ToSet(printFunctionBody(p))

-----------------------------------------------------------------------------
(* Triples. *)

With(s, k, l) == State(k, l, s.block, s.values)

PoppedFrom(s) == With(s, Front(s.stack), s.locals)

Case(i, n) == IF n \in DOMAIN i.arg.cases THEN i.arg.cases[n] ELSE i.arg.default

\* Instruction i has its operand in the states of P, and leads from them to
\* states of Q, or to a label of the code and what holds there.
Correct(p, i, P, Q) ==
  /\ i.op \in TakeOperand => \A s \in P : s.stack # <<>>
  /\ i.op = "label" =>
       /\ P = LabelStates(p, i.arg)
       /\ \A s \in P :
            IF \E b \in Blocks(p) : i.arg = BlockLabel(b)
              THEN State(s.stack, s.locals, i.arg[1], s.locals) \in Q
              ELSE s \in Q
  /\ i.op = "load" =>
       \A s \in P : With(s, Append(s.stack, Pushed(i.arg, s.locals)), s.locals) \in Q
  /\ i.op = "store" =>
       \A s \in P : With(s, Front(s.stack), [s.locals EXCEPT ![i.arg] = Last(s.stack)]) \in Q
  /\ i.op = "not" =>
       \A s \in P : With(s, Append(Front(s.stack), 1 - Last(s.stack)), s.locals) \in Q
  /\ i.op = "pop" => \A s \in P : PoppedFrom(s) \in Q
  /\ i.op = "goto" => HasLabel(p, i.arg) /\ P \subseteq LabelStates(p, i.arg)
  /\ i.op = "ifne" =>
       /\ HasLabel(p, i.arg)
       /\ \A s \in P : PoppedFrom(s) \in IF Last(s.stack) = 1 THEN LabelStates(p, i.arg) ELSE Q
  /\ i.op = "ifeq" =>
       /\ HasLabel(p, i.arg)
       /\ \A s \in P : PoppedFrom(s) \in IF Last(s.stack) = 0 THEN LabelStates(p, i.arg) ELSE Q
  /\ i.op = "lookupswitch" =>
       \A s \in P : LET l == Case(i, Last(s.stack)) IN
         HasLabel(p, l) /\ PoppedFrom(s) \in LabelStates(p, l)
  /\ i.op = "return" => P \subseteq Finished(p)

\* A assigns every point of c, its end included, the states it is reached in.
Annotates(p, c, A, P, Q) ==
  /\ A \in [1 .. Len(c) + 1 -> SUBSET States(p)]
  /\ P \subseteq A[1]
  /\ A[Len(c) + 1] \subseteq Q
  /\ \A i \in 1 .. Len(c) : Correct(p, c[i], A[i], A[i + 1])

Triple(p, c, P, Q) == IsSequence(c) /\ \E A : Annotates(p, c, A, P, Q)

LEMMA CorrectWeakens ==
  ASSUME NEW p, NEW i, NEW P, NEW Q, NEW R, Correct(p, i, P, Q), Q \subseteq R
  PROVE  Correct(p, i, P, R)
<1>1. ASSUME NEW s, NEW l, NEW b,
             s \in IF b THEN LabelStates(p, l) ELSE Q
      PROVE  s \in IF b THEN LabelStates(p, l) ELSE R
  BY <1>1
<1> QED
  BY <1>1 DEF Correct

LEMMA TripleWeakens ==
  ASSUME NEW p, NEW c, NEW P, NEW Q, NEW P1, NEW Q1,
         Triple(p, c, P, Q), P1 \subseteq P, Q \subseteq Q1
  PROVE  Triple(p, c, P1, Q1)
  BY DEF Triple, Annotates

LEMMA TripleOfNothing ==
  ASSUME NEW p, NEW P \in SUBSET States(p)
  PROVE  Triple(p, <<>>, P, P)
<1> DEFINE A == [i \in 1 .. 1 |-> P]
<1>1. /\ A \in [1 .. 0 + 1 -> SUBSET States(p)]
      /\ A[1] = P /\ A[0 + 1] = P
  OBVIOUS
<1> HIDE DEF A
<1>2. Annotates(p, <<>>, A, P, P)
  BY <1>1, EmptyIsSequence DEF Annotates
<1> QED
  BY <1>2, EmptyIsSequence DEF Triple

LEMMA TripleOfOne ==
  ASSUME NEW p, NEW i, NEW P \in SUBSET States(p), NEW Q \in SUBSET States(p),
         Correct(p, i, P, Q)
  PROVE  Triple(p, <<i>>, P, Q)
<1> DEFINE A == [j \in 1 .. 2 |-> IF j = 1 THEN P ELSE Q]
<1>1. A \in [1 .. 1 + 1 -> SUBSET States(p)] /\ A[1] = P /\ A[1 + 1] = Q
  OBVIOUS
<1> HIDE DEF A
<1>2. IsSequence(<<i>>) /\ Len(<<i>>) = 1 /\ <<i>>[1] = i
  BY SingletonIsSequence
<1>3. \A j \in 1 .. Len(<<i>>) : Correct(p, <<i>>[j], A[j], A[j + 1])
  <2>1. \A j \in 1 .. Len(<<i>>) : j = 1
    BY <1>2
  <2> QED
    BY <1>1, <1>2, <2>1
<1>4. Annotates(p, <<i>>, A, P, Q)
  BY <1>1, <1>2, <1>3 DEF Annotates
<1> QED
  BY <1>2, <1>4 DEF Triple

LEMMA TripleOfConcat ==
  ASSUME NEW p, NEW c, NEW d, NEW P, NEW Q, NEW R,
         Triple(p, c, P, Q), Triple(p, d, Q, R)
  PROVE  Triple(p, c \o d, P, R)
<1>1. PICK A : Annotates(p, c, A, P, Q)
  BY DEF Triple
<1>2. PICK B : Annotates(p, d, B, Q, R)
  BY DEF Triple
<1> DEFINE m == Len(c)
           n == Len(d)
           C == [i \in 1 .. m + n + 1 |-> IF i <= m THEN A[i] ELSE B[i - m]]
<1>3. m \in Nat /\ n \in Nat
  BY SequenceIsFunction DEF Triple
<1>4. /\ IsSequence(c \o d) /\ Len(c \o d) = m + n
      /\ \A i \in 1 .. m : (c \o d)[i] = c[i]
      /\ \A i \in 1 .. n : (c \o d)[m + i] = d[i]
  BY ConcatIsSequence DEF Triple
<1>5. /\ A \in [1 .. m + 1 -> SUBSET States(p)]
      /\ P \subseteq A[1]
      /\ A[m + 1] \subseteq Q
      /\ \A i \in 1 .. m : Correct(p, c[i], A[i], A[i + 1])
  BY <1>1 DEF Annotates
<1>6. /\ B \in [1 .. n + 1 -> SUBSET States(p)]
      /\ Q \subseteq B[1]
      /\ B[n + 1] \subseteq R
      /\ \A i \in 1 .. n : Correct(p, d[i], B[i], B[i + 1])
  BY <1>2 DEF Annotates
<1> HIDE DEF m, n
<1>7. \A i \in 1 .. m : C[i] = A[i]
  BY <1>3
<1>8. \A i \in 1 .. n + 1 : m + i \in 1 .. m + n + 1 /\ C[m + i] = B[i]
  BY <1>3
<1>9. C \in [1 .. m + n + 1 -> SUBSET States(p)]
  <2>1. ASSUME NEW i \in 1 .. m + n + 1 PROVE C[i] \in SUBSET States(p)
    <3>1. CASE i <= m
      <4>1. i \in 1 .. m /\ i \in 1 .. m + 1
        BY <1>3, <3>1
      <4> QED
        BY <1>5, <1>7, <4>1
    <3>2. CASE ~(i <= m)
      <4>1. i - m \in 1 .. n + 1 /\ m + (i - m) = i
        BY <1>3, <3>2
      <4>2. C[i] = B[i - m]
        BY <1>8, <4>1
      <4> QED
        BY <1>6, <4>1, <4>2
    <3> QED
      BY <3>1, <3>2
  <2> QED
    BY <2>1
<1> HIDE DEF C
<1>10. P \subseteq C[1]
  <2>1. CASE m = 0
    <3>1. 1 \in 1 .. n + 1 /\ m + 1 = 1
      BY <1>3, <2>1
    <3>2. C[1] = B[1]
      BY <1>8, <3>1
    <3> QED
      BY <1>5, <1>6, <3>1, <3>2
  <2>2. CASE m # 0
    <3>1. 1 \in 1 .. m
      BY <1>3, <2>2
    <3> QED
      BY <1>5, <1>7, <3>1
  <2> QED
    BY <2>1, <2>2
<1>11. C[m + n + 1] \subseteq R
  <2>1. n + 1 \in 1 .. n + 1 /\ m + (n + 1) = m + n + 1
    BY <1>3
  <2> QED
    BY <1>6, <1>8, <2>1
<1>12. ASSUME NEW i \in 1 .. m + n PROVE Correct(p, (c \o d)[i], C[i], C[i + 1])
  <2>0. i < m \/ i = m \/ m < i
    BY <1>3
  <2>1. CASE i < m
    <3>1. i \in 1 .. m /\ i + 1 \in 1 .. m
      BY <1>3, <2>1
    <3> QED
      BY <1>4, <1>5, <1>7, <3>1
  <2>2. CASE i = m
    <3>1. i \in 1 .. m /\ 1 \in 1 .. n + 1
      BY <1>3, <2>2
    <3>2. C[i] = A[i] /\ C[i + 1] = B[1] /\ (c \o d)[i] = c[i]
      BY <1>4, <1>7, <1>8, <2>2, <3>1
    <3>3. A[i + 1] \subseteq B[1]
      BY <1>5, <1>6, <2>2
    <3>4. Correct(p, c[i], A[i], A[i + 1])
      BY <1>5, <3>1
    <3>5. Correct(p, c[i], A[i], B[1])
      BY <3>3, <3>4, CorrectWeakens
    <3> QED
      BY <3>2, <3>5
  <2>3. CASE m < i
    <3>1. /\ i - m \in 1 .. n /\ i - m \in 1 .. n + 1 /\ (i - m) + 1 \in 1 .. n + 1
          /\ m + (i - m) = i /\ m + ((i - m) + 1) = i + 1
      BY <1>3, <2>3
    <3>2. C[i] = B[i - m] /\ C[i + 1] = B[(i - m) + 1] /\ (c \o d)[i] = d[i - m]
      BY <1>4, <1>8, <3>1
    <3> QED
      BY <1>6, <3>1, <3>2
  <2> QED
    BY <2>0, <2>1, <2>2, <2>3
<1>13. Annotates(p, c \o d, C, P, R)
  BY <1>4, <1>9, <1>10, <1>11, <1>12 DEF Annotates
<1> QED
  BY <1>4, <1>13 DEF Triple

\* The pieces of a flattened sequence, each with the assertion it leads to.
LEMMA TripleOfFlatten ==
  ASSUME NEW p, NEW seqs, IsSequence(seqs),
         NEW I \in [0 .. Len(seqs) -> SUBSET States(p)],
         \A i \in 1 .. Len(seqs) : Triple(p, seqs[i], I[i - 1], I[i])
  PROVE  Triple(p, FlattenSeq(seqs), I[0], I[Len(seqs)])
<1> DEFINE n == Len(seqs)
<1>1. n \in Nat
  BY SequenceIsFunction
<1>2. \A i \in 1 .. Len(seqs) : IsSequence(seqs[i])
  BY DEF Triple
<1>3. PICK F : /\ F[0] = <<>>
               /\ \A k \in 1 .. n : F[k] = F[k - 1] \o seqs[k]
               /\ FlattenSeq(seqs) = F[n]
  BY <1>2, FlattenUnfolds
<1> HIDE DEF n
<1> DEFINE T == {k \in Nat : k <= n => Triple(p, F[k], I[0], I[k])}
<1>4. 0 \in T
  <2>1. I[0] \in SUBSET States(p)
    BY <1>1 DEF n
  <2>2. Triple(p, F[0], I[0], I[0])
    BY <1>3, <2>1, TripleOfNothing
  <2> QED
    BY <2>2
<1>5. ASSUME NEW k \in Nat, k \in T PROVE k + 1 \in T
  <2> SUFFICES ASSUME k + 1 <= n PROVE Triple(p, F[k + 1], I[0], I[k + 1])
    OBVIOUS
  <2>1. k + 1 \in 1 .. n /\ (k + 1) - 1 = k /\ k <= n
    BY <1>1
  <2>2. F[k + 1] = F[k] \o seqs[k + 1]
    BY <1>3, <2>1
  <2>3. Triple(p, F[k], I[0], I[k])
    BY <1>5, <2>1
  <2>4. Triple(p, seqs[k + 1], I[k], I[k + 1])
    BY <2>1 DEF n
  <2> QED
    BY <2>2, <2>3, <2>4, TripleOfConcat
<1> HIDE DEF T
<1>6. n \in T
  BY <1>1, <1>4, <1>5, SetInduction
<1> QED
  BY <1>1, <1>3, <1>6 DEF T, n

-----------------------------------------------------------------------------
(* The parts of a well-formed function, and the code printed for them. *)

LEMMA WellFormedBlock ==
  ASSUME NEW p, WellFormed(p), NEW b \in Blocks(p)
  PROVE  /\ b \notin {"block", "a", "b", Returned}
         /\ IsSequence(Phis(p, b))
         /\ \A i \in DOMAIN Phis(p, b) : WellFormedPhi(p, b, Phis(p, b)[i])
         /\ IsSequence(Body(p, b))
         /\ \A i \in DOMAIN Body(p, b) : WellFormedInstruction(Body(p, b)[i])
         /\ WellFormedTerminator(p, Term(p, b))
  BY DEF WellFormed, Phis, Body, Term

\* A sequence given element by element.
LEMMA MappedIsSequence ==
  ASSUME NEW s, IsSequence(s), NEW t, t = [i \in DOMAIN s |-> t[i]]
  PROVE  IsSequence(t) /\ Len(t) = Len(s) /\ DOMAIN t = 1 .. Len(s)
<1>1. Len(s) \in Nat /\ DOMAIN s = 1 .. Len(s)
  BY SequenceIsFunction
<1>2. t = [i \in 1 .. Len(s) |-> t[i]]
  BY <1>1
<1> QED
  BY <1>1, <1>2, FunctionIsSequence

LEMMA LoadIsSequence == \A o : IsSequence(Load(o))
  BY SingletonIsSequence DEF Load

LEMMA StoreIsSequence == \A v : IsSequence(Store(v))
  BY SingletonIsSequence DEF Store

Copies(p, src, dest) == [i \in DOMAIN Phis(p, dest) |-> CopyPhi(Phis(p, dest)[i], src)]

LEMMA PhiCopyIsSequence ==
  ASSUME NEW p, WellFormed(p), NEW dest \in Blocks(p), NEW src
  PROVE  /\ IsSequence(Copies(p, src, dest)) /\ Len(Copies(p, src, dest)) = Len(Phis(p, dest))
         /\ DOMAIN Copies(p, src, dest) = 1 .. Len(Phis(p, dest))
         /\ \A i \in 1 .. Len(Phis(p, dest)) : IsSequence(Copies(p, src, dest)[i])
         /\ printPHICopy(p, src, dest) = FlattenSeq(Copies(p, src, dest))
         /\ IsSequence(printPHICopy(p, src, dest))
<1> DEFINE phis == Phis(p, dest)
           copies == Copies(p, src, dest)
<1>1. IsSequence(phis)
  BY WellFormedBlock
<1>2. \A phi : IsSequence(CopyPhi(phi, src))
  BY LoadIsSequence, StoreIsSequence, ConcatIsSequence, EmptyIsSequence DEF CopyPhi
<1>3. copies = [i \in DOMAIN phis |-> copies[i]]
  BY DEF Copies
<1>4. IsSequence(copies) /\ Len(copies) = Len(phis) /\ DOMAIN copies = 1 .. Len(phis)
  BY <1>1, <1>3, MappedIsSequence
<1>5. DOMAIN phis = 1 .. Len(phis)
  BY <1>1, SequenceIsFunction
<1>6. \A i \in 1 .. Len(phis) : IsSequence(copies[i])
  BY <1>2, <1>5 DEF Copies
<1>7. printPHICopy(p, src, dest) = FlattenSeq(copies)
  BY DEF printPHICopy, Copies, Phis
<1>8. IsSequence(FlattenSeq(copies))
  BY <1>4, <1>6, FlattenIsSequence
<1> QED
  BY <1>4, <1>6, <1>7, <1>8

LEMMA JumpIsSequence ==
  ASSUME NEW p, WellFormed(p), NEW dest \in Blocks(p), NEW src
  PROVE  IsSequence(Jump(p, src, dest))
  BY PhiCopyIsSequence, SingletonIsSequence, ConcatIsSequence DEF Jump

LEMMA CondBranchIsSequence ==
  ASSUME NEW p, WellFormed(p), NEW src, NEW yes \in Blocks(p), NEW no \in Blocks(p)
  PROVE  IsSequence(printCondBranch(p, src, yes, no))
<1> DEFINE label == IF HasPhis(p, yes) THEN PhiLabel(yes, src) ELSE BlockLabel(yes)
           landing == IF HasPhis(p, yes)
                        THEN <<Op("label", label)>> \o Jump(p, src, yes)
                        ELSE <<>>
<1>1. IsSequence(Jump(p, src, yes)) /\ IsSequence(Jump(p, src, no))
  BY JumpIsSequence
<1>2. \A i : IsSequence(<<i>>)
  BY SingletonIsSequence
<1>3. IsSequence(landing)
  <2>1. IsSequence(<<Op("label", label)>> \o Jump(p, src, yes))
    BY <1>1, <1>2, ConcatIsSequence
  <2> QED
    BY <2>1, EmptyIsSequence
<1>4. IsSequence(<<Op("pop", 0)>> \o Jump(p, src, yes))
  BY <1>1, <1>2, ConcatIsSequence
<1>5. IsSequence(<<Op("ifne", label)>> \o Jump(p, src, no))
  BY <1>1, <1>2, ConcatIsSequence
<1> HIDE DEF label, landing
<1>6. IsSequence(<<Op("ifne", label)>> \o Jump(p, src, no) \o landing)
  BY <1>3, <1>5, ConcatIsSequence
<1>7. printCondBranch(p, src, yes, no) =
        IF yes = no THEN <<Op("pop", 0)>> \o Jump(p, src, yes)
                    ELSE <<Op("ifne", label)>> \o Jump(p, src, no) \o landing
  BY DEF printCondBranch, label, landing
<1> QED
  BY <1>4, <1>6, <1>7

\* The shape of a terminator: where it goes is in the function.
LEMMA Terminators ==
  ASSUME NEW p, WellFormed(p), NEW b \in Blocks(p)
  PROVE  LET term == Term(p, b) IN
         /\ term.op \in {"br", "condbr", "switch", "ret"}
         /\ term.op = "br" => term.dests[1] \in Blocks(p) /\ term.dests[1] \in Successors(term)
         /\ term.op = "condbr" =>
              /\ term.cond \in Operands
              /\ \A i \in 1 .. 2 : term.dests[i] \in Blocks(p) /\ term.dests[i] \in Successors(term)
         /\ term.op = "switch" =>
              /\ term.cond \in Operands
              /\ \A n \in DOMAIN term.cases :
                   term.cases[n] \in Blocks(p) /\ term.cases[n] \in Successors(term)
              /\ term.default \in Blocks(p) /\ term.default \in Successors(term)
<1> DEFINE term == Term(p, b)
<1>1. /\ term.op \in {"br", "condbr", "switch", "ret"}
      /\ term.op \in {"condbr", "switch"} => term.cond \in Operands
      /\ Successors(term) \subseteq Blocks(p)
  BY WellFormedBlock DEF WellFormedTerminator
<1> HIDE DEF term
<1>2. CASE term.op = "br"
  <2>1. term.dests[1] \in Successors(term)
    BY <1>2 DEF Successors
  <2> QED
    BY <1>1, <1>2, <2>1 DEF term
<1>3. CASE term.op = "condbr"
  <2>1. term.dests[1] \in Successors(term) /\ term.dests[2] \in Successors(term)
    BY <1>3 DEF Successors
  <2>2. \A i \in 1 .. 2 : i = 1 \/ i = 2
    OBVIOUS
  <2> QED
    BY <1>1, <1>3, <2>1, <2>2 DEF term
<1>4. CASE term.op = "switch"
  <2>1. /\ \A n \in DOMAIN term.cases : term.cases[n] \in Successors(term)
        /\ term.default \in Successors(term)
    BY <1>4 DEF Successors
  <2> QED
    BY <1>1, <1>4, <2>1 DEF term
<1>5. CASE term.op = "ret"
  BY <1>1, <1>5 DEF term
<1> QED
  BY <1>1, <1>2, <1>3, <1>4, <1>5

LEMMA TerminatorIsSequence ==
  ASSUME NEW p, WellFormed(p), NEW b \in Blocks(p)
  PROVE  IsSequence(printTerminator(p, b))
<1> DEFINE term == Term(p, b)
<1>1. /\ term.op \in {"br", "condbr", "switch", "ret"}
      /\ term.op = "br" => term.dests[1] \in Blocks(p)
      /\ term.op = "condbr" => term.dests[1] \in Blocks(p) /\ term.dests[2] \in Blocks(p)
  BY Terminators
<1> HIDE DEF term
<1>2. CASE term.op = "br"
  <2>1. printTerminator(p, b) = Jump(p, b, term.dests[1])
    BY <1>2 DEF printTerminator, term, Term
  <2> QED
    BY <1>1, <1>2, <2>1, JumpIsSequence
<1>3. CASE term.op = "condbr"
  <2>1. printTerminator(p, b) =
          Load(term.cond) \o printCondBranch(p, b, term.dests[1], term.dests[2])
    BY <1>3 DEF printTerminator, term, Term
  <2>2. IsSequence(printCondBranch(p, b, term.dests[1], term.dests[2]))
    BY <1>1, <1>3, CondBranchIsSequence
  <2> QED
    BY <2>1, <2>2, LoadIsSequence, ConcatIsSequence
<1>4. CASE term.op = "switch"
  <2>1. printTerminator(p, b) = printSwitch(term)
    BY <1>4 DEF printTerminator, term, Term
  <2>2. IsSequence(printSwitch(term))
    BY LoadIsSequence, SingletonIsSequence, ConcatIsSequence DEF printSwitch
  <2> QED
    BY <2>1, <2>2
<1>5. CASE term.op = "ret"
  <2>1. printTerminator(p, b) = <<Op("return", 0)>>
    BY <1>5 DEF printTerminator, term, Term
  <2> QED
    BY <2>1, SingletonIsSequence
<1> QED
  BY <1>1, <1>2, <1>3, <1>4, <1>5

\* The code of a select, label by label.
LEMMA SelectIsSequence ==
  ASSUME NEW inst
  PROVE  /\ IsSequence(printSelect(inst))
         /\ Op("label", SelectLabel(inst, "a")) \in ToSet(printSelect(inst))
         /\ Op("label", SelectLabel(inst, "b")) \in ToSet(printSelect(inst))
<1> DEFINE goto == Op("goto", SelectLabel(inst, "b"))
           a  == Op("label", SelectLabel(inst, "a"))
           b  == Op("label", SelectLabel(inst, "b"))
           c1 == Load(inst.args[1]) \o <<Op("ifeq", SelectLabel(inst, "a"))>>
           c2 == c1 \o Load(inst.args[2])
           c3 == c2 \o <<goto, a>>
           c4 == c3 \o Load(inst.args[3])
           c5 == c4 \o <<b>>
<1>1. printSelect(inst) = c5
  BY DEF printSelect
<1>2. IsSequence(<<goto, a>>) /\ a \in ToSet(<<goto, a>>)
  <2> HIDE DEF goto, a
  <2>1. <<goto, a>> \in Seq({goto, a}) /\ <<goto, a>>[2] = a /\ 2 \in DOMAIN <<goto, a>>
    OBVIOUS
  <2> QED
    BY <2>1, SeqIsSequence DEF ToSet
<1>3. IsSequence(<<b>>) /\ b \in ToSet(<<b>>)
  BY SingletonIsSequence
<1>4. IsSequence(c1)
  BY LoadIsSequence, SingletonIsSequence, ConcatIsSequence
<1> HIDE DEF c1, goto, a, b
<1>5. IsSequence(c2)
  BY <1>4, LoadIsSequence, ConcatIsSequence
<1> HIDE DEF c2
<1>6. IsSequence(c3) /\ a \in ToSet(c3)
  BY <1>2, <1>5, ConcatIsSequence
<1> HIDE DEF c3
<1>7. IsSequence(c4) /\ a \in ToSet(c4)
  BY <1>6, LoadIsSequence, ConcatIsSequence
<1> HIDE DEF c4
<1>8. IsSequence(c5) /\ a \in ToSet(c5) /\ b \in ToSet(c5)
  BY <1>3, <1>7, ConcatIsSequence
<1> QED
  BY <1>1, <1>8 DEF a, b

LEMMA InstructionIsSequence ==
  ASSUME NEW inst, WellFormedInstruction(inst)
  PROVE  IsSequence(printInstruction(inst))
<1>1. CASE inst.op = "not"
  <2>1. printInstruction(inst) = Load(inst.args[1]) \o <<Op("not", 0)>>
    BY <1>1 DEF printInstruction
  <2> QED
    BY <2>1, LoadIsSequence, SingletonIsSequence, ConcatIsSequence
<1>2. CASE inst.op = "select"
  <2>1. printInstruction(inst) = printSelect(inst)
    BY <1>2 DEF printInstruction
  <2> QED
    BY <2>1, SelectIsSequence
<1> QED
  BY <1>1, <1>2 DEF WellFormedInstruction

Pieces(p, b) ==
  [i \in DOMAIN Body(p, b) |-> printInstruction(Body(p, b)[i]) \o Store(Body(p, b)[i].dest)]

LEMMA BlockIsSequence ==
  ASSUME NEW p, WellFormed(p), NEW b \in Blocks(p)
  PROVE  LET pieces == Pieces(p, b) IN
         /\ IsSequence(pieces) /\ Len(pieces) = Len(Body(p, b))
         /\ DOMAIN pieces = 1 .. Len(Body(p, b))
         /\ \A i \in 1 .. Len(pieces) :
              IsSequence(pieces[i]) /\ ToSet(pieces[i]) \subseteq ToSet(printBasicBlock(p, b))
         /\ printBasicBlock(p, b) =
              <<Op("label", BlockLabel(b))>> \o FlattenSeq(pieces) \o printTerminator(p, b)
         /\ IsSequence(printBasicBlock(p, b))
         /\ Op("label", BlockLabel(b)) \in ToSet(printBasicBlock(p, b))
         /\ ToSet(printTerminator(p, b)) \subseteq ToSet(printBasicBlock(p, b))
<1> DEFINE body == Body(p, b)
           pieces == Pieces(p, b)
           label == Op("label", BlockLabel(b))
           flat == FlattenSeq(pieces)
           term == printTerminator(p, b)
<1>1. IsSequence(body) /\ (\A i \in DOMAIN body : WellFormedInstruction(body[i]))
  BY WellFormedBlock
<1>2. pieces = [i \in DOMAIN body |-> pieces[i]]
  BY DEF Pieces
<1>3. IsSequence(pieces) /\ Len(pieces) = Len(body) /\ DOMAIN pieces = 1 .. Len(body)
  BY <1>1, <1>2, MappedIsSequence
<1>4. DOMAIN body = 1 .. Len(body)
  BY <1>1, SequenceIsFunction
<1>5. ASSUME NEW i \in 1 .. Len(pieces) PROVE IsSequence(pieces[i])
  <2>1. i \in DOMAIN body
    BY <1>3, <1>4
  <2>2. pieces[i] = printInstruction(body[i]) \o Store(body[i].dest)
    BY <2>1 DEF Pieces
  <2>3. IsSequence(printInstruction(body[i]))
    BY <1>1, <2>1, InstructionIsSequence
  <2> QED
    BY <2>2, <2>3, StoreIsSequence, ConcatIsSequence
<1>6. printBasicBlock(p, b) = <<label>> \o flat \o term
  BY DEF printBasicBlock, Pieces, Body
<1>7. IsSequence(<<label>>) /\ label \in ToSet(<<label>>)
  BY SingletonIsSequence
<1>8. /\ IsSequence(flat)
      /\ \A i \in 1 .. Len(pieces) : ToSet(pieces[i]) \subseteq ToSet(flat)
  <2> HIDE DEF pieces
  <2> QED
    BY <1>3, <1>5, FlattenIsSequence
<1>9. IsSequence(term)
  BY TerminatorIsSequence
<1> HIDE DEF pieces, label, flat, term, body
<1>10. /\ IsSequence(<<label>> \o flat)
       /\ ToSet(<<label>>) \subseteq ToSet(<<label>> \o flat)
       /\ ToSet(flat) \subseteq ToSet(<<label>> \o flat)
  BY <1>7, <1>8, ConcatIsSequence
<1>11. /\ IsSequence(<<label>> \o flat \o term)
       /\ ToSet(<<label>> \o flat) \subseteq ToSet(<<label>> \o flat \o term)
       /\ ToSet(term) \subseteq ToSet(<<label>> \o flat \o term)
  BY <1>9, <1>10, ConcatIsSequence
<1>12. /\ IsSequence(printBasicBlock(p, b))
       /\ label \in ToSet(printBasicBlock(p, b))
       /\ ToSet(flat) \subseteq ToSet(printBasicBlock(p, b))
       /\ ToSet(term) \subseteq ToSet(printBasicBlock(p, b))
  BY <1>6, <1>7, <1>10, <1>11
<1>13. \A i \in 1 .. Len(pieces) : ToSet(pieces[i]) \subseteq ToSet(printBasicBlock(p, b))
  BY <1>8, <1>12
<1> QED
  BY <1>3, <1>5, <1>6, <1>12, <1>13 DEF pieces, label, flat, term, body

BlockCodes(p) == [i \in DOMAIN p.order |-> printBasicBlock(p, p.order[i])]

\* Every block of the function is in the code.
LEMMA CodeIsSequence ==
  ASSUME NEW p, WellFormed(p)
  PROVE  LET codes == BlockCodes(p) IN
         /\ Len(p.order) \in Nat \ {0} /\ DOMAIN p.order = 1 .. Len(p.order)
         /\ Blocks(p) = {p.order[i] : i \in 1 .. Len(p.order)}
         /\ IsSequence(codes) /\ Len(codes) = Len(p.order)
         /\ \A i \in 1 .. Len(codes) : codes[i] = printBasicBlock(p, p.order[i])
         /\ printFunctionBody(p) = FlattenSeq(codes)
         /\ IsSequence(printFunctionBody(p))
         /\ \A b \in Blocks(p) : ToSet(printBasicBlock(p, b)) \subseteq ToSet(printFunctionBody(p))
<1> DEFINE codes == BlockCodes(p)
<1>1. IsSequence(p.order) /\ p.order # <<>>
  BY DEF WellFormed
<1>2. Len(p.order) \in Nat \ {0} /\ DOMAIN p.order = 1 .. Len(p.order)
  <2>1. Len(p.order) # 0
    BY <1>1, EmptySeq DEF IsSequence
  <2> QED
    BY <1>1, <2>1, SequenceIsFunction
<1>3. Blocks(p) = {p.order[i] : i \in 1 .. Len(p.order)}
  BY <1>2 DEF Blocks, ToSet
<1>4. codes = [i \in DOMAIN p.order |-> codes[i]]
  BY DEF BlockCodes
<1>5. IsSequence(codes) /\ Len(codes) = Len(p.order)
  BY <1>1, <1>4, MappedIsSequence
<1>6. \A i \in 1 .. Len(codes) : codes[i] = printBasicBlock(p, p.order[i])
  BY <1>2, <1>5 DEF BlockCodes
<1>7. ASSUME NEW i \in 1 .. Len(codes) PROVE IsSequence(codes[i])
  <2>1. p.order[i] \in Blocks(p)
    BY <1>3, <1>5
  <2>2. IsSequence(printBasicBlock(p, p.order[i]))
    BY <2>1, BlockIsSequence
  <2> QED
    BY <1>6, <2>2
<1>8. printFunctionBody(p) = FlattenSeq(codes)
  BY DEF printFunctionBody, BlockCodes
<1> HIDE DEF codes
<1>9. /\ IsSequence(printFunctionBody(p))
      /\ \A i \in 1 .. Len(codes) : ToSet(codes[i]) \subseteq ToSet(printFunctionBody(p))
  BY <1>5, <1>7, <1>8, FlattenIsSequence
<1>10. \A b \in Blocks(p) : ToSet(printBasicBlock(p, b)) \subseteq ToSet(printFunctionBody(p))
  BY <1>3, <1>5, <1>6, <1>9
<1> QED
  BY <1>1, <1>2, <1>3, <1>5, <1>6, <1>8, <1>9, <1>10 DEF codes

\* The targets of the jumps are in the code.
LEMMA BlockHasLabel ==
  ASSUME NEW p, WellFormed(p), NEW b \in Blocks(p)
  PROVE  HasLabel(p, BlockLabel(b))
  BY BlockIsSequence, CodeIsSequence DEF HasLabel

LEMMA SelectHasLabels ==
  ASSUME NEW p, WellFormed(p), NEW b \in Blocks(p), NEW k \in 1 .. Len(Body(p, b)),
         Body(p, b)[k].op = "select"
  PROVE  /\ HasLabel(p, SelectLabel(Body(p, b)[k], "a"))
         /\ HasLabel(p, SelectLabel(Body(p, b)[k], "b"))
<1> DEFINE inst == Body(p, b)[k]
<1>1. printInstruction(inst) = printSelect(inst)
  BY DEF printInstruction
<1>2. /\ IsSequence(printInstruction(inst))
      /\ Op("label", SelectLabel(inst, "a")) \in ToSet(printInstruction(inst))
      /\ Op("label", SelectLabel(inst, "b")) \in ToSet(printInstruction(inst))
  BY <1>1, SelectIsSequence
<1>3. ToSet(printInstruction(inst)) \subseteq ToSet(printInstruction(inst) \o Store(inst.dest))
  BY <1>2, StoreIsSequence, ConcatIsSequence
<1>4. DOMAIN Body(p, b) = 1 .. Len(Body(p, b)) /\ Len(Pieces(p, b)) = Len(Body(p, b))
  BY WellFormedBlock, SequenceIsFunction, BlockIsSequence
<1>5. Pieces(p, b)[k] = printInstruction(inst) \o Store(inst.dest)
  BY <1>4 DEF Pieces
<1>6. ToSet(Pieces(p, b)[k]) \subseteq ToSet(printBasicBlock(p, b))
  BY <1>4, BlockIsSequence
<1>7. ToSet(printBasicBlock(p, b)) \subseteq ToSet(printFunctionBody(p))
  BY CodeIsSequence
<1> HIDE DEF inst
<1>8. ToSet(printInstruction(inst)) \subseteq ToSet(printFunctionBody(p))
  BY <1>3, <1>5, <1>6, <1>7
<1> QED
  BY <1>2, <1>8 DEF HasLabel, inst

LEMMA PhiHasLabel ==
  ASSUME NEW p, WellFormed(p), NEW b \in Blocks(p), Term(p, b).op = "condbr",
         Term(p, b).dests[1] # Term(p, b).dests[2], HasPhis(p, Term(p, b).dests[1])
  PROVE  HasLabel(p, PhiLabel(Term(p, b).dests[1], b))
<1> DEFINE term == Term(p, b)
           yes == term.dests[1]
           no == term.dests[2]
           label == Op("label", PhiLabel(yes, b))
           branch == <<Op("ifne", PhiLabel(yes, b))>> \o Jump(p, b, no)
           landing == <<label>> \o Jump(p, b, yes)
<1>1. yes \in Blocks(p) /\ no \in Blocks(p)
  BY Terminators
<1>2. printTerminator(p, b) = Load(term.cond) \o printCondBranch(p, b, yes, no)
  BY DEF printTerminator, Term
<1>3. printCondBranch(p, b, yes, no) = branch \o landing
  BY DEF printCondBranch
<1>4. IsSequence(branch)
  BY <1>1, SingletonIsSequence, JumpIsSequence, ConcatIsSequence
<1>5. IsSequence(<<label>>) /\ label \in ToSet(<<label>>) /\ IsSequence(Jump(p, b, yes))
  BY <1>1, SingletonIsSequence, JumpIsSequence
<1>6. IsSequence(landing) /\ label \in ToSet(landing)
  BY <1>5, ConcatIsSequence
<1>7. IsSequence(branch \o landing) /\ label \in ToSet(branch \o landing)
  <2> HIDE DEF branch, landing, label
  <2> QED
    BY <1>4, <1>6, ConcatIsSequence
<1>8. label \in ToSet(printTerminator(p, b))
  <2> HIDE DEF branch, landing, label, term, yes, no
  <2> QED
    BY <1>2, <1>3, <1>7, LoadIsSequence, ConcatIsSequence
<1>9. ToSet(printTerminator(p, b)) \subseteq ToSet(printFunctionBody(p))
  BY BlockIsSequence, CodeIsSequence
<1> QED
  BY <1>8, <1>9 DEF HasLabel

-----------------------------------------------------------------------------
(* What holds at each kind of label. *)

LEMMA EnteringAtLabel ==
  ASSUME NEW p, WellFormed(p), NEW b \in Blocks(p)
  PROVE  LabelStates(p, BlockLabel(b)) = Entering(p, b)
<1>1. \A c \in Blocks(p) : c \notin {"block", "a", "b", Returned}
  BY WellFormedBlock
<1>2. \A c \in Blocks(p) : BlockLabel(b) = BlockLabel(c) => c = b
  BY DEF BlockLabel
<1>3. \A c, src \in Blocks(p) : BlockLabel(b) # PhiLabel(c, src)
  BY <1>1 DEF BlockLabel, PhiLabel
<1>4. \A inst : BlockLabel(b) # SelectLabel(inst, "a") /\ BlockLabel(b) # SelectLabel(inst, "b")
  BY DEF BlockLabel, SelectLabel
<1>5. LabelStates(p, BlockLabel(b)) = {s \in States(p) : s \in Entering(p, b)}
  BY <1>2, <1>3, <1>4 DEF LabelStates
<1> QED
  BY <1>5 DEF Entering

LEMMA LeavingAtLabel ==
  ASSUME NEW p, WellFormed(p), NEW b \in Blocks(p), NEW src \in Blocks(p)
  PROVE  LabelStates(p, PhiLabel(b, src)) = Leaving(p, src, b)
<1>1. \A c \in Blocks(p) : c \notin {"block", "a", "b", Returned}
  BY WellFormedBlock
<1>2. \A c \in Blocks(p) : PhiLabel(b, src) # BlockLabel(c)
  BY <1>1 DEF BlockLabel, PhiLabel
<1>3. \A c, from \in Blocks(p) : PhiLabel(b, src) = PhiLabel(c, from) => c = b /\ from = src
  BY DEF PhiLabel
<1>4. \A inst : /\ PhiLabel(b, src) # SelectLabel(inst, "a")
                /\ PhiLabel(b, src) # SelectLabel(inst, "b")
  BY <1>1 DEF PhiLabel, SelectLabel
<1>5. LabelStates(p, PhiLabel(b, src)) = {s \in States(p) : s \in Leaving(p, src, b)}
  BY <1>2, <1>3, <1>4 DEF LabelStates
<1> QED
  BY <1>5 DEF Leaving, AtEnd

\* Values are assigned once, so a select is known from its labels.
LEMMA SelectedAtLabel ==
  ASSUME NEW p, WellFormed(p), NEW b \in Blocks(p), NEW k \in DOMAIN Body(p, b)
  PROVE  /\ LabelStates(p, SelectLabel(Body(p, b)[k], "a")) = Declined(p, b, k)
         /\ LabelStates(p, SelectLabel(Body(p, b)[k], "b")) = Computed(p, b, k)
<1> DEFINE inst == Body(p, b)[k]
           a == SelectLabel(inst, "a")
           z == SelectLabel(inst, "b")
<1>1. \A c \in Blocks(p) : c \notin {"block", "a", "b", Returned}
  BY WellFormedBlock
<1>2. \A c \in Blocks(p) : a # BlockLabel(c) /\ z # BlockLabel(c)
  BY DEF BlockLabel, SelectLabel
<1>3. \A c, src \in Blocks(p) : a # PhiLabel(c, src) /\ z # PhiLabel(c, src)
  BY <1>1 DEF PhiLabel, SelectLabel
<1>4. ASSUME NEW c \in Blocks(p), NEW j \in DOMAIN Body(p, c)
      PROVE  /\ a = SelectLabel(Body(p, c)[j], "a") <=> c = b /\ j = k
             /\ z = SelectLabel(Body(p, c)[j], "b") <=> c = b /\ j = k
             /\ a # SelectLabel(Body(p, c)[j], "b") /\ z # SelectLabel(Body(p, c)[j], "a")
  <2>1. inst.dest = Body(p, c)[j].dest => c = b /\ j = k
    BY DEF WellFormed, SingleAssignment, Body
  <2>2. /\ a = SelectLabel(Body(p, c)[j], "a") <=> inst.dest = Body(p, c)[j].dest
        /\ z = SelectLabel(Body(p, c)[j], "b") <=> inst.dest = Body(p, c)[j].dest
        /\ a # SelectLabel(Body(p, c)[j], "b") /\ z # SelectLabel(Body(p, c)[j], "a")
    BY DEF SelectLabel
  <2> QED
    BY <2>1, <2>2
<1> HIDE DEF a, z, inst
<1>5. LabelStates(p, a) = {s \in States(p) : s \in Declined(p, b, k)}
  BY <1>2, <1>3, <1>4 DEF LabelStates, a
<1>6. LabelStates(p, z) = {s \in States(p) : s \in Computed(p, b, k)}
  BY <1>2, <1>3, <1>4 DEF LabelStates, z
<1> QED
  BY <1>5, <1>6 DEF Declined, Computed, a, z, inst

-----------------------------------------------------------------------------
(* The instructions, one at a time. *)

LEMMA ValueTyped ==
  ASSUME NEW o \in Operands, NEW e \in Env
  PROVE  /\ Llvm!ValueOf(o, e) \in Bit
         /\ o.kind \in {"const", "value", "undef"}
         /\ o.kind # "undef" => Llvm!ValueOf(o, e) \in Llvm!Eval(o, e)
         /\ o.kind = "const" => Llvm!Eval(o, e) = {o.of}
         /\ o.kind = "value" => o = Value(o.of) /\ o.of \in Values /\ Llvm!Eval(o, e) = {e[o.of]}
<1>1. \/ \E n \in {0, 1} : o = Constant(n)
      \/ \E v \in Values : o = Value(v)
      \/ o = Undef
  BY DEF Operands
<1>2. ASSUME NEW n \in Bit, o = Constant(n)
      PROVE  /\ Llvm!ValueOf(o, e) \in Bit /\ o.kind = "const"
             /\ Llvm!ValueOf(o, e) \in Llvm!Eval(o, e) /\ Llvm!Eval(o, e) = {o.of}
  <2>1. o.kind = "const" /\ o.of = n
    BY <1>2 DEF Constant
  <2>2. Llvm!Eval(o, e) = {n}
    BY <2>1 DEF Llvm!Eval
  <2>3. Llvm!ValueOf(o, e) \in {n}
    BY <2>2 DEF Llvm!ValueOf
  <2> QED
    BY <2>1, <2>2, <2>3
<1>3. ASSUME NEW v \in Values, o = Value(v)
      PROVE  /\ Llvm!ValueOf(o, e) \in Bit /\ o.kind = "value" /\ o = Value(o.of) /\ o.of \in Values
             /\ Llvm!ValueOf(o, e) \in Llvm!Eval(o, e) /\ Llvm!Eval(o, e) = {e[o.of]}
  <2>1. o.kind = "value" /\ o.of = v
    BY <1>3 DEF Value
  <2>2. Llvm!Eval(o, e) = {e[v]}
    BY <2>1 DEF Llvm!Eval
  <2>3. Llvm!ValueOf(o, e) \in {e[v]}
    BY <2>2 DEF Llvm!ValueOf
  <2>4. e[v] \in Bit
    BY <1>3 DEF Env
  <2>5. Llvm!ValueOf(o, e) \in Bit /\ Llvm!ValueOf(o, e) \in Llvm!Eval(o, e)
    BY <2>2, <2>3, <2>4
  <2> QED
    BY <1>3, <2>1, <2>2, <2>5
<1>4. CASE o = Undef
  <2>1. o.kind = "undef"
    BY <1>4 DEF Undef
  <2>2. Llvm!Eval(o, e) = Bit
    BY <2>1 DEF Llvm!Eval, Llvm!Bits, Bit
  <2>3. Llvm!ValueOf(o, e) \in Bit
    <3>1. 0 \in Bit
      BY DEF Bit
    <3> QED
      BY <2>2, <3>1 DEF Llvm!ValueOf
  <2> QED
    BY <2>1, <2>3
<1>5. CASE \E n \in {0, 1} : o = Constant(n)
  <2>1. PICK n \in Bit : o = Constant(n)
    BY <1>5 DEF Bit
  <2> QED
    BY <1>2, <2>1
<1>6. CASE \E v \in Values : o = Value(v)
  BY <1>3, <1>6
<1> QED
  BY <1>1, <1>4, <1>5, <1>6

LEMMA ResultTyped ==
  ASSUME NEW inst, WellFormedInstruction(inst), NEW e \in Env
  PROVE  /\ Llvm!Result(inst, e) \in Bit
         /\ inst.dest \in Values
         /\ Executed(inst, e) \in Env
<1>1. inst.dest \in Values
  BY DEF WellFormedInstruction
<1>2. Llvm!Result(inst, e) \in Bit
  <2>1. CASE inst.op = "not" /\ inst.args[1] \in Operands
    <3>1. Llvm!Result(inst, e) = 1 - Llvm!ValueOf(inst.args[1], e)
      BY <2>1 DEF Llvm!Result
    <3>2. Llvm!ValueOf(inst.args[1], e) \in Bit
      BY <2>1, ValueTyped
    <3> QED
      BY <3>1, <3>2 DEF Bit
  <2>2. CASE inst.op = "select" /\ \A i \in 1 .. 3 : inst.args[i] \in Operands
    <3>1. Llvm!Result(inst, e) = IF Llvm!ValueOf(inst.args[1], e) = 1
                                   THEN Llvm!ValueOf(inst.args[2], e)
                                   ELSE Llvm!ValueOf(inst.args[3], e)
      BY <2>2 DEF Llvm!Result
    <3>2. 2 \in 1 .. 3 /\ 3 \in 1 .. 3
      OBVIOUS
    <3>3. /\ Llvm!ValueOf(inst.args[2], e) \in Bit
          /\ Llvm!ValueOf(inst.args[3], e) \in Bit
      BY <2>2, <3>2, ValueTyped
    <3> QED
      BY <3>1, <3>3
  <2> QED
    BY <2>1, <2>2 DEF WellFormedInstruction
<1>3. Executed(inst, e) \in Env
  BY <1>1, <1>2 DEF Executed, Env
<1> QED
  BY <1>1, <1>2, <1>3

\* The fields of a state, and when a record of four is one.
LEMMA StateFields ==
  ASSUME NEW p, NEW k, NEW l, NEW b, NEW v
  PROVE  LET s == State(k, l, b, v) IN
         /\ s.stack = k /\ s.locals = l /\ s.block = b /\ s.values = v
         /\ s \in States(p) <=>
              k \in Stacks /\ l \in Env /\ b \in Blocks(p) /\ v \in Env
  BY DEF State, States

LEMMA StateTyped ==
  ASSUME NEW p, NEW s \in States(p)
  PROVE  /\ s.stack \in Stacks /\ s.locals \in Env /\ s.block \in Blocks(p) /\ s.values \in Env
         /\ s = State(s.stack, s.locals, s.block, s.values)
  BY DEF State, States

LEMMA WithFields ==
  ASSUME NEW p, NEW s \in States(p), NEW k \in Stacks, NEW l \in Env,
         NEW r, r = With(s, k, l)
  PROVE  /\ r \in States(p)
         /\ r.stack = k /\ r.locals = l /\ r.block = s.block /\ r.values = s.values
         /\ End(p, r) = End(p, s)
  BY StateFields, StateTyped DEF With, End

\* A stack of one element.
LEMMA OneOperand ==
  ASSUME NEW n \in Bit
  PROVE  /\ <<>> \in Stacks /\ Append(<<>>, n) = One(n) /\ One(n) \in Stacks
         /\ One(n) # <<>> /\ Front(One(n)) = <<>> /\ Last(One(n)) = n
  BY DEF Front, Last, Stacks, One, Bit

LEMMA TripleOfLoad ==
  ASSUME NEW p, NEW o, o.kind # "undef", NEW P \in SUBSET States(p), NEW Q \in SUBSET States(p),
         \A s \in P : With(s, Append(s.stack, Llvm!ValueOf(o, s.locals)), s.locals) \in Q
  PROVE  Triple(p, Load(o), P, Q)
<1>1. Correct(p, Op("load", o), P, Q)
  BY DEF Correct, Op, TakeOperand, Pushed
<1> QED
  BY <1>1, TripleOfOne DEF Load

LEMMA TripleOfStore ==
  ASSUME NEW p, NEW v, NEW P \in SUBSET States(p), NEW Q \in SUBSET States(p),
         \A s \in P : /\ s.stack # <<>>
                      /\ With(s, Front(s.stack), [s.locals EXCEPT ![v] = Last(s.stack)]) \in Q
  PROVE  Triple(p, Store(v), P, Q)
<1>1. Correct(p, Op("store", v), P, Q)
  BY DEF Correct, Op, TakeOperand
<1> QED
  BY <1>1, TripleOfOne DEF Store

LEMMA TripleOfNot ==
  ASSUME NEW p, NEW P \in SUBSET States(p), NEW Q \in SUBSET States(p),
         \A s \in P : /\ s.stack # <<>>
                      /\ With(s, Append(Front(s.stack), 1 - Last(s.stack)), s.locals) \in Q
  PROVE  Triple(p, <<Op("not", 0)>>, P, Q)
<1>1. Correct(p, Op("not", 0), P, Q)
  BY DEF Correct, Op, TakeOperand
<1> QED
  BY <1>1, TripleOfOne

LEMMA TripleOfPop ==
  ASSUME NEW p, NEW P \in SUBSET States(p), NEW Q \in SUBSET States(p),
         \A s \in P : s.stack # <<>> /\ PoppedFrom(s) \in Q
  PROVE  Triple(p, <<Op("pop", 0)>>, P, Q)
<1>1. Correct(p, Op("pop", 0), P, Q)
  BY DEF Correct, Op, TakeOperand
<1> QED
  BY <1>1, TripleOfOne

LEMMA TripleOfGoto ==
  ASSUME NEW p, NEW l, HasLabel(p, l), NEW P \in SUBSET States(p), P \subseteq LabelStates(p, l)
  PROVE  Triple(p, <<Op("goto", l)>>, P, {})
<1>1. Correct(p, Op("goto", l), P, {})
  BY DEF Correct, Op, TakeOperand
<1> QED
  BY <1>1, TripleOfOne

LEMMA TripleOfIfne ==
  ASSUME NEW p, NEW l, HasLabel(p, l), NEW P \in SUBSET States(p), NEW Q \in SUBSET States(p),
         \A s \in P : /\ s.stack # <<>>
                      /\ Last(s.stack) = 1 => PoppedFrom(s) \in LabelStates(p, l)
                      /\ Last(s.stack) # 1 => PoppedFrom(s) \in Q
  PROVE  Triple(p, <<Op("ifne", l)>>, P, Q)
<1>1. Correct(p, Op("ifne", l), P, Q)
  BY DEF Correct, Op, TakeOperand
<1> QED
  BY <1>1, TripleOfOne

LEMMA TripleOfIfeq ==
  ASSUME NEW p, NEW l, HasLabel(p, l), NEW P \in SUBSET States(p), NEW Q \in SUBSET States(p),
         \A s \in P : /\ s.stack # <<>>
                      /\ Last(s.stack) = 0 => PoppedFrom(s) \in LabelStates(p, l)
                      /\ Last(s.stack) # 0 => PoppedFrom(s) \in Q
  PROVE  Triple(p, <<Op("ifeq", l)>>, P, Q)
<1>1. Correct(p, Op("ifeq", l), P, Q)
  BY DEF Correct, Op, TakeOperand
<1> QED
  BY <1>1, TripleOfOne

\* A label inside a block, or of a copy of phi operands.
LEMMA TripleOfInnerLabel ==
  ASSUME NEW p, NEW l, \A b \in Blocks(p) : l # BlockLabel(b)
  PROVE  Triple(p, <<Op("label", l)>>, LabelStates(p, l), LabelStates(p, l))
<1>1. LabelStates(p, l) \in SUBSET States(p)
  BY DEF LabelStates
<1>2. Correct(p, Op("label", l), LabelStates(p, l), LabelStates(p, l))
  BY DEF Correct, Op, TakeOperand
<1> QED
  BY <1>1, <1>2, TripleOfOne

LEMMA TripleOfBlockLabel ==
  ASSUME NEW p, WellFormed(p), NEW b \in Blocks(p)
  PROVE  Triple(p, <<Op("label", BlockLabel(b))>>, Entering(p, b), InBody(p, b, 0))
<1> DEFINE P == Entering(p, b)
           Q == InBody(p, b, 0)
           l == BlockLabel(b)
<1>1. LabelStates(p, l) = P
  BY EnteringAtLabel
<1>2. P \in SUBSET States(p) /\ Q \in SUBSET States(p)
  BY DEF Entering, InBody
<1>3. ASSUME NEW s \in P PROVE State(s.stack, s.locals, b, s.locals) \in Q
  <2>1. s \in States(p) /\ s.stack = <<>>
    BY DEF Entering
  <2>2. s.locals \in Env
    BY <2>1, StateTyped
  <2>3. After(Body(p, b), 0, s.locals) = s.locals
    BY WellFormedBlock, AfterUnfolds
  <2>4. State(s.stack, s.locals, b, s.locals) \in States(p)
    BY <2>1, <2>2, StateFields, StateTyped
  <2> QED
    BY <2>1, <2>3, <2>4, StateFields DEF InBody
<1>4. l[1] = b
  BY DEF BlockLabel
<1> HIDE DEF P, Q, l
<1>5. Correct(p, Op("label", l), P, Q)
  <2>1. \E c \in Blocks(p) : l = BlockLabel(c)
    BY DEF l
  <2> QED
    BY <1>1, <1>3, <1>4, <2>1 DEF Correct, Op, TakeOperand
<1> QED
  BY <1>2, <1>5, TripleOfOne DEF P, Q, l

-----------------------------------------------------------------------------
(* The body of a block computes what the bitcode says. *)

\* The first operand of the k-th instruction is on the operand stack.
Loaded(p, b, k) ==
  {s \in States(p) : /\ During(p, b, k, s)
                     /\ s.stack = One(Llvm!ValueOf(Body(p, b)[k].args[1], s.locals))}

\* The k-th instruction is a select, and its condition holds.
Accepted(p, b, k) ==
  {s \in States(p) : /\ During(p, b, k, s)
                     /\ s.stack = <<>>
                     /\ Llvm!ValueOf(Body(p, b)[k].args[1], s.locals) = 1}

LEMMA AssertionsAreStates ==
  ASSUME NEW p, NEW b, NEW k
  PROVE  /\ InBody(p, b, k) \in SUBSET States(p)
         /\ Computed(p, b, k) \in SUBSET States(p)
         /\ Declined(p, b, k) \in SUBSET States(p)
         /\ Accepted(p, b, k) \in SUBSET States(p)
         /\ Loaded(p, b, k) \in SUBSET States(p)
         /\ AtEnd(p, b) \in SUBSET States(p)
         /\ Entering(p, b) \in SUBSET States(p)
         /\ Finished(p) \in SUBSET States(p)
         /\ \A c : Leaving(p, b, c) \in SUBSET States(p)
         /\ \A c : Copying(p, b, c, k) \in SUBSET States(p)
  BY DEF InBody, Computed, Declined, Accepted, Loaded, AtEnd, Entering, Finished, Leaving, Copying

\* In the midst of the k-th instruction, with a value on the operand stack.
LEMMA Pushing ==
  ASSUME NEW p, NEW b, NEW k, NEW s \in States(p), During(p, b, k, s),
         NEW n \in Bit, NEW r, r = With(s, One(n), s.locals)
  PROVE  /\ r \in States(p) /\ During(p, b, k, r)
         /\ r.stack = One(n) /\ r.locals = s.locals
<1>1. s.locals \in Env /\ One(n) \in Stacks
  BY StateTyped, OneOperand
<1>2. /\ r \in States(p) /\ r.block = s.block /\ r.values = s.values
      /\ r.stack = One(n) /\ r.locals = s.locals
  BY <1>1, WithFields
<1>3. During(p, b, k, r)
  BY <1>2 DEF During
<1> QED
  BY <1>2, <1>3

\* Among the operands only Undef is one of that kind.
LEMMA OnlyUndefIsUndef == \A o \in Operands \ {Undef} : o.kind # "undef"
  BY DEF Operands, Constant, Value

LEMMA TripleOfFirstOperand ==
  ASSUME NEW p, WellFormed(p), NEW b \in Blocks(p), NEW k \in 1 .. Len(Body(p, b)),
         Body(p, b)[k].args[1] \in Operands \ {Undef}
  PROVE  Triple(p, Load(Body(p, b)[k].args[1]), InBody(p, b, k - 1), Loaded(p, b, k))
<1> DEFINE o == Body(p, b)[k].args[1]
<1>1. ASSUME NEW s \in InBody(p, b, k - 1)
      PROVE  With(s, Append(s.stack, Llvm!ValueOf(o, s.locals)), s.locals) \in Loaded(p, b, k)
  <2>1. s \in States(p) /\ During(p, b, k, s)
    BY DEF InBody, During
  <2>2. s.stack = <<>>
    BY DEF InBody
  <2> DEFINE n == Llvm!ValueOf(o, s.locals)
  <2>3. n \in Bit
    BY <2>1, StateTyped, ValueTyped
  <2> HIDE DEF n
  <2>4. With(s, Append(s.stack, n), s.locals) = With(s, One(n), s.locals)
    BY <2>2, <2>3, OneOperand
  <2>5. PICK r : r = With(s, One(n), s.locals)
    OBVIOUS
  <2>6. r \in States(p) /\ During(p, b, k, r) /\ r.stack = One(n) /\ r.locals = s.locals
    BY <2>1, <2>3, <2>5, Pushing
  <2>7. r \in Loaded(p, b, k)
    BY <2>6 DEF Loaded, n
  <2> QED
    BY <2>4, <2>5, <2>7 DEF n
<1>2. o.kind # "undef"
  BY OnlyUndefIsUndef
<1> HIDE DEF o
<1> QED
  BY <1>1, <1>2, TripleOfLoad, AssertionsAreStates DEF o

LEMMA TripleOfNegation ==
  ASSUME NEW p, WellFormed(p), NEW b \in Blocks(p), NEW k \in 1 .. Len(Body(p, b)),
         Body(p, b)[k].op = "not", Body(p, b)[k].args[1] \in Operands \ {Undef}
  PROVE  Triple(p, printInstruction(Body(p, b)[k]), InBody(p, b, k - 1), Computed(p, b, k))
<1> DEFINE inst == Body(p, b)[k]
           o == inst.args[1]
<1>1. printInstruction(inst) = Load(o) \o <<Op("not", 0)>>
  BY DEF printInstruction
<1>2. Triple(p, Load(o), InBody(p, b, k - 1), Loaded(p, b, k))
  BY TripleOfFirstOperand
<1>3. ASSUME NEW s \in Loaded(p, b, k)
      PROVE  /\ s.stack # <<>>
             /\ With(s, Append(Front(s.stack), 1 - Last(s.stack)), s.locals) \in Computed(p, b, k)
  <2> DEFINE n == Llvm!ValueOf(o, s.locals)
  <2>0. PICK r : r = With(s, Append(Front(s.stack), 1 - Last(s.stack)), s.locals)
    OBVIOUS
  <2>1. s \in States(p) /\ During(p, b, k, s) /\ s.stack = One(n)
    BY DEF Loaded
  <2>2. s.locals \in Env
    BY <2>1, StateTyped
  <2>3. n \in Bit /\ 1 - n \in Bit
    BY <2>2, ValueTyped DEF Bit
  <2>4. Llvm!Result(inst, s.locals) = 1 - n
    BY DEF Llvm!Result
  <2> HIDE DEF n
  <2>5. /\ s.stack # <<>> /\ Append(Front(s.stack), 1 - Last(s.stack)) = One(1 - n)
        /\ One(1 - n) \in Stacks
    BY <2>1, <2>3, OneOperand
  <2>6. r = With(s, One(1 - n), s.locals)
    BY <2>0, <2>5
  <2>7. /\ r \in States(p) /\ r.block = s.block /\ r.values = s.values
        /\ r.stack = One(1 - n) /\ r.locals = s.locals
    BY <2>1, <2>2, <2>5, <2>6, WithFields
  <2> HIDE DEF inst
  <2>8. r \in Computed(p, b, k)
    BY <2>1, <2>4, <2>7 DEF Computed, During, inst
  <2> QED
    BY <2>0, <2>5, <2>8
<1>4. Triple(p, <<Op("not", 0)>>, Loaded(p, b, k), Computed(p, b, k))
  BY <1>3, TripleOfNot, AssertionsAreStates
<1> QED
  BY <1>1, <1>2, <1>4, TripleOfConcat

LEMMA TripleOfSelect ==
  ASSUME NEW p, WellFormed(p), NEW b \in Blocks(p), NEW k \in 1 .. Len(Body(p, b)),
         Body(p, b)[k].op = "select",
         \A i \in 1 .. 3 : Body(p, b)[k].args[i] \in Operands \ {Undef}
  PROVE  Triple(p, printInstruction(Body(p, b)[k]), InBody(p, b, k - 1), Computed(p, b, k))
<1> DEFINE inst == Body(p, b)[k]
           o1 == inst.args[1]
           o2 == inst.args[2]
           o3 == inst.args[3]
           a == SelectLabel(inst, "a")
           z == SelectLabel(inst, "b")
<1>1. printInstruction(inst) =
        Load(o1) \o <<Op("ifeq", a)>> \o Load(o2) \o <<Op("goto", z), Op("label", a)>>
          \o Load(o3) \o <<Op("label", z)>>
  BY DEF printInstruction, printSelect
<1>2. o1 \in Operands /\ o2 \in Operands \ {Undef} /\ o3 \in Operands \ {Undef}
  OBVIOUS
<1>3. /\ LabelStates(p, a) = Declined(p, b, k)
      /\ LabelStates(p, z) = Computed(p, b, k)
  BY WellFormedBlock, SequenceIsFunction, SelectedAtLabel
<1>4. HasLabel(p, a) /\ HasLabel(p, z)
  BY SelectHasLabels
<1>5. \A c \in Blocks(p) : a # BlockLabel(c) /\ z # BlockLabel(c)
  BY DEF SelectLabel, BlockLabel
<1>6. \A e : Llvm!Result(inst, e) = IF Llvm!ValueOf(o1, e) = 1
                                      THEN Llvm!ValueOf(o2, e) ELSE Llvm!ValueOf(o3, e)
  BY DEF Llvm!Result
<1>7. /\ \A s \in Loaded(p, b, k) : /\ s \in States(p) /\ During(p, b, k, s)
                                    /\ s.stack = One(Llvm!ValueOf(o1, s.locals))
      /\ \A s \in States(p) :
           During(p, b, k, s) /\ s.stack = <<>> =>
             /\ Llvm!ValueOf(o1, s.locals) = 1 => s \in Accepted(p, b, k)
             /\ Llvm!ValueOf(o1, s.locals) # 1 => s \in Declined(p, b, k)
      /\ \A s \in Accepted(p, b, k) : /\ s \in States(p) /\ During(p, b, k, s) /\ s.stack = <<>>
                                      /\ Llvm!ValueOf(o1, s.locals) = 1
      /\ \A s \in Declined(p, b, k) : /\ s \in States(p) /\ During(p, b, k, s) /\ s.stack = <<>>
                                      /\ Llvm!ValueOf(o1, s.locals) # 1
      /\ \A s \in States(p) :
           During(p, b, k, s) /\ s.stack = One(Llvm!Result(inst, s.locals)) => s \in Computed(p, b, k)
  BY DEF Loaded, Accepted, Declined, Computed
<1>8. Triple(p, Load(o1), InBody(p, b, k - 1), Loaded(p, b, k))
  BY TripleOfFirstOperand
<1> HIDE DEF inst, o1, o2, o3, a, z
<1>9. Triple(p, <<Op("ifeq", a)>>, Loaded(p, b, k), Accepted(p, b, k))
  <2>1. ASSUME NEW s \in Loaded(p, b, k)
        PROVE  /\ s.stack # <<>>
               /\ Last(s.stack) = 0 => PoppedFrom(s) \in LabelStates(p, a)
               /\ Last(s.stack) # 0 => PoppedFrom(s) \in Accepted(p, b, k)
    <3> DEFINE n == Llvm!ValueOf(o1, s.locals)
    <3>0. PICK r : r = PoppedFrom(s)
      OBVIOUS
    <3>1. s \in States(p) /\ During(p, b, k, s) /\ s.stack = One(n) /\ s.locals \in Env
      BY <1>7, StateTyped
    <3>2. n \in Bit
      BY <1>2, <3>1, ValueTyped
    <3>3. /\ s.stack # <<>> /\ Front(s.stack) = <<>> /\ Last(s.stack) = n
          /\ <<>> \in Stacks
      BY <3>1, <3>2, OneOperand
    <3>4. /\ r \in States(p) /\ r.block = s.block /\ r.values = s.values
          /\ r.stack = <<>> /\ r.locals = s.locals
      BY <3>0, <3>1, <3>3, WithFields DEF PoppedFrom
    <3>5. During(p, b, k, r)
      BY <3>1, <3>4 DEF During
    <3>6. /\ n = 1 => r \in Accepted(p, b, k)
          /\ n # 1 => r \in Declined(p, b, k)
      BY <1>7, <3>4, <3>5
    <3> HIDE DEF n
    <3> QED
      BY <1>3, <3>0, <3>2, <3>3, <3>6 DEF Bit
  <2> QED
    BY <1>4, <2>1, TripleOfIfeq, AssertionsAreStates
<1>10. ASSUME NEW o \in Operands \ {Undef}, NEW P \in SUBSET States(p),
              \A s \in P : /\ During(p, b, k, s) /\ s.stack = <<>>
                           /\ Llvm!ValueOf(o, s.locals) = Llvm!Result(inst, s.locals)
       PROVE  Triple(p, Load(o), P, Computed(p, b, k))
  <2>1. ASSUME NEW s \in P
        PROVE  With(s, Append(s.stack, Llvm!ValueOf(o, s.locals)), s.locals) \in Computed(p, b, k)
    <3> DEFINE n == Llvm!ValueOf(o, s.locals)
    <3>1. s \in States(p) /\ During(p, b, k, s) /\ n = Llvm!Result(inst, s.locals)
      BY <1>10
    <3>2. s.stack = <<>>
      BY <1>10
    <3>3. n \in Bit
      BY <3>1, StateTyped, ValueTyped
    <3> HIDE DEF n
    <3>4. With(s, Append(s.stack, n), s.locals) = With(s, One(n), s.locals)
      BY <3>2, <3>3, OneOperand
    <3>5. PICK r : r = With(s, One(n), s.locals)
      OBVIOUS
    <3>6. r \in States(p) /\ During(p, b, k, r) /\ r.stack = One(n) /\ r.locals = s.locals
      BY <3>1, <3>3, <3>5, Pushing
    <3>7. r \in Computed(p, b, k)
      BY <1>7, <3>1, <3>6
    <3> QED
      BY <3>4, <3>5, <3>7 DEF n
  <2>2. o.kind # "undef"
    BY OnlyUndefIsUndef
  <2> QED
    BY <2>1, <2>2, TripleOfLoad, AssertionsAreStates
<1>11. Triple(p, Load(o2), Accepted(p, b, k), Computed(p, b, k))
  BY <1>2, <1>6, <1>7, <1>10, AssertionsAreStates
<1>12. Triple(p, Load(o3), Declined(p, b, k), Computed(p, b, k))
  BY <1>2, <1>6, <1>7, <1>10, AssertionsAreStates
<1>13. Triple(p, <<Op("goto", z), Op("label", a)>>, Computed(p, b, k), Declined(p, b, k))
  <2>1. Triple(p, <<Op("goto", z)>>, Computed(p, b, k), {})
    BY <1>3, <1>4, TripleOfGoto, AssertionsAreStates
  <2>2. Triple(p, <<Op("label", a)>>, Declined(p, b, k), Declined(p, b, k))
    BY <1>3, <1>5, TripleOfInnerLabel
  <2>3. Triple(p, <<Op("label", a)>>, {}, Declined(p, b, k))
    BY <2>2, TripleWeakens
  <2>4. <<Op("goto", z), Op("label", a)>> = <<Op("goto", z)>> \o <<Op("label", a)>>
    OBVIOUS
  <2> QED
    BY <2>1, <2>3, <2>4, TripleOfConcat
<1>14. Triple(p, <<Op("label", z)>>, Computed(p, b, k), Computed(p, b, k))
  BY <1>3, <1>5, TripleOfInnerLabel
<1>15. Triple(p, Load(o1) \o <<Op("ifeq", a)>>, InBody(p, b, k - 1), Accepted(p, b, k))
  BY <1>8, <1>9, TripleOfConcat
<1>16. Triple(p, Load(o1) \o <<Op("ifeq", a)>> \o Load(o2), InBody(p, b, k - 1), Computed(p, b, k))
  BY <1>11, <1>15, TripleOfConcat
<1>17. Triple(p, Load(o1) \o <<Op("ifeq", a)>> \o Load(o2) \o <<Op("goto", z), Op("label", a)>>,
              InBody(p, b, k - 1), Declined(p, b, k))
  BY <1>13, <1>16, TripleOfConcat
<1>18. Triple(p, Load(o1) \o <<Op("ifeq", a)>> \o Load(o2) \o <<Op("goto", z), Op("label", a)>>
                   \o Load(o3), InBody(p, b, k - 1), Computed(p, b, k))
  BY <1>12, <1>17, TripleOfConcat
<1>19. Triple(p, printInstruction(inst), InBody(p, b, k - 1), Computed(p, b, k))
  BY <1>1, <1>14, <1>18, TripleOfConcat
<1> QED
  BY <1>19 DEF inst

LEMMA TripleOfPiece ==
  ASSUME NEW p, WellFormed(p), UndefOnlyInPhis(p), NEW b \in Blocks(p), NEW k \in 1 .. Len(Body(p, b))
  PROVE  Triple(p, Pieces(p, b)[k], InBody(p, b, k - 1), InBody(p, b, k))
<1> DEFINE inst == Body(p, b)[k]
<1>1. IsSequence(Body(p, b)) /\ DOMAIN Body(p, b) = 1 .. Len(Body(p, b))
  BY WellFormedBlock, SequenceIsFunction
<1>2. WellFormedInstruction(inst)
  BY <1>1, WellFormedBlock
<1>3. Pieces(p, b)[k] = printInstruction(inst) \o Store(inst.dest)
  BY <1>1 DEF Pieces
<1>4. Triple(p, printInstruction(inst), InBody(p, b, k - 1), Computed(p, b, k))
  <2>0. \A i : i \in 1 .. 3 <=> i = 1 \/ i = 2 \/ i = 3
    OBVIOUS
  <2>1. \/ inst.op = "not" /\ inst.args[1] \in Operands \ {Undef}
        \/ /\ inst.op = "select"
           /\ \A i \in 1 .. 3 : inst.args[i] \in Operands \ {Undef}
    BY <1>1, <1>2, <2>0 DEF WellFormedInstruction, UndefOnlyInPhis, Body
  <2> QED
    BY <2>1, TripleOfNegation, TripleOfSelect
<1>5. Triple(p, Store(inst.dest), Computed(p, b, k), InBody(p, b, k))
  <2>1. ASSUME NEW s \in Computed(p, b, k)
        PROVE  /\ s.stack # <<>>
               /\ With(s, Front(s.stack), [s.locals EXCEPT ![inst.dest] = Last(s.stack)])
                    \in InBody(p, b, k)
    <3> DEFINE n == Llvm!Result(inst, s.locals)
    <3>0. PICK r : r = With(s, Front(s.stack), [s.locals EXCEPT ![inst.dest] = Last(s.stack)])
      OBVIOUS
    <3>1. s \in States(p) /\ During(p, b, k, s) /\ s.stack = One(n) /\ s.locals \in Env
      BY StateTyped DEF Computed
    <3>2. n \in Bit /\ Executed(inst, s.locals) \in Env
      BY <1>2, <3>1, ResultTyped
    <3>3. /\ s.stack # <<>> /\ Front(s.stack) = <<>> /\ Last(s.stack) = n
          /\ <<>> \in Stacks
      BY <3>1, <3>2, OneOperand
    <3>4. [s.locals EXCEPT ![inst.dest] = Last(s.stack)] = Executed(inst, s.locals)
      BY <3>3 DEF Executed
    <3>5. /\ r \in States(p) /\ r.block = s.block /\ r.values = s.values
          /\ r.stack = <<>> /\ r.locals = Executed(inst, s.locals)
      BY <3>0, <3>1, <3>2, <3>3, <3>4, WithFields
    <3>6. After(Body(p, b), k, s.values) = Executed(inst, After(Body(p, b), k - 1, s.values))
      BY <1>1, AfterUnfolds
    <3> HIDE DEF n, inst
    <3>7. r \in InBody(p, b, k)
      BY <3>1, <3>5, <3>6 DEF InBody, During
    <3> QED
      BY <3>0, <3>3, <3>7
  <2> QED
    BY <2>1, TripleOfStore, AssertionsAreStates
<1> QED
  BY <1>3, <1>4, <1>5, TripleOfConcat

LEMMA TripleOfBody ==
  ASSUME NEW p, WellFormed(p), UndefOnlyInPhis(p), NEW b \in Blocks(p)
  PROVE  Triple(p, FlattenSeq(Pieces(p, b)), InBody(p, b, 0), AtEnd(p, b))
<1> DEFINE n == Len(Body(p, b))
           I == [k \in 0 .. n |-> InBody(p, b, k)]
<1>1. IsSequence(Body(p, b)) /\ n \in Nat
  BY WellFormedBlock, SequenceIsFunction
<1>2. IsSequence(Pieces(p, b)) /\ Len(Pieces(p, b)) = n
  BY BlockIsSequence
<1>3. I \in [0 .. n -> SUBSET States(p)] /\ I[0] = InBody(p, b, 0) /\ I[n] = InBody(p, b, n)
  BY <1>1, AssertionsAreStates
<1>4. ASSUME NEW k \in 1 .. n PROVE Triple(p, Pieces(p, b)[k], I[k - 1], I[k])
  <2>1. k \in 0 .. n /\ k - 1 \in 0 .. n
    BY <1>1
  <2>2. I[k - 1] = InBody(p, b, k - 1) /\ I[k] = InBody(p, b, k)
    BY <2>1
  <2> HIDE DEF I
  <2> QED
    BY <2>2, TripleOfPiece
<1>5. InBody(p, b, n) = AtEnd(p, b)
  BY <1>1, AfterUnfolds DEF InBody, AtEnd, End
<1> HIDE DEF n, I
<1>6. Triple(p, FlattenSeq(Pieces(p, b)), I[0], I[n])
  BY <1>2, <1>3, <1>4, TripleOfFlatten
<1> QED
  BY <1>3, <1>5, <1>6

-----------------------------------------------------------------------------
(* The copies of phi operands. *)

\* What an operand may be does not depend on the types of the values.
LEMMA EvalOfOperand ==
  ASSUME NEW o \in Operands, NEW e
  PROVE  /\ o.kind \in {"const", "value", "undef"}
         /\ o.kind = "const" => Llvm!Eval(o, e) = {o.of}
         /\ o.kind = "value" => o = Value(o.of) /\ o.of \in Values /\ Llvm!Eval(o, e) = {e[o.of]}
         /\ o.kind = "undef" => Llvm!Eval(o, e) = Bit
<1>1. \/ \E n \in {0, 1} : o = Constant(n)
      \/ \E v \in Values : o = Value(v)
      \/ o = Undef
  BY DEF Operands
<1>2. CASE \E n \in {0, 1} : o = Constant(n)
  <2>1. o.kind = "const"
    BY <1>2 DEF Constant
  <2> QED
    BY <2>1 DEF Llvm!Eval
<1>3. CASE \E v \in Values : o = Value(v)
  <2>1. o.kind = "value" /\ o = Value(o.of) /\ o.of \in Values
    BY <1>3 DEF Value
  <2> QED
    BY <2>1 DEF Llvm!Eval
<1>4. CASE o = Undef
  <2>1. o.kind = "undef"
    BY <1>4 DEF Undef
  <2> QED
    BY <2>1 DEF Llvm!Eval, Llvm!Bits, Bit
<1> QED
  BY <1>1, <1>2, <1>3, <1>4

\* After earlier copies an operand is what it was before, unless it is a phi
\* that has been copied.
LEMMA OperandSurvives ==
  ASSUME NEW phis, NEW k \in Nat, NEW src, NEW env, NEW e \in AfterCopies(phis, k, src, env),
         NEW o \in Operands, o.kind # "undef",
         \A i \in 1 .. k : o # Value(phis[i].dest)
  PROVE  Llvm!ValueOf(o, e) \in Llvm!Eval(o, env)
<1>1. e \in Env
  BY DEF AfterCopies
<1>2. Llvm!ValueOf(o, e) \in Llvm!Eval(o, e)
  BY <1>1, ValueTyped
<1>3. CASE o.kind = "const"
  BY <1>2, <1>3, EvalOfOperand
<1>4. CASE o.kind = "value"
  <2>1. /\ o = Value(o.of) /\ o.of \in Values
        /\ Llvm!Eval(o, e) = {e[o.of]} /\ Llvm!Eval(o, env) = {env[o.of]}
    BY <1>4, EvalOfOperand
  <2>2. ~\E i \in 1 .. k : phis[i].dest = o.of
    BY <2>1
  <2>3. e[o.of] = env[o.of]
    BY <2>1, <2>2 DEF AfterCopies
  <2> QED
    BY <1>2, <2>1, <2>3
<1> QED
  BY <1>3, <1>4, EvalOfOperand

LEMMA CopyAdvances ==
  ASSUME NEW phis, NEW k \in Nat \ {0}, NEW src, NEW env,
         NEW e \in AfterCopies(phis, k - 1, src, env), NEW f \in Env,
         f[phis[k].dest] \in Llvm!Eval(phis[k].from[src], env),
         \A v \in Values : v # phis[k].dest => f[v] = e[v]
  PROVE  f \in AfterCopies(phis, k, src, env)
<1>1. k \in 1 .. k /\ (\A i \in 1 .. k - 1 : i \in 1 .. k) /\ (\A i \in 1 .. k : i = k \/ i \in 1 .. k - 1)
  OBVIOUS
<1>2. ASSUME NEW v \in Values
      PROVE  IF \E i \in 1 .. k : phis[i].dest = v
               THEN \E i \in 1 .. k : phis[i].dest = v /\ f[v] \in Llvm!Eval(phis[i].from[src], env)
               ELSE f[v] = env[v]
  <2>1. CASE v = phis[k].dest
    BY <1>1, <2>1
  <2>2. CASE v # phis[k].dest
    <3>1. f[v] = e[v]
      BY <2>2
    <3>2. IF \E i \in 1 .. k - 1 : phis[i].dest = v
            THEN \E i \in 1 .. k - 1 :
                   phis[i].dest = v /\ e[v] \in Llvm!Eval(phis[i].from[src], env)
            ELSE e[v] = env[v]
      BY DEF AfterCopies
    <3>3. CASE \E i \in 1 .. k - 1 : phis[i].dest = v
      BY <1>1, <3>1, <3>2, <3>3
    <3>4. CASE ~\E i \in 1 .. k - 1 : phis[i].dest = v
      BY <1>1, <2>2, <3>1, <3>2, <3>4
    <3> QED
      BY <3>3, <3>4
  <2> QED
    BY <2>1, <2>2
<1> QED
  BY <1>2 DEF AfterCopies

\* An edge of the function: a phi of its target has an operand for it.
LEMMA PhiOnEdge ==
  ASSUME NEW p, WellFormed(p), NEW src \in Blocks(p), NEW dest \in Blocks(p),
         dest \in Successors(Term(p, src)), NEW k \in 1 .. Len(Phis(p, dest))
  PROVE  LET phi == Phis(p, dest)[k] IN
         /\ phi.dest \in Values
         /\ phi.from[src] \in Operands
         /\ PhisCopyable(p) => \A i \in 1 .. k - 1 : phi.from[src] # Value(Phis(p, dest)[i].dest)
<1> DEFINE phis == Phis(p, dest)
<1>1. IsSequence(phis) /\ Len(phis) \in Nat /\ DOMAIN phis = 1 .. Len(phis)
  BY WellFormedBlock, SequenceIsFunction
<1>2. WellFormedPhi(p, dest, phis[k])
  BY <1>1, WellFormedBlock
<1>3. phis[k].dest \in Values /\ src \in DOMAIN phis[k].from /\ phis[k].from[src] \in Operands
  BY <1>2 DEF WellFormedPhi, Term
<1>4. ASSUME PhisCopyable(p), NEW i \in 1 .. k - 1
      PROVE  phis[k].from[src] # Value(phis[i].dest)
  <2>1. i \in DOMAIN phis /\ k \in DOMAIN phis /\ i < k
    BY <1>1
  <2>2. \A m, n \in DOMAIN phis : m < n =>
          \A b \in DOMAIN phis[n].from : phis[n].from[b] # Value(phis[m].dest)
    BY <1>4 DEF PhisCopyable, NoPhiReadsEarlierPhi, Phis
  <2> QED
    BY <1>3, <2>1, <2>2
<1> QED
  BY <1>3, <1>4

LEMMA TripleOfCopy ==
  ASSUME NEW p, WellFormed(p), NEW src \in Blocks(p), NEW dest \in Blocks(p),
         dest \in Successors(Term(p, src)), NEW k \in 1 .. Len(Phis(p, dest))
  PROVE  Triple(p, CopyPhi(Phis(p, dest)[k], src),
                Copying(p, src, dest, k - 1), Copying(p, src, dest, k))
<1> DEFINE phis == Phis(p, dest)
           phi == phis[k]
           o == phi.from[src]
           v == phi.dest
           P == Copying(p, src, dest, k - 1)
           Q == Copying(p, src, dest, k)
<1>0. k \in Nat \ {0} /\ k - 1 \in Nat
  BY WellFormedBlock, SequenceIsFunction
<1>1. /\ v \in Values /\ o \in Operands
      /\ PhisCopyable(p) => \A i \in 1 .. k - 1 : o # Value(phis[i].dest)
  BY PhiOnEdge
<1>2. P \in SUBSET States(p) /\ Q \in SUBSET States(p)
  BY AssertionsAreStates
<1>3. ASSUME NEW s \in P
      PROVE  /\ s \in States(p) /\ s.stack = <<>> /\ s.block = src
             /\ PhisCopyable(p) =>
                  /\ Llvm!Target(Term(p, src), End(p, s)) = dest
                  /\ s.locals \in AfterCopies(phis, k - 1, src, End(p, s))
  BY DEF Copying
<1>4. ASSUME NEW s \in States(p), s.stack = <<>>, s.block = src,
             PhisCopyable(p) =>
               /\ Llvm!Target(Term(p, src), End(p, s)) = dest
               /\ s.locals \in AfterCopies(phis, k, src, End(p, s))
      PROVE  s \in Q
  BY <1>4 DEF Copying
<1> HIDE DEF P, Q
<1>5. CASE o.kind = "undef"
  <2>1. CopyPhi(phi, src) = <<>>
    BY <1>5 DEF CopyPhi, IsUndef
  <2>2. ASSUME NEW s \in P PROVE s \in Q
    <3>1. s \in States(p) /\ s.locals \in Env
      BY <1>3, StateTyped
    <3>2. ASSUME PhisCopyable(p) PROVE s.locals \in AfterCopies(phis, k, src, End(p, s))
      <4>1. Llvm!Eval(o, End(p, s)) = Bit
        BY <1>1, <1>5, EvalOfOperand
      <4>2. s.locals[v] \in Bit
        BY <1>1, <3>1 DEF Env
      <4>3. s.locals \in AfterCopies(phis, k - 1, src, End(p, s))
        BY <1>3, <3>2
      <4> HIDE DEF phis
      <4> QED
        BY <1>0, <3>1, <4>1, <4>2, <4>3, CopyAdvances
    <3> QED
      BY <1>3, <1>4, <3>1, <3>2
  <2>3. Triple(p, <<>>, P, P)
    BY <1>2, TripleOfNothing
  <2>4. P \subseteq Q
    BY <2>2
  <2>5. Triple(p, <<>>, P, Q)
    BY <2>3, <2>4, TripleWeakens
  <2> QED
    BY <2>1, <2>5 DEF P, Q
<1>6. CASE o.kind # "undef"
  <2> DEFINE M == {s \in States(p) :
                     /\ s.block = src
                     /\ \E n \in Bit :
                          /\ s.stack = One(n)
                          /\ PhisCopyable(p) =>
                               /\ Llvm!Target(Term(p, src), End(p, s)) = dest
                               /\ s.locals \in AfterCopies(phis, k - 1, src, End(p, s))
                               /\ n \in Llvm!Eval(o, End(p, s))}
  <2>1. CopyPhi(phi, src) = Load(o) \o Store(v)
    BY <1>6 DEF CopyPhi, IsUndef
  <2>2. ASSUME NEW s \in P
        PROVE  With(s, Append(s.stack, Llvm!ValueOf(o, s.locals)), s.locals) \in M
    <3> DEFINE n == Llvm!ValueOf(o, s.locals)
    <3>1. s \in States(p) /\ s.locals \in Env /\ s.block = src
      BY <1>3, StateTyped
    <3>2. s.stack = <<>>
      BY <1>3
    <3>3. n \in Bit
      BY <1>1, <3>1, ValueTyped
    <3>4. ASSUME PhisCopyable(p)
          PROVE  /\ Llvm!Target(Term(p, src), End(p, s)) = dest
                 /\ s.locals \in AfterCopies(phis, k - 1, src, End(p, s))
                 /\ n \in Llvm!Eval(o, End(p, s))
      <4>1. /\ Llvm!Target(Term(p, src), End(p, s)) = dest
            /\ s.locals \in AfterCopies(phis, k - 1, src, End(p, s))
        BY <1>3, <3>4
      <4> HIDE DEF phis, o
      <4>2. n \in Llvm!Eval(o, End(p, s))
        BY <1>0, <1>1, <1>6, <3>4, <4>1, OperandSurvives
      <4> QED
        BY <4>1, <4>2
    <3> HIDE DEF n
    <3>5. With(s, Append(s.stack, n), s.locals) = With(s, One(n), s.locals)
      BY <3>2, <3>3, OneOperand
    <3>6. PICK r : r = With(s, One(n), s.locals)
      OBVIOUS
    <3>7. One(n) \in Stacks
      BY <3>3, OneOperand
    <3>8. /\ r \in States(p) /\ r.block = s.block /\ r.stack = One(n) /\ r.locals = s.locals
          /\ End(p, r) = End(p, s)
      BY <3>1, <3>6, <3>7, WithFields
    <3> HIDE DEF phis, o
    <3>9. r \in M
      BY <3>1, <3>3, <3>4, <3>8
    <3> QED
      BY <3>5, <3>6, <3>9 DEF n, o
  <2>3. ASSUME NEW s \in M
        PROVE  /\ s.stack # <<>>
               /\ With(s, Front(s.stack), [s.locals EXCEPT ![v] = Last(s.stack)]) \in Q
    <3>1. PICK n \in Bit :
            /\ s.stack = One(n)
            /\ PhisCopyable(p) =>
                 /\ Llvm!Target(Term(p, src), End(p, s)) = dest
                 /\ s.locals \in AfterCopies(phis, k - 1, src, End(p, s))
                 /\ n \in Llvm!Eval(o, End(p, s))
      OBVIOUS
    <3>2. s \in States(p) /\ s.block = src /\ s.locals \in Env
      BY StateTyped
    <3>3. /\ s.stack # <<>> /\ Front(s.stack) = <<>> /\ Last(s.stack) = n
      BY <3>1, OneOperand
    <3>4. <<>> \in Stacks
      BY <3>1, OneOperand
    <3> DEFINE f == [s.locals EXCEPT ![v] = n]
    <3>5. /\ f \in Env
          /\ f[v] = n
          /\ \A w \in Values : w # v => f[w] = s.locals[w]
      BY <1>1, <3>2 DEF Env
    <3>6. ASSUME PhisCopyable(p) PROVE f \in AfterCopies(phis, k, src, End(p, s))
      <4> HIDE DEF phis, f
      <4>1. /\ s.locals \in AfterCopies(phis, k - 1, src, End(p, s))
            /\ n \in Llvm!Eval(o, End(p, s))
        BY <3>1, <3>6
      <4> QED
        BY <1>0, <3>5, <4>1, CopyAdvances
    <3> HIDE DEF f
    <3>7. PICK r : r = With(s, <<>>, f)
      OBVIOUS
    <3>8. With(s, Front(s.stack), [s.locals EXCEPT ![v] = Last(s.stack)]) = r
      BY <3>3, <3>7 DEF f
    <3>9. /\ r \in States(p) /\ r.block = s.block /\ r.stack = <<>> /\ r.locals = f
          /\ End(p, r) = End(p, s)
      BY <3>2, <3>4, <3>5, <3>7, WithFields
    <3> HIDE DEF phis, o, v
    <3>10. r \in Q
      BY <1>4, <3>1, <3>2, <3>6, <3>9
    <3> QED
      BY <3>3, <3>8, <3>10
  <2>4. M \in SUBSET States(p)
    OBVIOUS
  <2> HIDE DEF M, o, v
  <2>5. Triple(p, Load(o), P, M)
    BY <1>2, <1>6, <2>2, <2>4, TripleOfLoad
  <2>6. Triple(p, Store(v), M, Q)
    BY <1>2, <2>3, <2>4, TripleOfStore
  <2>7. Triple(p, CopyPhi(phi, src), P, Q)
    BY <2>1, <2>5, <2>6, TripleOfConcat
  <2> QED
    BY <2>7 DEF P, Q
<1> QED
  BY <1>5, <1>6

LEMMA TripleOfPhiCopy ==
  ASSUME NEW p, WellFormed(p), NEW src \in Blocks(p), NEW dest \in Blocks(p),
         dest \in Successors(Term(p, src))
  PROVE  Triple(p, printPHICopy(p, src, dest),
                Leaving(p, src, dest), Copying(p, src, dest, Len(Phis(p, dest))))
<1> DEFINE n == Len(Phis(p, dest))
           I == [k \in 0 .. n |-> Copying(p, src, dest, k)]
           copies == Copies(p, src, dest)
<1>1. IsSequence(Phis(p, dest)) /\ n \in Nat /\ DOMAIN Phis(p, dest) = 1 .. n
  BY WellFormedBlock, SequenceIsFunction
<1>2. /\ IsSequence(copies) /\ Len(copies) = n
      /\ printPHICopy(p, src, dest) = FlattenSeq(copies)
  BY PhiCopyIsSequence
<1>3. /\ I \in [0 .. n -> SUBSET States(p)]
      /\ I[0] = Copying(p, src, dest, 0) /\ I[n] = Copying(p, src, dest, n)
  <2>1. \A k : Copying(p, src, dest, k) \in SUBSET States(p)
    BY AssertionsAreStates
  <2> HIDE DEF n
  <2> QED
    BY <1>1, <2>1
<1>4. ASSUME NEW k \in 1 .. n PROVE Triple(p, copies[k], I[k - 1], I[k])
  <2>1. k \in 0 .. n /\ k - 1 \in 0 .. n
    BY <1>1
  <2>2. I[k - 1] = Copying(p, src, dest, k - 1) /\ I[k] = Copying(p, src, dest, k)
    BY <2>1
  <2>3. k \in DOMAIN Phis(p, dest)
    BY <1>1
  <2>4. copies[k] = CopyPhi(Phis(p, dest)[k], src)
    BY <2>3 DEF Copies
  <2> HIDE DEF I, copies
  <2> QED
    BY <2>2, <2>4, TripleOfCopy
<1> HIDE DEF n, I, copies
<1>5. Triple(p, FlattenSeq(copies), I[0], I[n])
  BY <1>2, <1>3, <1>4, TripleOfFlatten
<1>6. Leaving(p, src, dest) \subseteq Copying(p, src, dest, 0)
  <2>1. ASSUME NEW s \in Leaving(p, src, dest) PROVE s \in Copying(p, src, dest, 0)
    <3>1. /\ s \in States(p) /\ s.stack = <<>> /\ s.block = src /\ s.locals = End(p, s)
          /\ Llvm!Target(Term(p, src), s.locals) = dest
      BY DEF Leaving, AtEnd
    <3>2. s.locals \in AfterCopies(Phis(p, dest), 0, src, End(p, s))
      BY <3>1, StateTyped DEF AfterCopies
    <3> QED
      BY <3>1, <3>2 DEF Copying
  <2> QED
    BY <2>1
<1> QED
  BY <1>2, <1>3, <1>5, <1>6, TripleWeakens DEF n

-----------------------------------------------------------------------------
(* The terminators: control moves where the bitcode says. *)

\* All the phi instructions of dest have their operands.
LEMMA CopiedEnters ==
  ASSUME NEW p, WellFormed(p), NEW src \in Blocks(p), NEW dest \in Blocks(p),
         dest \in Successors(Term(p, src))
  PROVE  Copying(p, src, dest, Len(Phis(p, dest))) \subseteq Entering(p, dest)
<1> DEFINE phis == Phis(p, dest)
           n == Len(phis)
<1>1. DOMAIN phis = 1 .. n
  BY WellFormedBlock, SequenceIsFunction
<1>2. Term(p, src).op # "ret"
  BY DEF Successors
<1>3. \A e : AfterCopies(phis, n, src, e) = Llvm!AfterPhis(phis, src, e)
  BY <1>1 DEF AfterCopies, Llvm!AfterPhis, Llvm!Bits, Env, Bit
<1> HIDE DEF phis, n
<1>4. ASSUME NEW s \in Copying(p, src, dest, n) PROVE s \in Entering(p, dest)
  <2>1. /\ s \in States(p) /\ s.stack = <<>> /\ s.block = src
        /\ PhisCopyable(p) =>
             /\ Llvm!Target(Term(p, src), End(p, s)) = dest
             /\ s.locals \in AfterCopies(phis, n, src, End(p, s))
    BY DEF Copying, phis
  <2>2. PhisCopyable(p) => Moves(p, s, dest)
    BY <1>2, <1>3, <2>1 DEF Moves, phis
  <2> QED
    BY <2>1, <2>2 DEF Entering
<1> QED
  BY <1>4 DEF n, phis

\* Without phi instructions there is nothing to copy.
LEMMA LeavingEnters ==
  ASSUME NEW p, WellFormed(p), NEW src \in Blocks(p), NEW dest \in Blocks(p),
         dest \in Successors(Term(p, src)), PhisCopyable(p) => ~HasPhis(p, dest)
  PROVE  Leaving(p, src, dest) \subseteq Entering(p, dest)
<1>1. ASSUME NEW s \in Leaving(p, src, dest) PROVE s \in Entering(p, dest)
  <2>1. /\ s \in States(p) /\ s.stack = <<>> /\ s.block = src /\ s.locals = End(p, s)
        /\ Llvm!Target(Term(p, src), s.locals) = dest
    BY DEF Leaving, AtEnd
  <2>2. ASSUME PhisCopyable(p) PROVE Moves(p, s, dest)
    <3>1. DOMAIN Phis(p, dest) = {}
      <4>1. Phis(p, dest) = <<>>
        BY <2>2 DEF HasPhis, Phis
      <4> QED
        BY <4>1
    <3>2. s.locals \in [Values -> Llvm!Bits]
      BY <2>1, StateTyped DEF Env, Bit, Llvm!Bits
    <3>3. s.locals \in Llvm!AfterPhis(Phis(p, dest), src, s.locals)
      BY <3>1, <3>2 DEF Llvm!AfterPhis
    <3>4. Term(p, src).op # "ret"
      BY DEF Successors
    <3> QED
      BY <2>1, <3>3, <3>4 DEF Moves
  <2> QED
    BY <2>1, <2>2 DEF Entering
<1> QED
  BY <1>1

LEMMA TripleOfJump ==
  ASSUME NEW p, WellFormed(p), NEW src \in Blocks(p), NEW dest \in Blocks(p),
         dest \in Successors(Term(p, src))
  PROVE  Triple(p, Jump(p, src, dest), Leaving(p, src, dest), {})
<1> DEFINE M == Copying(p, src, dest, Len(Phis(p, dest)))
<1>1. Triple(p, printPHICopy(p, src, dest), Leaving(p, src, dest), M)
  BY TripleOfPhiCopy
<1>2. M \in SUBSET States(p)
  BY DEF Copying
<1>3. M \subseteq LabelStates(p, BlockLabel(dest))
  BY CopiedEnters, EnteringAtLabel
<1> HIDE DEF M
<1>4. Triple(p, <<Op("goto", BlockLabel(dest))>>, M, {})
  BY <1>2, <1>3, BlockHasLabel, TripleOfGoto
<1> QED
  BY <1>1, <1>4, TripleOfConcat DEF Jump

\* At the end of block b, with the value its terminator looks at.
Tested(p, b) ==
  {s \in States(p) : /\ s.block = b /\ s.locals = End(p, s)
                     /\ s.stack = One(Llvm!ValueOf(Term(p, b).cond, s.locals))}

LEMMA TripleOfTest ==
  ASSUME NEW p, WellFormed(p), NEW b \in Blocks(p), Term(p, b).cond \in Operands \ {Undef}
  PROVE  Triple(p, Load(Term(p, b).cond), AtEnd(p, b), Tested(p, b))
<1> DEFINE o == Term(p, b).cond
<1>1. ASSUME NEW s \in AtEnd(p, b)
      PROVE  With(s, Append(s.stack, Llvm!ValueOf(o, s.locals)), s.locals) \in Tested(p, b)
  <2> DEFINE n == Llvm!ValueOf(o, s.locals)
  <2>1. s \in States(p) /\ s.block = b /\ s.locals = End(p, s) /\ s.locals \in Env
    BY StateTyped DEF AtEnd
  <2>2. s.stack = <<>>
    BY DEF AtEnd
  <2>3. n \in Bit
    BY <2>1, ValueTyped
  <2> HIDE DEF n
  <2>4. With(s, Append(s.stack, n), s.locals) = With(s, One(n), s.locals)
    BY <2>2, <2>3, OneOperand
  <2>5. PICK r : r = With(s, One(n), s.locals)
    OBVIOUS
  <2>6. One(n) \in Stacks
    BY <2>3, OneOperand
  <2>7. /\ r \in States(p) /\ r.block = s.block /\ r.stack = One(n) /\ r.locals = s.locals
        /\ End(p, r) = End(p, s)
    BY <2>1, <2>5, <2>6, WithFields
  <2>8. r \in Tested(p, b)
    BY <2>1, <2>7 DEF Tested, n
  <2> QED
    BY <2>4, <2>5, <2>8 DEF n
<1>2. o.kind # "undef"
  BY OnlyUndefIsUndef
<1> HIDE DEF o
<1>3. Tested(p, b) \in SUBSET States(p)
  BY DEF Tested
<1> QED
  BY <1>1, <1>2, <1>3, TripleOfLoad, AssertionsAreStates DEF o

\* The test takes its operand and control is at the end of the block again.
LEMMA TestedPops ==
  ASSUME NEW p, WellFormed(p), NEW b \in Blocks(p), Term(p, b).cond \in Operands,
         NEW s \in Tested(p, b)
  PROVE  /\ s.stack # <<>>
         /\ Last(s.stack) = Llvm!ValueOf(Term(p, b).cond, PoppedFrom(s).locals)
         /\ PoppedFrom(s) \in AtEnd(p, b)
<1> DEFINE n == Llvm!ValueOf(Term(p, b).cond, s.locals)
<1>1. s \in States(p) /\ s.block = b /\ s.locals = End(p, s) /\ s.stack = One(n) /\ s.locals \in Env
  BY StateTyped DEF Tested
<1>2. n \in Bit
  BY <1>1, ValueTyped
<1>3. s.stack # <<>> /\ Front(s.stack) = <<>> /\ Last(s.stack) = n /\ <<>> \in Stacks
  BY <1>1, <1>2, OneOperand
<1>4. PICK r : r = PoppedFrom(s)
  OBVIOUS
<1>5. /\ r \in States(p) /\ r.block = s.block /\ r.stack = <<>> /\ r.locals = s.locals
      /\ End(p, r) = End(p, s)
  BY <1>1, <1>3, <1>4, WithFields DEF PoppedFrom
<1>6. r \in AtEnd(p, b)
  BY <1>1, <1>5 DEF AtEnd
<1> QED
  BY <1>3, <1>4, <1>5, <1>6

LEMMA TripleOfCondBranch ==
  ASSUME NEW p, WellFormed(p), UndefOnlyInPhis(p), NEW b \in Blocks(p),
         Term(p, b).op = "condbr"
  PROVE  Triple(p, printTerminator(p, b), AtEnd(p, b), {})
<1> DEFINE term == Term(p, b)
           yes == term.dests[1]
           no == term.dests[2]
           label == IF HasPhis(p, yes) THEN PhiLabel(yes, b) ELSE BlockLabel(yes)
           landing == IF HasPhis(p, yes)
                        THEN <<Op("label", label)>> \o Jump(p, b, yes)
                        ELSE <<>>
<1>1. /\ term.cond \in Operands \ {Undef}
      /\ yes \in Blocks(p) /\ yes \in Successors(term)
      /\ no \in Blocks(p) /\ no \in Successors(term)
  BY Terminators DEF UndefOnlyInPhis, Term
<1>2. printTerminator(p, b) = Load(term.cond) \o printCondBranch(p, b, yes, no)
  BY DEF printTerminator, Term
<1>3. printCondBranch(p, b, yes, no) =
        IF yes = no THEN <<Op("pop", 0)>> \o Jump(p, b, yes)
                    ELSE <<Op("ifne", label)>> \o Jump(p, b, no) \o landing
  BY DEF printCondBranch, label, landing
<1>4. /\ Triple(p, Jump(p, b, yes), Leaving(p, b, yes), {})
      /\ Triple(p, Jump(p, b, no), Leaving(p, b, no), {})
  BY <1>1, TripleOfJump
<1>5. Triple(p, Load(term.cond), AtEnd(p, b), Tested(p, b))
  BY <1>1, TripleOfTest
<1>6. ASSUME NEW s \in AtEnd(p, b)
      PROVE  /\ Llvm!ValueOf(term.cond, s.locals) = 1 => s \in Leaving(p, b, yes)
             /\ Llvm!ValueOf(term.cond, s.locals) # 1 => s \in Leaving(p, b, no)
  BY DEF Leaving, Llvm!Target
<1>7. Tested(p, b) \in SUBSET States(p)
  BY DEF Tested
<1> HIDE DEF label, landing
<1>8. CASE yes = no
  <2>1. \A s \in Tested(p, b) : s.stack # <<>> /\ PoppedFrom(s) \in Leaving(p, b, yes)
    BY <1>1, <1>6, <1>8, TestedPops
  <2>2. Triple(p, <<Op("pop", 0)>>, Tested(p, b), Leaving(p, b, yes))
    BY <1>7, <2>1, TripleOfPop, AssertionsAreStates
  <2>3. Triple(p, <<Op("pop", 0)>> \o Jump(p, b, yes), Tested(p, b), {})
    BY <1>4, <2>2, TripleOfConcat
  <2> QED
    BY <1>2, <1>3, <1>5, <1>8, <2>3, TripleOfConcat
<1>9. CASE yes # no
  <2>1. HasLabel(p, label) /\ Leaving(p, b, yes) \subseteq LabelStates(p, label)
    <3>1. CASE HasPhis(p, yes)
      <4>1. label = PhiLabel(yes, b)
        BY <3>1 DEF label
      <4>2. LabelStates(p, label) = Leaving(p, b, yes)
        BY <1>1, <4>1, LeavingAtLabel
      <4>3. HasLabel(p, label)
        BY <1>9, <3>1, <4>1, PhiHasLabel
      <4> QED
        BY <4>2, <4>3
    <3>2. CASE ~HasPhis(p, yes)
      <4>1. label = BlockLabel(yes)
        BY <3>2 DEF label
      <4>2. HasLabel(p, label) /\ LabelStates(p, label) = Entering(p, yes)
        BY <1>1, <4>1, EnteringAtLabel, BlockHasLabel
      <4>3. Leaving(p, b, yes) \subseteq Entering(p, yes)
        BY <1>1, <3>2, LeavingEnters
      <4> QED
        BY <4>2, <4>3
    <3> QED
      BY <3>1, <3>2
  <2>2. ASSUME NEW s \in Tested(p, b)
        PROVE  /\ s.stack # <<>>
               /\ Last(s.stack) = 1 => PoppedFrom(s) \in LabelStates(p, label)
               /\ Last(s.stack) # 1 => PoppedFrom(s) \in Leaving(p, b, no)
    BY <1>1, <1>6, <2>1, TestedPops
  <2>3. Triple(p, <<Op("ifne", label)>>, Tested(p, b), Leaving(p, b, no))
    BY <1>7, <2>1, <2>2, TripleOfIfne, AssertionsAreStates
  <2>4. Triple(p, <<Op("ifne", label)>> \o Jump(p, b, no), Tested(p, b), {})
    BY <1>4, <2>3, TripleOfConcat
  <2>5. Triple(p, landing, {}, {})
    <3>1. CASE HasPhis(p, yes)
      <4>1. \A c \in Blocks(p) : label # BlockLabel(c)
        <5>1. \A c \in Blocks(p) : PhiLabel(yes, b) # BlockLabel(c)
          BY WellFormedBlock DEF PhiLabel, BlockLabel
        <5> QED
          BY <3>1, <5>1 DEF label
      <4>2. LabelStates(p, label) = Leaving(p, b, yes)
        BY <1>1, <3>1, LeavingAtLabel DEF label
      <4>3. Triple(p, <<Op("label", label)>>, Leaving(p, b, yes), Leaving(p, b, yes))
        BY <4>1, <4>2, TripleOfInnerLabel
      <4>4. Triple(p, <<Op("label", label)>> \o Jump(p, b, yes), Leaving(p, b, yes), {})
        BY <1>4, <4>3, TripleOfConcat
      <4>5. landing = <<Op("label", label)>> \o Jump(p, b, yes)
        BY <3>1 DEF landing
      <4> QED
        BY <4>4, <4>5, TripleWeakens
    <3>2. CASE ~HasPhis(p, yes)
      <4>1. landing = <<>>
        BY <3>2 DEF landing
      <4> QED
        BY <4>1, TripleOfNothing
    <3> QED
      BY <3>1, <3>2
  <2>6. Triple(p, <<Op("ifne", label)>> \o Jump(p, b, no) \o landing, Tested(p, b), {})
    BY <2>4, <2>5, TripleOfConcat
  <2> QED
    BY <1>2, <1>3, <1>5, <1>9, <2>6, TripleOfConcat
<1> QED
  BY <1>8, <1>9

\* The successors' phi instructions are not set, so that there must be none.
LEMMA TripleOfSwitch ==
  ASSUME NEW p, WellFormed(p), UndefOnlyInPhis(p), NEW b \in Blocks(p),
         Term(p, b).op = "switch"
  PROVE  Triple(p, printTerminator(p, b), AtEnd(p, b), {})
<1> DEFINE term == Term(p, b)
           i == Op("lookupswitch", [cases   |-> [n \in DOMAIN term.cases |-> BlockLabel(term.cases[n])],
                                    default |-> BlockLabel(term.default)])
           dest(n) == IF n \in DOMAIN term.cases THEN term.cases[n] ELSE term.default
<1>1. /\ term.cond \in Operands \ {Undef}
      /\ \A n : dest(n) \in Blocks(p) /\ dest(n) \in Successors(term)
  BY Terminators DEF UndefOnlyInPhis, Term
<1>2. printTerminator(p, b) = Load(term.cond) \o <<i>>
  BY DEF printTerminator, printSwitch, Term
<1>3. \A n : Case(i, n) = BlockLabel(dest(n))
  BY DEF Case, Op
<1>4. \A n : PhisCopyable(p) => ~HasPhis(p, dest(n))
  BY DEF PhisCopyable, NoSwitchIntoPhis, Term
<1>5. \A n : /\ HasLabel(p, BlockLabel(dest(n)))
             /\ Leaving(p, b, dest(n)) \subseteq LabelStates(p, BlockLabel(dest(n)))
  <2> HIDE DEF dest
  <2> QED
    BY <1>1, <1>4, LeavingEnters, EnteringAtLabel, BlockHasLabel
<1>6. ASSUME NEW s \in AtEnd(p, b)
      PROVE  s \in Leaving(p, b, dest(Llvm!ValueOf(term.cond, s.locals)))
  BY DEF Leaving, Llvm!Target
<1> HIDE DEF dest
<1>7. ASSUME NEW s \in Tested(p, b)
      PROVE  /\ s.stack # <<>>
             /\ HasLabel(p, Case(i, Last(s.stack)))
             /\ PoppedFrom(s) \in LabelStates(p, Case(i, Last(s.stack)))
  <2> DEFINE n == Last(s.stack)
             r == PoppedFrom(s)
  <2>1. s.stack # <<>> /\ n = Llvm!ValueOf(term.cond, r.locals) /\ r \in AtEnd(p, b)
    BY <1>1, TestedPops
  <2>2. r \in Leaving(p, b, dest(n))
    BY <1>6, <2>1
  <2> HIDE DEF n, r, i
  <2>3. HasLabel(p, Case(i, n)) /\ r \in LabelStates(p, Case(i, n))
    BY <1>3, <1>5, <2>2
  <2> QED
    BY <2>1, <2>3 DEF n, r
<1>8. i.op = "lookupswitch"
  BY DEF Op
<1> HIDE DEF i
<1>9. Correct(p, i, Tested(p, b), {})
  BY <1>7, <1>8 DEF Correct, TakeOperand
<1>10. Triple(p, <<i>>, Tested(p, b), {})
  BY <1>9, TripleOfOne DEF Tested
<1>11. Triple(p, Load(term.cond), AtEnd(p, b), Tested(p, b))
  BY <1>1, TripleOfTest
<1> QED
  BY <1>2, <1>10, <1>11, TripleOfConcat

LEMMA TripleOfTerminator ==
  ASSUME NEW p, WellFormed(p), UndefOnlyInPhis(p), NEW b \in Blocks(p)
  PROVE  Triple(p, printTerminator(p, b), AtEnd(p, b), {})
<1> DEFINE term == Term(p, b)
<1>1. CASE term.op = "br"
  <2>1. printTerminator(p, b) = Jump(p, b, term.dests[1])
    BY <1>1 DEF printTerminator, Term
  <2>2. term.dests[1] \in Blocks(p) /\ term.dests[1] \in Successors(term)
    BY <1>1, Terminators
  <2>3. AtEnd(p, b) \subseteq Leaving(p, b, term.dests[1])
    BY <1>1 DEF Leaving, Llvm!Target
  <2>4. Triple(p, Jump(p, b, term.dests[1]), Leaving(p, b, term.dests[1]), {})
    BY <2>2, TripleOfJump
  <2> QED
    BY <2>1, <2>3, <2>4, TripleWeakens
<1>2. CASE term.op = "ret"
  <2>1. printTerminator(p, b) = <<Op("return", 0)>>
    BY <1>2 DEF printTerminator, Term
  <2>2. AtEnd(p, b) \subseteq Finished(p)
    BY <1>2 DEF AtEnd, Finished
  <2>3. Correct(p, Op("return", 0), AtEnd(p, b), {})
    BY <2>2 DEF Correct, Op, TakeOperand
  <2> QED
    BY <2>1, <2>3, TripleOfOne, AssertionsAreStates
<1>3. term.op \in {"br", "condbr", "switch", "ret"}
  BY Terminators
<1> QED
  BY <1>1, <1>2, <1>3, TripleOfCondBranch, TripleOfSwitch

\* A block leads to other blocks or to the return, never past its end.
LEMMA TripleOfBlock ==
  ASSUME NEW p, WellFormed(p), UndefOnlyInPhis(p), NEW b \in Blocks(p)
  PROVE  Triple(p, printBasicBlock(p, b), Entering(p, b), {})
<1>1. Triple(p, <<Op("label", BlockLabel(b))>> \o FlattenSeq(Pieces(p, b)),
             Entering(p, b), AtEnd(p, b))
  BY TripleOfBlockLabel, TripleOfBody, TripleOfConcat
<1>2. printBasicBlock(p, b) =
        <<Op("label", BlockLabel(b))>> \o FlattenSeq(Pieces(p, b)) \o printTerminator(p, b)
  BY BlockIsSequence
<1> QED
  BY <1>1, <1>2, TripleOfTerminator, TripleOfConcat

\* The code of the whole function, started in its entry block.
LEMMA TripleOfCode ==
  ASSUME NEW p, WellFormed(p), UndefOnlyInPhis(p)
  PROVE  Triple(p, printFunctionBody(p), Entering(p, p.order[1]), {})
<1> DEFINE codes == BlockCodes(p)
           n == Len(p.order)
           I == [i \in 0 .. n |-> IF i = 0 THEN Entering(p, p.order[1]) ELSE {}]
<1>1. /\ n \in Nat \ {0} /\ IsSequence(codes) /\ Len(codes) = n
      /\ \A i \in 1 .. n : p.order[i] \in Blocks(p) /\ codes[i] = printBasicBlock(p, p.order[i])
      /\ printFunctionBody(p) = FlattenSeq(codes)
  BY CodeIsSequence
<1> HIDE DEF codes, n
<1>2. /\ I \in [0 .. n -> SUBSET States(p)]
      /\ I[0] = Entering(p, p.order[1]) /\ I[n] = {}
  <2>1. Entering(p, p.order[1]) \in SUBSET States(p)
    BY DEF Entering
  <2> QED
    BY <1>1, <2>1
<1>3. ASSUME NEW i \in 1 .. n PROVE Triple(p, codes[i], I[i - 1], I[i])
  <2>1. Triple(p, codes[i], Entering(p, p.order[i]), {})
    BY <1>1, TripleOfBlock
  <2>2. I[i - 1] \subseteq Entering(p, p.order[i]) /\ I[i] = {}
    BY <1>1
  <2> HIDE DEF I
  <2> QED
    BY <2>1, <2>2, TripleWeakens
<1> HIDE DEF I
<1>4. Triple(p, FlattenSeq(codes), I[0], I[n])
  BY <1>1, <1>2, <1>3, TripleOfFlatten
<1> QED
  BY <1>1, <1>2, <1>4

-----------------------------------------------------------------------------
(* The run of the code. *)

Entry(p) == Entering(p, p.order[1])

Annotation(p) == CHOOSE A : Annotates(p, printFunctionBody(p), A, Entry(p), {})

\* What is reached at the instruction that comes next.
Here == Annotation(program)[pc]

Now == State(stack, locals, entered.block, entered.values)

\* The run is at an instruction, in a state that is expected there.
Running == pc \in 1 .. Len(code) /\ Now \in Annotation(program)[pc]

Done == pc = 0 /\ stack = <<>> /\ locals \in Env /\ entered.block = Returned

IInv ==
  /\ program \in Programs /\ UndefOnlyInPhis(program)
  /\ code = printFunctionBody(program)
  /\ Running \/ Done

LEMMA AnnotationAnnotates ==
  ASSUME NEW p, WellFormed(p), UndefOnlyInPhis(p)
  PROVE  Annotates(p, printFunctionBody(p), Annotation(p), Entry(p), {})
  BY TripleOfCode DEF Triple, Annotation, Entry

\* A label of the code is where its assertion holds.
LEMMA LabelIsReached ==
  ASSUME NEW p, WellFormed(p), UndefOnlyInPhis(p), code = printFunctionBody(p), NEW l, HasLabel(p, l)
  PROVE  /\ Position(l) \in 1 .. Len(code)
         /\ Annotation(p)[Position(l)] = LabelStates(p, l)
<1>1. DOMAIN code = 1 .. Len(code)
  BY CodeIsSequence, SequenceIsFunction
<1>2. \E i \in DOMAIN code : code[i] = Op("label", l)
  BY DEF HasLabel, ToSet
<1>3. Position(l) \in DOMAIN code /\ code[Position(l)] = Op("label", l)
  BY <1>2 DEF Position
<1>4. Correct(p, Op("label", l), Annotation(p)[Position(l)], Annotation(p)[Position(l) + 1])
  BY <1>1, <1>3, AnnotationAnnotates DEF Annotates
<1>5. Annotation(p)[Position(l)] = LabelStates(p, l)
  BY <1>4 DEF Correct, Op
<1> QED
  BY <1>1, <1>3, <1>5

\* The instruction that comes next is correct, and there is one after it when
\* a state is expected there.
LEMMA Reached ==
  ASSUME IInv, pc # 0
  PROVE  /\ program \in Programs /\ WellFormed(program) /\ UndefOnlyInPhis(program)
         /\ code = printFunctionBody(program)
         /\ pc \in 1 .. Len(code) /\ Len(code) \in Nat
         /\ Now \in Here /\ Now \in States(program)
         /\ Correct(program, code[pc], Here, Annotation(program)[pc + 1])
         /\ \A s \in Annotation(program)[pc + 1] : pc + 1 \in 1 .. Len(code)
<1>1. /\ program \in Programs /\ WellFormed(program) /\ UndefOnlyInPhis(program)
      /\ code = printFunctionBody(program)
  BY ProgramsAssumption DEF IInv
<1>2. pc \in 1 .. Len(code) /\ Now \in Here
  BY DEF IInv, Running, Done, Here
<1>3. Len(code) \in Nat
  BY <1>1, CodeIsSequence, SequenceIsFunction
<1>4. Annotates(program, code, Annotation(program), Entry(program), {})
  BY <1>1, AnnotationAnnotates
<1>5. Here \in SUBSET States(program)
  BY <1>2, <1>3, <1>4 DEF Annotates, Here
<1>6. Correct(program, code[pc], Here, Annotation(program)[pc + 1])
  BY <1>2, <1>4 DEF Annotates, Here
<1>7. ASSUME NEW s \in Annotation(program)[pc + 1] PROVE pc + 1 \in 1 .. Len(code)
  <2>1. pc + 1 # Len(code) + 1
    BY <1>4, <1>7 DEF Annotates
  <2> QED
    BY <1>2, <1>3, <2>1
<1> QED
  BY <1>1, <1>2, <1>3, <1>5, <1>6, <1>7

LEMMA Starts ==
  ASSUME Init, UndefOnlyInPhis(program)
  PROVE  IInv
<1>1. /\ program \in Programs /\ WellFormed(program) /\ UndefOnlyInPhis(program)
      /\ code = printFunctionBody(program)
  BY ProgramsAssumption DEF Init
<1>2. Len(code) \in Nat
  BY <1>1, CodeIsSequence, SequenceIsFunction
<1>3. program.order[1] \in Blocks(program) /\ Head(program.order) = program.order[1]
  <2>1. Len(program.order) \in Nat \ {0} /\ DOMAIN program.order = 1 .. Len(program.order)
    BY <1>1, CodeIsSequence
  <2> QED
    BY <2>1 DEF Blocks, ToSet
<1>4. locals \in Env
  BY DEF Init, Llvm!InitialValues, Llvm!Bits, Env, Bit
<1>5. Now \in Entry(program)
  <2>1. PICK s : s = State(<<>>, locals, program.order[1], locals)
    OBVIOUS
  <2>2. Now = s
    BY <1>3, <2>1 DEF Init, Now
  <2>3. <<>> \in Stacks
    BY DEF Stacks
  <2>4. s \in States(program) /\ s.stack = <<>> /\ s.block = program.order[1] /\ s.values = s.locals
    BY <1>3, <1>4, <2>1, <2>3, StateFields
  <2> QED
    BY <2>2, <2>4 DEF Entry, Entering
<1>6. Annotates(program, code, Annotation(program), Entry(program), {})
  BY <1>1, AnnotationAnnotates
<1>7. Now \in Annotation(program)[1] /\ 1 # Len(code) + 1
  BY <1>5, <1>6 DEF Annotates
<1>8. 1 \in 1 .. Len(code)
  BY <1>2, <1>7
<1> QED
  BY <1>1, <1>7, <1>8 DEF Init, IInv, Running

\* An instruction that goes on to the next one.
LEMMA GoesOn ==
  ASSUME IInv, pc # 0, pc' = pc + 1, program' = program, code' = code,
         Now' \in Annotation(program)[pc + 1]
  PROVE  IInv'
<1>1. /\ program \in Programs /\ UndefOnlyInPhis(program)
      /\ code = printFunctionBody(program) /\ pc + 1 \in 1 .. Len(code)
  BY Reached
<1>2. Running'
  BY <1>1 DEF Running
<1> QED
  BY <1>1, <1>2 DEF IInv

\* An instruction that jumps.
LEMMA GoesTo ==
  ASSUME IInv, pc # 0, NEW l, HasLabel(program, l), pc' = Position(l),
         program' = program, code' = code, Now' \in LabelStates(program, l)
  PROVE  IInv'
<1>1. /\ program \in Programs /\ WellFormed(program) /\ UndefOnlyInPhis(program)
      /\ code = printFunctionBody(program)
  BY Reached
<1>2. pc' \in 1 .. Len(code) /\ Now' \in Annotation(program)[pc']
  BY <1>1, LabelIsReached
<1>3. Running'
  BY <1>2 DEF Running
<1> QED
  BY <1>1, <1>3 DEF IInv

\* The state that runs, and those the instructions lead to from it.
LEMMA NowFields ==
  /\ Now.stack = stack /\ Now.locals = locals
  /\ Now.block = entered.block /\ Now.values = entered.values
  BY StateFields DEF Now

LEMMA NextState ==
  ASSUME NEW k, NEW l, stack' = k, locals' = l, entered' = entered
  PROVE  Now' = With(Now, k, l)
  BY NowFields DEF Now, With

\* Passing a label: the states that are expected before and after it.
LEMMA AtLabel ==
  ASSUME IInv, PassLabel
  PROVE  /\ pc # 0
         /\ Now \in LabelStates(program, Arg)
         /\ IF \E b \in Blocks(program) : Arg = BlockLabel(b)
              THEN State(stack, locals, Arg[1], locals) \in Annotation(program)[pc + 1]
              ELSE Now \in Annotation(program)[pc + 1]
<1>1. pc # 0 /\ code[pc].op = "label"
  BY DEF PassLabel, At
<1>2. Now \in Here /\ Correct(program, code[pc], Here, Annotation(program)[pc + 1])
  BY <1>1, Reached
<1>3. /\ Here = LabelStates(program, Arg)
      /\ \A s \in Here : IF \E b \in Blocks(program) : Arg = BlockLabel(b)
                           THEN State(s.stack, s.locals, Arg[1], s.locals)
                                  \in Annotation(program)[pc + 1]
                           ELSE s \in Annotation(program)[pc + 1]
  BY <1>1, <1>2 DEF Correct, Arg
<1> QED
  BY <1>1, <1>2, <1>3, NowFields

\* The state at the return.
LEMMA AtReturn ==
  ASSUME IInv, Return
  PROVE  Now \in Finished(program)
<1>1. pc # 0 /\ code[pc].op = "return"
  BY DEF Return, At
<1>2. Now \in Here /\ Correct(program, code[pc], Here, Annotation(program)[pc + 1])
  BY <1>1, Reached
<1> QED
  BY <1>1, <1>2 DEF Correct

\* Every instruction leads to an expected state.
LEMMA StepKeeps ==
  ASSUME IInv, Step, UNCHANGED <<program, code>>
  PROVE  IInv'
<1> DEFINE next == Annotation(program)[pc + 1]
<1>1. pc # 0
  BY DEF Step, PassLabel, LoadOperand, StoreValue, Not, Pop, Goto, JumpIf, LookupSwitch, Return, At
<1>2. program' = program /\ code' = code
  OBVIOUS
<1>3. Now \in Here /\ Correct(program, code[pc], Here, next)
  BY <1>1, Reached
<1>4. CASE PassLabel
  <2>1. CASE \E b \in Blocks(program) : Arg = BlockLabel(b)
    <3>1. entered' = [block |-> Arg[1], values |-> locals] /\ stack' = stack /\ locals' = locals
      BY <1>4, <2>1 DEF PassLabel
    <3>2. Now' = State(stack, locals, Arg[1], locals)
      BY <3>1 DEF Now
    <3>3. Now' \in next
      BY <1>4, <2>1, <3>2, AtLabel
    <3> QED
      BY <1>1, <1>2, <1>4, <3>3, GoesOn DEF PassLabel, Continue
  <2>2. CASE ~\E b \in Blocks(program) : Arg = BlockLabel(b)
    <3>1. entered' = entered /\ stack' = stack /\ locals' = locals
      BY <1>4, <2>2 DEF PassLabel
    <3>2. Now' = Now
      BY <3>1 DEF Now
    <3>3. Now' \in next
      BY <1>4, <2>2, <3>2, AtLabel
    <3> QED
      BY <1>1, <1>2, <1>4, <3>3, GoesOn DEF PassLabel, Continue
  <2> QED
    BY <2>1, <2>2
<1>5. CASE LoadOperand
  <2>1. /\ code[pc].op = "load" /\ pc' = pc + 1
        /\ stack' = Append(stack, Pushed(Arg, locals)) /\ locals' = locals /\ entered' = entered
    BY <1>5 DEF LoadOperand, At, Continue
  <2>2. With(Now, Append(Now.stack, Pushed(Arg, Now.locals)), Now.locals) \in next
    BY <1>3, <2>1 DEF Correct, Arg
  <2>3. Now' = With(Now, Append(Now.stack, Pushed(Arg, Now.locals)), Now.locals)
    BY <2>1, NowFields, NextState
  <2> QED
    BY <1>1, <1>2, <2>1, <2>2, <2>3, GoesOn
<1>6. CASE StoreValue
  <2>1. /\ code[pc].op = "store" /\ pc' = pc + 1
        /\ stack' = Front(stack) /\ locals' = [locals EXCEPT ![Arg] = Last(stack)]
        /\ entered' = entered
    BY <1>6 DEF StoreValue, At, Continue, Top, Popped
  <2>2. With(Now, Front(Now.stack), [Now.locals EXCEPT ![Arg] = Last(Now.stack)]) \in next
    BY <1>3, <2>1 DEF Correct, Arg
  <2>3. Now' = With(Now, Front(Now.stack), [Now.locals EXCEPT ![Arg] = Last(Now.stack)])
    BY <2>1, NowFields, NextState
  <2> QED
    BY <1>1, <1>2, <2>1, <2>2, <2>3, GoesOn
<1>7. CASE Not
  <2>1. /\ code[pc].op = "not" /\ pc' = pc + 1
        /\ stack' = Append(Front(stack), 1 - Last(stack)) /\ locals' = locals /\ entered' = entered
    BY <1>7 DEF Not, At, Continue, Top, Popped
  <2>2. With(Now, Append(Front(Now.stack), 1 - Last(Now.stack)), Now.locals) \in next
    BY <1>3, <2>1 DEF Correct
  <2>3. Now' = With(Now, Append(Front(Now.stack), 1 - Last(Now.stack)), Now.locals)
    BY <2>1, NowFields, NextState
  <2> QED
    BY <1>1, <1>2, <2>1, <2>2, <2>3, GoesOn
<1>8. ASSUME stack' = Popped, locals' = locals, entered' = entered
      PROVE  Now' = PoppedFrom(Now) /\ Top = Last(Now.stack)
  BY <1>8, NowFields, NextState DEF PoppedFrom, Popped, Top
<1>9. CASE Pop
  <2>1. code[pc].op = "pop" /\ pc' = pc + 1 /\ Now' = PoppedFrom(Now)
    BY <1>8, <1>9 DEF Pop, At, Continue
  <2>2. PoppedFrom(Now) \in next
    BY <1>3, <2>1 DEF Correct
  <2> QED
    BY <1>1, <1>2, <2>1, <2>2, GoesOn
<1>10. CASE Goto
  <2>1. code[pc].op = "goto" /\ pc' = Position(Arg) /\ Now' = Now
    BY <1>10 DEF Goto, At, Now
  <2>2. HasLabel(program, Arg) /\ Now \in LabelStates(program, Arg)
    BY <1>3, <2>1 DEF Correct, Arg
  <2> QED
    BY <1>1, <1>2, <2>1, <2>2, GoesTo
<1>11. ASSUME NEW op, NEW n, JumpIf(op, n), HasLabel(program, Arg),
              PoppedFrom(Now) \in IF Last(Now.stack) = n THEN LabelStates(program, Arg) ELSE next
       PROVE  IInv'
  <2>1. /\ pc' = IF Top = n THEN Position(Arg) ELSE pc + 1
        /\ Now' = PoppedFrom(Now) /\ Top = Last(Now.stack)
    BY <1>8, <1>11 DEF JumpIf
  <2>2. CASE Top = n
    <3>1. pc' = Position(Arg) /\ Now' \in LabelStates(program, Arg)
      BY <1>11, <2>1, <2>2
    <3> QED
      BY <1>1, <1>2, <1>11, <3>1, GoesTo
  <2>3. CASE Top # n
    <3>1. pc' = pc + 1 /\ Now' \in next
      BY <1>11, <2>1, <2>3
    <3> QED
      BY <1>1, <1>2, <3>1, GoesOn
  <2> QED
    BY <2>2, <2>3
<1>12. CASE JumpIf("ifne", 1)
  <2>1. code[pc].op = "ifne"
    BY <1>12 DEF JumpIf, At
  <2>2. /\ HasLabel(program, Arg)
        /\ PoppedFrom(Now) \in IF Last(Now.stack) = 1 THEN LabelStates(program, Arg) ELSE next
    BY <1>3, <2>1 DEF Correct, Arg
  <2> QED
    BY <1>11, <1>12, <2>2
<1>13. CASE JumpIf("ifeq", 0)
  <2>1. code[pc].op = "ifeq"
    BY <1>13 DEF JumpIf, At
  <2>2. /\ HasLabel(program, Arg)
        /\ PoppedFrom(Now) \in IF Last(Now.stack) = 0 THEN LabelStates(program, Arg) ELSE next
    BY <1>3, <2>1 DEF Correct, Arg
  <2> QED
    BY <1>11, <1>13, <2>2
<1>14. CASE LookupSwitch
  <2>1. /\ code[pc].op = "lookupswitch" /\ pc' = Position(SwitchTarget)
        /\ Now' = PoppedFrom(Now) /\ Top = Last(Now.stack)
    BY <1>8, <1>14 DEF LookupSwitch, At
  <2>2. SwitchTarget = Case(code[pc], Last(Now.stack))
    BY <2>1 DEF SwitchTarget, Case, Arg
  <2>3. /\ HasLabel(program, SwitchTarget)
        /\ PoppedFrom(Now) \in LabelStates(program, SwitchTarget)
    BY <1>3, <2>1, <2>2 DEF Correct
  <2> QED
    BY <1>1, <1>2, <2>1, <2>3, GoesTo
<1>15. CASE Return
  <2>1. Now \in States(program) /\ Now.stack = <<>>
    BY <1>15, AtReturn DEF Finished
  <2>2. stack = <<>> /\ locals \in Env
    BY <2>1, NowFields, StateTyped
  <2>3. Done'
    BY <1>15, <2>2 DEF Return, Done
  <2> QED
    BY <1>2, <2>3 DEF IInv
<1> QED
  BY <1>4, <1>5, <1>6, <1>7, <1>9, <1>10, <1>12, <1>13, <1>14, <1>15 DEF Step

LEMMA NextKeeps ==
  ASSUME IInv, [Next]_vars
  PROVE  IInv'
<1>1. CASE UNCHANGED vars
  BY <1>1 DEF IInv, Running, Done, Now, vars
<1>2. CASE Terminated
  BY <1>1, <1>2 DEF Terminated
<1>3. CASE Step /\ UNCHANGED <<program, code>>
  BY <1>3, StepKeeps
<1> QED
  BY <1>1, <1>2, <1>3 DEF Next

LEMMA AlwaysIInv ==
  ASSUME \A p \in Programs : UndefOnlyInPhis(p)
  PROVE  Spec => []IInv
<1>1. Init => IInv
  BY Starts DEF Init
<1>2. IInv /\ [Next]_vars => IInv'
  BY NextKeeps
<1> QED
  BY <1>1, <1>2, PTL DEF Spec

-----------------------------------------------------------------------------
(* The theorems. *)

\* Every value is a bit and control stays in the code, for all functions in which
\* undef is an operand of phi instructions only (block.cc:27-64, branch.cc).
THEOREM TypeCorrect ==
  ASSUME \A p \in Programs : UndefOnlyInPhis(p)
  PROVE  Spec => []TypeOK
<1>1. ASSUME IInv PROVE TypeOK
  <2>1. CASE pc = 0
    <3>1. Done /\ code = printFunctionBody(program) /\ WellFormed(program)
      BY <1>1, <2>1, ProgramsAssumption DEF IInv, Running
    <3>2. Len(code) \in Nat
      BY <3>1, CodeIsSequence, SequenceIsFunction
    <3>3. stack \in Seq({0, 1, Long})
      BY <3>1 DEF Done
    <3> QED
      BY <2>1, <3>1, <3>2, <3>3 DEF Done, TypeOK, Env, Bit
  <2>2. CASE pc # 0
    <3>1. Now \in States(program) /\ pc \in 1 .. Len(code) /\ Len(code) \in Nat
      BY <1>1, <2>2, Reached
    <3>2. stack \in Stacks /\ locals \in Env /\ entered.block \in Blocks(program)
      BY <3>1, NowFields, StateTyped
    <3>3. Stacks \subseteq Seq({0, 1, Long})
      BY DEF Stacks, Bit
    <3> QED
      BY <3>1, <3>2, <3>3 DEF TypeOK, Env, Bit
  <2> QED
    BY <2>1, <2>2
<1> QED
  BY <1>1, AlwaysIInv, PTL

\* Whichever jump leads to it, a block starts with an empty operand stack, and
\* so does the return, for all functions in which undef is an operand of phi
\* instructions only: elsewhere it is loaded as a long (branch.cc:48-121,
\* const.cc:124-126).
THEOREM BlocksStartEmpty ==
  ASSUME \A p \in Programs : UndefOnlyInPhis(p)
  PROVE  Spec => []BlocksStartWithEmptyStack
<1>1. ASSUME IInv PROVE BlocksStartWithEmptyStack
  <2>1. ASSUME At("label"), NEW b \in Blocks(program), Arg = BlockLabel(b) PROVE stack = <<>>
    <3>1. pc # 0 /\ code[pc].op = "label"
      BY <2>1 DEF At
    <3>2. WellFormed(program) /\ Now \in Here
          /\ Correct(program, code[pc], Here, Annotation(program)[pc + 1])
      BY <1>1, <3>1, Reached
    <3>3. Here = LabelStates(program, BlockLabel(b))
      BY <2>1, <3>1, <3>2 DEF Correct, Arg
    <3>4. Now \in Entering(program, b)
      BY <3>2, <3>3, EnteringAtLabel
    <3> QED
      BY <3>4, NowFields DEF Entering
  <2>2. ASSUME pc = 0 PROVE stack = <<>>
    BY <1>1, <2>2 DEF IInv, Running, Done
  <2> QED
    BY <2>1, <2>2 DEF BlocksStartWithEmptyStack
<1> QED
  BY <1>1, AlwaysIInv, PTL

LEMMA LastOfSeq ==
  ASSUME NEW S, NEW s \in Seq(S), s # <<>>
  PROVE  Last(s) \in S
<1>1. Len(s) \in Nat \ {0}
  BY EmptySeq, LenProperties
<1>2. Len(s) \in 1 .. Len(s)
  BY <1>1
<1> QED
  BY <1>2, ElementOfSeq DEF Last

\* No instruction lacks its operand or finds a long in its place, and every jump
\* finds its label, for all functions in which undef is an operand of phi
\* instructions only (branch.cc:48-121, const.cc:124-126).
THEOREM CodeCanRun ==
  ASSUME \A p \in Programs : UndefOnlyInPhis(p)
  PROVE  Spec => []InstructionsCanRun
<1>1. ASSUME IInv PROVE InstructionsCanRun
  <2>1. ASSUME pc # 0
        PROVE  /\ Now \in Here /\ Now \in States(program)
               /\ Correct(program, code[pc], Here, Annotation(program)[pc + 1])
               /\ code = printFunctionBody(program)
    BY <1>1, <2>1, Reached
  <2>2. ASSUME NEW op \in TakeOperand, At(op) PROVE TakesInt
    <3>1. pc # 0 /\ code[pc].op \in TakeOperand
      BY <2>2 DEF At
    <3>2. Now.stack # <<>> /\ Now.stack \in Seq(Bit)
      BY <2>1, <3>1, StateTyped DEF Correct, Stacks
    <3>3. stack # <<>> /\ stack \in Seq(Bit)
      BY <3>2, NowFields
    <3>4. Last(stack) \in Bit
      BY <3>3, LastOfSeq
    <3> QED
      BY <3>3, <3>4 DEF TakesInt, Top, Bit
  <2>3. ASSUME NEW op \in Jumps, At(op) PROVE IsLabel(Arg)
    <3>1. pc # 0 /\ code[pc].op \in {"goto", "ifne", "ifeq"}
      BY <2>3 DEF At, Jumps
    <3>2. HasLabel(program, Arg)
      BY <2>1, <3>1 DEF Correct, Arg
    <3> QED
      BY <2>1, <3>1, <3>2 DEF IsLabel, HasLabel
  <2>4. ASSUME At("lookupswitch") PROVE IsLabel(SwitchTarget)
    <3>1. pc # 0 /\ code[pc].op = "lookupswitch"
      BY <2>4 DEF At
    <3>2. SwitchTarget = Case(code[pc], Last(Now.stack))
      BY NowFields DEF SwitchTarget, Case, Arg, Top
    <3>3. HasLabel(program, SwitchTarget)
      BY <2>1, <3>1, <3>2 DEF Correct
    <3> QED
      BY <2>1, <3>1, <3>3 DEF IsLabel, HasLabel
  <2> QED
    BY <2>2, <2>3, <2>4 DEF InstructionsCanRun
<1> QED
  BY <1>1, AlwaysIInv, PTL

\* From block to block every value of the function is the one LLVM computes,
\* phi instructions included, provided that undef is an operand of phi instructions
\* only, no phi reads an earlier one of its block and no switch leads to a block
\* with phis (branch.cc:31-103, block.cc:27-64).
THEOREM ImplementsLlvm ==
  ASSUME \A p \in Programs :
           UndefOnlyInPhis(p) /\ NoPhiReadsEarlierPhi(p) /\ NoSwitchIntoPhis(p)
  PROVE  Spec => Refinement
<1> DEFINE lvars == <<program, entered.block, entered.values>>
<1>1. ASSUME Init PROVE Llvm!Init
  BY <1>1 DEF Init, Llvm!Init
<1>2. ASSUME IInv, [Next]_vars PROVE [Llvm!Next]_lvars
  <2>1. CASE PassLabel /\ UNCHANGED program
    <3>1. pc # 0
      BY <2>1 DEF PassLabel, At
    <3>2. WellFormed(program) /\ program \in Programs /\ Now \in States(program)
      BY <1>2, <3>1, Reached
    <3>3. CASE ~\E b \in Blocks(program) : Arg = BlockLabel(b)
      BY <2>1, <3>3 DEF PassLabel
    <3>4. CASE \E b \in Blocks(program) : Arg = BlockLabel(b)
      <4>1. PICK b \in Blocks(program) : Arg = BlockLabel(b)
        BY <3>4
      <4>2. entered'.block = b /\ entered'.values = locals
        BY <2>1, <3>4, <4>1 DEF PassLabel, BlockLabel
      <4>3. Now \in Entering(program, b)
        BY <1>2, <2>1, <3>2, <4>1, AtLabel, EnteringAtLabel
      <4>4. PhisCopyable(program)
        BY <3>2 DEF PhisCopyable
      <4>5. CASE Now.block = b /\ Now.values = Now.locals
        BY <2>1, <4>2, <4>5, NowFields
      <4>6. CASE Moves(program, Now, b)
        <5> DEFINE src == entered.block
                   end == Llvm!AfterBody(program.blocks[src].body, entered.values)
        <5>1. src \in Blocks(program)
          BY <3>2, NowFields, StateTyped
        <5>2. src # Returned
          BY <3>2, <5>1, WellFormedBlock
        <5>3. end = End(program, Now)
          BY NowFields DEF End, Body
        <5>4. /\ program.blocks[src].term.op # "ret"
              /\ Llvm!Target(program.blocks[src].term, end) = b
              /\ locals \in Llvm!AfterPhis(program.blocks[b].phis, src, end)
          BY <4>6, <5>3, NowFields DEF Moves, Term, Phis
        <5> HIDE DEF end
        <5>5. Llvm!RunBlock
          BY <2>1, <4>2, <5>2, <5>4 DEF Llvm!RunBlock, end
        <5> QED
          BY <5>5 DEF Llvm!Next
      <4> QED
        BY <4>3, <4>4, <4>5, <4>6 DEF Entering
    <3> QED
      BY <3>3, <3>4
  <2>2. CASE Return /\ UNCHANGED program
    <3>1. pc # 0
      BY <2>2 DEF Return, At
    <3>2. WellFormed(program) /\ Now \in Finished(program) /\ Now \in States(program)
      BY <1>2, <2>2, <3>1, Reached, AtReturn
    <3>3. entered.block \in Blocks(program) /\ entered.block # Returned
      BY <3>2, NowFields, StateTyped, WellFormedBlock
    <3>4. entered'.block = Returned /\ entered'.values = locals
      BY <2>2 DEF Return
    <3>5. /\ program.blocks[entered.block].term.op = "ret"
          /\ locals = Llvm!AfterBody(program.blocks[entered.block].body, entered.values)
      BY <3>2, NowFields DEF Finished, Term, End, Body
    <3>6. Llvm!RunBlock
      BY <2>2, <3>3, <3>4, <3>5 DEF Llvm!RunBlock
    <3> QED
      BY <3>6 DEF Llvm!Next
  <2>3. CASE UNCHANGED program /\ UNCHANGED entered
    BY <2>3
  <2>4. Step => PassLabel \/ Return \/ UNCHANGED entered
    BY DEF Step, LoadOperand, StoreValue, Not, Pop, Goto, JumpIf, LookupSwitch
  <2> QED
    BY <1>2, <2>1, <2>2, <2>3, <2>4 DEF Next, Terminated, vars
<1>3. Spec => []IInv
  BY AlwaysIInv
<1> QED
  BY <1>1, <1>2, <1>3, PTL DEF Spec, Refinement, Llvm!Spec

=============================================================================
