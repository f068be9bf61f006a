-------------------------- MODULE AggregatesProofs --------------------------
(***************************************************************************)
(* Proofs about Aggregates, for any arguments, allocated types, modules of *)
(* global variables, masks and conversions, and any number of              *)
(* instructions, where no known divergence from LLVM is admitted           *)
(* (Divergences = {}).                                                     *)
(*                                                                         *)
(* The properties are not inductive.  That no instruction changes the      *)
(* value of a register needs to know where the value lies: inside of one   *)
(* region, a block of the stack, a global or what the caller passed, and   *)
(* regions are apart from each other and below the top of the stack.  That *)
(* a store changes no other object and no value loaded before needs that   *)
(* objects have regions of their own and pointers reach runs of numbers    *)
(* inside one object, at the offsets of its layout.  The invariant speaks  *)
(* of single bytes (Holds, Held), because the translated code copies,      *)
(* moves and fills bytes, while LLVM speaks of numbers.                    *)
(*                                                                         *)
(* The order below: sequences and sums; types and their layout; what each  *)
(* kind of write does to memory and to the values in it; registers and     *)
(* objects when memory changes; the first state; then one lemma for each   *)
(* instruction, <name>Keeps, and the theorems at the end.                  *)
(***************************************************************************)
EXTENDS Aggregates, SequenceTheorems, WellFoundedInduction, TLAPS

\* The number x lies at a, w bytes wide, unless LLVM leaves it undefined.
Holds(m, a, w, x) ==
  x = Undef \/ \A b \in a .. a + w - 1 : b \in DOMAIN m /\ m[b] = Byte(x, w, b - a)

\* A value of type t lies at a.
Held(m, a, t, value) ==
  \A i \in DOMAIN t.widths : Holds(m, a + LeafOffset(t, i), t.widths[i], value[i])

\* LLVM's values of type t.
IsValue(t, value) ==
  /\ IsSequence(value) /\ Len(value) = Len(t.widths)
  /\ \A i \in DOMAIN value : value[i] # Junk

\* The places of the values: what the caller passed, and what was allocated.
Extent(a, t) == a .. a + getTypeAllocSize(t) - 1
Passed       == {Extent(ArgumentAddress[a], ArgumentTypes[a]) : a \in DOMAIN ArgumentTypes}

\* Bytes of m, below top, have a width and a token that is not undef.
IsMemory(m, top) ==
  \A a \in DOMAIN m : a \in Nat /\ a < top /\ m[a][2] \in {0, 1, 2, 4, 8} /\ m[a][1] # Undef

\* Regions are apart and below the top of the stack.
AreRegions(regions, top) ==
  /\ \A b \in regions : b \subseteq 1 .. top - 1
  /\ \A b, c \in regions : b # c => b \cap c = {}

IsObject(o, m, regions) ==
  /\ IsValueType(o.ty) /\ o.at \in Nat /\ IsValue(o.ty, o.value)
  /\ Extent(o.at, o.ty) \in regions
  /\ Held(m, o.at, o.ty, o.value)

AreObjects(os, m, regions) ==
  /\ IsSequence(os)
  /\ \A o \in DOMAIN os : IsObject(os[o], m, regions)
  /\ \A o, q \in DOMAIN os : o # q => os[o].at # os[q].at

\* A pointer points to a run of numbers of one object.
IsPointer(p, os) ==
  /\ p.ty.kind = "pointer" /\ p.ty = PointerTo(p.ty.to) /\ IsValueType(p.ty.to)
  /\ p.value.object \in DOMAIN os /\ p.value.first \in Nat \ {0}
  /\ LET o == os[p.value.object]  first == p.value.first IN
     /\ first + Len(p.ty.to.widths) - 1 <= Len(o.ty.widths)
     /\ \A i \in DOMAIN p.ty.to.widths : o.ty.widths[first + i - 1] = p.ty.to.widths[i]
     /\ p.local = o.at + LeafOffset(o.ty, first)

IsScalar(v) ==
  /\ IsValueType(v.ty) /\ v.ty.kind = "scalar" /\ IsValue(v.ty, v.value)
  /\ v.local # Undef /\ v.value[1] \in {Undef, v.local}

\* The address of a composite value, inside of one region.
IsComposite(v, m, regions) ==
  /\ IsValueType(v.ty) /\ v.ty.kind # "scalar" /\ IsValue(v.ty, v.value)
  /\ v.local \in Nat
  /\ \E b \in regions : Extent(v.local, v.ty) \subseteq b
  /\ Held(m, v.local, v.ty, v.value)

IsRegister(v, m, regions, os) == IsPointer(v, os) \/ IsScalar(v) \/ IsComposite(v, m, regions)

AreRegisters(rs, m, regions, os) ==
  IsSequence(rs) /\ \A r \in DOMAIN rs : IsRegister(rs[r], m, regions, os)

Regions == Passed \cup blocks

IInv ==
  /\ executed \in -1 .. MaxInstructions
  /\ executed = -1 => blocks = {} /\ stack = StackBase
  /\ stack \in Nat /\ stack >= StackBase
  /\ IsMemory(memory, stack)
  /\ AreRegions(Regions, stack)
  /\ AreObjects(objects, memory, Regions)
  /\ AreRegisters(reg, memory, Regions, objects)

\* What WritesStayInBlocks says of one step.
WriteStays ==
  \A a \in DOMAIN memory' : a \notin DOMAIN memory \/ memory'[a] # memory[a] =>
    \/ \E b \in blocks' \ blocks : a \in b
    \/ \E o \in DOMAIN objects :
         /\ reg' = reg
         /\ a \in objects[o].at .. objects[o].at + getTypeAllocSize(objects[o].ty) - 1

-----------------------------------------------------------------------------
(* Induction over the natural numbers, as a statement about sets. *)

LEMMA LeastElement ==
  ASSUME NEW T \in SUBSET Nat, T # {}
  PROVE  \E n \in T : \A m \in T : n <= m
<1> DEFINE R == OpToRel(<, Nat)
<1>1. IsWellFoundedOn(R, Nat)
  BY NatLessThanWellFounded
<1>2. \A x, y \in Nat : <<y, x>> \in R <=> y < x
  BY DEF OpToRel
<1> HIDE DEF R
<1>3. PICK x \in T : \A y \in T : ~(<<y, x>> \in R)
  BY <1>1, WFMin
<1>4. ASSUME NEW y \in T PROVE x <= y
  <2>1. ~(y < x)
    BY <1>2, <1>3
  <2> QED
    BY <2>1
<1> QED
  BY <1>4

\* A set with 0 that has the successor of each of its numbers has them all.
LEMMA SetInduction ==
  ASSUME NEW S, 0 \in S, \A n \in Nat : n \in S => n + 1 \in S
  PROVE  Nat \subseteq S
<1> DEFINE T == {n \in Nat : n \notin S}
<1> SUFFICES ASSUME T # {} PROVE FALSE
  OBVIOUS
<1>1. PICK n \in T : \A m \in T : n <= m
  BY LeastElement
<1>2. n # 0 /\ n \in Nat
  OBVIOUS
<1>3. n - 1 \in Nat /\ ~(n <= n - 1) /\ (n - 1) + 1 = n
  BY <1>2
<1>4. n - 1 \in S
  BY <1>1, <1>3
<1> QED
  BY <1>3, <1>4

-----------------------------------------------------------------------------
(* Arithmetic of intervals. *)

\* What lies within s numbers of a.
LEMMA Within ==
  ASSUME NEW a \in Nat, NEW o \in Nat, NEW w \in Nat, NEW s \in Nat, o + w <= s
  PROVE  a + o \in Nat /\ a + o .. a + o + w - 1 \subseteq a .. a + s - 1
OBVIOUS

\* Two intervals that do not overlap.
LEMMA Apart ==
  ASSUME NEW a \in Nat, NEW p \in Nat, NEW w \in Nat, NEW q \in Nat, NEW s \in Nat,
         p + w <= q \/ q + s <= p
  PROVE  (a + p .. a + p + w - 1) \cap (a + q .. a + q + s - 1) = {}
OBVIOUS

\* A number that two intervals have in common.
LEMMA Common ==
  ASSUME NEW x \in Nat, NEW s \in Nat, NEW y \in Nat, NEW t \in Nat, NEW b,
         b \in x .. x + s - 1, b \in y .. y + t - 1
  PROVE  ~(x + s <= y) /\ ~(y + t <= x)
OBVIOUS

\* A part, after k numbers, of a part that starts at the first-th number.
ArePartsWithin(j, first, k, u, t, o) ==
  /\ {j, first, k, u, t, o} \subseteq Nat
  /\ j + 1 = first /\ k + u <= t /\ j + t <= o

LEMMA WithinPart ==
  ASSUME NEW j, NEW first, NEW k, NEW u, NEW t, NEW o, ArePartsWithin(j, first, k, u, t, o)
  PROVE  /\ first + k + u - 1 <= o
         /\ \A i \in 1 .. u : k + i \in 1 .. t /\ first + k + i - 1 = j + (k + i)
BY DEF ArePartsWithin

\* The i-th number after l, counted from 0.
IsCounted(l, n, i, first, t) ==
  {l, n, first, t} \subseteq Nat /\ i \in 1 .. n /\ l + n <= t

LEMMA Counted ==
  ASSUME NEW l, NEW n, NEW i, NEW first, NEW t, IsCounted(l, n, i, first, t)
  PROVE  \E k \in Nat : k + 1 = l + i /\ k + 1 \in 1 .. t /\ first + l + i - 1 = first + k
<1>1. /\ l \in Nat /\ n \in Nat /\ first \in Nat /\ t \in Nat /\ i \in Int
      /\ 1 <= i /\ i <= n /\ l + n <= t
  BY DEF IsCounted
<1>2. PICK k \in Nat : k = l + i - 1
  BY <1>1
<1> QED
  BY <1>1, <1>2

\* A mask's number beyond the first n and below 2 * n.
LEMMA Beyond ==
  ASSUME NEW n \in Nat, NEW m \in Int, n <= m, m < 2 * n
  PROVE  \E k \in 1 .. n : m + 1 = n + k
<1>1. PICK k \in Int : k = m + 1 - n
  OBVIOUS
<1> QED
  BY <1>1

-----------------------------------------------------------------------------
(* Sequences of whatever they consist of. *)

LEMMA FunctionIsSequence ==
  ASSUME NEW n \in Nat, NEW s, s = [i \in 1 .. n |-> s[i]]
  PROVE  IsSequence(s) /\ Len(s) = n /\ DOMAIN s = 1 .. n
<1> DEFINE S == {s[i] : i \in 1 .. n}
<1>1. s \in [1 .. n -> S]
  OBVIOUS
<1> HIDE DEF S
<1>2. s \in Seq(S)
  BY <1>1, SeqDef
<1>3. Len(s) \in Nat /\ DOMAIN s = 1 .. Len(s)
  BY <1>2, LenProperties
<1>4. DOMAIN s = 1 .. n
  BY <1>1
<1>5. Len(s) = n
  BY <1>3, <1>4
<1> QED
  BY <1>5, <1>4 DEF IsSequence

LEMMA SequenceFacts ==
  ASSUME NEW s, IsSequence(s)
  PROVE  /\ Len(s) \in Nat /\ DOMAIN s = 1 .. Len(s)
         /\ s \in Seq({s[i] : i \in 1 .. Len(s)})
<1> DEFINE S == {s[i] : i \in 1 .. Len(s)}
<1>1. Len(s) \in Nat /\ s = [i \in 1 .. Len(s) |-> s[i]]
  BY DEF IsSequence
<1>2. s \in [1 .. Len(s) -> S]
  BY <1>1
<1>3. DOMAIN s = 1 .. Len(s)
  BY <1>1
<1>4. s \in Seq(S)
  <2> HIDE DEF S
  <2> QED
    BY <1>1, <1>2, SeqDef
<1> QED
  BY <1>1, <1>3, <1>4

LEMMA SeqIsSequence ==
  ASSUME NEW S, NEW s \in Seq(S)
  PROVE  IsSequence(s)
<1>1. Len(s) \in Nat /\ s \in [1 .. Len(s) -> S]
  BY LenProperties
<1> QED
  BY <1>1 DEF IsSequence

LEMMA AppendFacts ==
  ASSUME NEW s, IsSequence(s), NEW x
  PROVE  /\ IsSequence(Append(s, x)) /\ Len(Append(s, x)) = Len(s) + 1
         /\ DOMAIN Append(s, x) = 1 .. Len(s) + 1
         /\ \A i \in 1 .. Len(s) : Append(s, x)[i] = s[i]
         /\ Append(s, x)[Len(s) + 1] = x
<1> DEFINE S == {s[i] : i \in 1 .. Len(s)} \cup {x}
<1>1. s \in Seq({s[i] : i \in 1 .. Len(s)})
  BY SequenceFacts
<1>2. {s[i] : i \in 1 .. Len(s)} \subseteq S /\ x \in S
  OBVIOUS
<1> HIDE DEF S
<1>3. s \in Seq(S)
  BY <1>1, <1>2, SeqMonotonic
<1>4. /\ Append(s, x) \in Seq(S) /\ Len(Append(s, x)) = Len(s) + 1
      /\ \A i \in 1 .. Len(s) : Append(s, x)[i] = s[i]
      /\ Append(s, x)[Len(s) + 1] = x
  BY <1>2, <1>3, AppendProperties
<1>5. DOMAIN Append(s, x) = 1 .. Len(Append(s, x))
  BY <1>4, LenProperties
<1> QED
  BY <1>4, <1>5, SeqIsSequence

LEMMA ConcatFacts ==
  ASSUME NEW s, NEW t, IsSequence(s), IsSequence(t)
  PROVE  /\ IsSequence(s \o t) /\ Len(s \o t) = Len(s) + Len(t)
         /\ DOMAIN (s \o t) = 1 .. Len(s) + Len(t)
         /\ \A i \in 1 .. Len(s) : (s \o t)[i] = s[i]
         /\ \A i \in Len(s) + 1 .. Len(s) + Len(t) : (s \o t)[i] = t[i - Len(s)]
<1> DEFINE A == {s[i] : i \in 1 .. Len(s)}
           B == {t[i] : i \in 1 .. Len(t)}
           S == A \cup B
<1>1. s \in Seq(A) /\ Len(s) \in Nat
  BY SequenceFacts
<1>2. t \in Seq(B) /\ Len(t) \in Nat
  BY SequenceFacts
<1>3. A \subseteq S /\ B \subseteq S
  OBVIOUS
<1> HIDE DEF S, A, B
<1>4. s \in Seq(S) /\ t \in Seq(S)
  BY <1>1, <1>2, <1>3, SeqMonotonic
<1>5. /\ s \o t \in Seq(S) /\ Len(s \o t) = Len(s) + Len(t)
      /\ \A i \in 1 .. Len(s) + Len(t) : (s \o t)[i] =
           IF i <= Len(s) THEN s[i] ELSE t[i - Len(s)]
  BY <1>4, ConcatProperties
<1>6. DOMAIN (s \o t) = 1 .. Len(s) + Len(t)
  BY <1>5, LenProperties
<1>7. \A i \in 1 .. Len(s) : (s \o t)[i] = s[i]
  BY <1>1, <1>2, <1>5
<1>8. \A i \in Len(s) + 1 .. Len(s) + Len(t) : (s \o t)[i] = t[i - Len(s)]
  BY <1>1, <1>2, <1>5
<1> QED
  BY <1>5, <1>6, <1>7, <1>8, SeqIsSequence

\* The n numbers after the first k.
LEMMA SubSeqFacts ==
  ASSUME NEW s, IsSequence(s), NEW k \in Nat, NEW n \in Nat, k + n <= Len(s)
  PROVE  /\ IsSequence(SubSeq(s, k + 1, k + n)) /\ Len(SubSeq(s, k + 1, k + n)) = n
         /\ DOMAIN SubSeq(s, k + 1, k + n) = 1 .. n
         /\ \A i \in 1 .. n : SubSeq(s, k + 1, k + n)[i] = s[k + i]
<1> DEFINE S == {s[i] : i \in 1 .. Len(s)}
           u == SubSeq(s, k + 1, k + n)
<1>1. Len(s) \in Nat
  BY SequenceFacts
<1>2. \A i \in k + 1 .. k + n : s[i] \in S
  BY <1>1
<1> HIDE DEF S
<1>3. k + 1 \in Int /\ k + n \in Int
  OBVIOUS
<1>4. /\ u \in Seq(S)
      /\ Len(u) = IF k + 1 <= k + n THEN (k + n) - (k + 1) + 1 ELSE 0
      /\ \A i \in 1 .. (k + n) - (k + 1) + 1 : u[i] = s[(k + 1) + i - 1]
  BY <1>2, <1>3, SubSeqProperties
<1> HIDE DEF u
<1>5. Len(u) = n
  BY <1>4
<1>6. \A i \in 1 .. n : (k + 1) + i - 1 = k + i /\ i \in 1 .. (k + n) - (k + 1) + 1
  OBVIOUS
<1>7. \A i \in 1 .. n : u[i] = s[k + i]
  BY <1>4, <1>6
<1>8. DOMAIN u = 1 .. n
  BY <1>4, <1>5, LenProperties
<1>9. IsSequence(u)
  BY <1>4, SeqIsSequence
<1> QED
  BY <1>5, <1>7, <1>8, <1>9 DEF u

-----------------------------------------------------------------------------
(* Sums. *)

\* The recursive function that Sums chooses exists.
LEMMA SumsChoice ==
  ASSUME NEW s, NEW len \in Nat
  PROVE  \E f : f = [n \in 0 .. len |-> IF n = 0 THEN 0 ELSE f[n - 1] + s[n]]
<1> DEFINE Adds(f, m) == f = [n \in 0 .. m |-> IF n = 0 THEN 0 ELSE f[n - 1] + s[n]]
           T == {m \in Nat : \E f : Adds(f, m)}
<1>1. 0 \in T
  <2> DEFINE f == [n \in 0 .. 0 |-> 0]
  <2>1. f = [n \in 0 .. 0 |-> IF n = 0 THEN 0 ELSE f[n - 1] + s[n]]
    OBVIOUS
  <2> HIDE DEF f
  <2> QED
    BY <2>1
<1>2. ASSUME NEW m \in Nat, m \in T PROVE m + 1 \in T
  <2>1. PICK f : f = [n \in 0 .. m |-> IF n = 0 THEN 0 ELSE f[n - 1] + s[n]]
    BY <1>2
  <2> DEFINE g == [n \in 0 .. m + 1 |-> IF n \in 0 .. m THEN f[n] ELSE f[n - 1] + s[n]]
             h == [n \in 0 .. m + 1 |-> IF n = 0 THEN 0 ELSE g[n - 1] + s[n]]
  <2>2. ASSUME NEW n \in 0 .. m + 1 PROVE g[n] = h[n]
    <3>1. CASE n = 0
      BY <2>1, <3>1
    <3>2. CASE n # 0
      <4>1. n - 1 \in 0 .. m /\ n - 1 \in 0 .. m + 1
        BY <3>2
      <4>2. g[n - 1] = f[n - 1]
        BY <4>1
      <4>3. g[n] = f[n - 1] + s[n]
        BY <2>1, <3>2
      <4>4. h[n] = g[n - 1] + s[n]
        BY <3>2
      <4> QED
        BY <4>2, <4>3, <4>4
    <3> QED
      BY <3>1, <3>2
  <2>3. g = h
    <3>1. g = [n \in 0 .. m + 1 |-> g[n]] /\ h = [n \in 0 .. m + 1 |-> h[n]]
      OBVIOUS
    <3> HIDE DEF g, h
    <3> QED
      BY <2>2, <3>1
  <2>4. Adds(g, m + 1)
    <3> HIDE DEF g
    <3> QED
      BY <2>3
  <2> HIDE DEF g, Adds
  <2> QED
    BY <2>4
<1> HIDE DEF T
<1>3. len \in T
  BY <1>1, <1>2, SetInduction
<1> QED
  BY <1>3 DEF T

LEMMA SumsUnfold ==
  ASSUME NEW s, Len(s) \in Nat
  PROVE  /\ Sums(s)[0] = 0
         /\ \A n \in 1 .. Len(s) : Sums(s)[n] = Sums(s)[n - 1] + s[n]
<1> DEFINE f == CHOOSE f : f = [n \in 0 .. Len(s) |-> IF n = 0 THEN 0 ELSE f[n - 1] + s[n]]
<1>1. f = [n \in 0 .. Len(s) |-> IF n = 0 THEN 0 ELSE f[n - 1] + s[n]]
  BY SumsChoice
<1>2. Sums(s) = f
  BY DEF Sums
<1> HIDE DEF f
<1>3. f[0] = 0
  BY <1>1
<1>4. ASSUME NEW n \in 1 .. Len(s) PROVE f[n] = f[n - 1] + s[n]
  <2>1. n \in 0 .. Len(s) /\ n # 0
    OBVIOUS
  <2> QED
    BY <1>1, <2>1
<1> QED
  BY <1>2, <1>3, <1>4

\* Sums of natural numbers do not decrease.
LEMMA SumsGrow ==
  ASSUME NEW s, Len(s) \in Nat, \A i \in 1 .. Len(s) : s[i] \in Nat
  PROVE  /\ \A n \in 0 .. Len(s) : Sums(s)[n] \in Nat
         /\ \A m, n \in 0 .. Len(s) : m <= n => Sums(s)[m] <= Sums(s)[n]
<1> DEFINE f == Sums(s)
           T == {n \in Nat : n <= Len(s) =>
                   f[n] \in Nat /\ \A m \in 0 .. n : f[m] \in Nat /\ f[m] <= f[n]}
<1>0. f[0] = 0 /\ \A n \in 1 .. Len(s) : f[n] = f[n - 1] + s[n]
  BY SumsUnfold
<1> HIDE DEF f
<1>1. 0 \in T
  BY <1>0
<1>2. ASSUME NEW n \in Nat, n \in T PROVE n + 1 \in T
  <2> SUFFICES ASSUME n + 1 <= Len(s)
               PROVE  f[n + 1] \in Nat /\ \A m \in 0 .. n + 1 : f[m] \in Nat /\ f[m] <= f[n + 1]
    OBVIOUS
  <2>1. n + 1 \in 1 .. Len(s) /\ (n + 1) - 1 = n
    OBVIOUS
  <2>2. f[n + 1] = f[n] + s[n + 1] /\ s[n + 1] \in Nat
    <3>1. f[n + 1] = f[(n + 1) - 1] + s[n + 1]
      BY <1>0, <2>1
    <3> QED
      BY <2>1, <3>1
  <2>3. f[n] \in Nat /\ \A m \in 0 .. n : f[m] \in Nat /\ f[m] <= f[n]
    BY <1>2
  <2>4. f[n + 1] \in Nat /\ f[n] <= f[n + 1]
    BY <2>2, <2>3
  <2>5. ASSUME NEW m \in 0 .. n + 1 PROVE f[m] \in Nat /\ f[m] <= f[n + 1]
    <3>1. CASE m = n + 1
      BY <2>4, <3>1
    <3>2. CASE m # n + 1
      <4>1. m \in 0 .. n
        BY <3>2
      <4>2. f[m] \in Nat /\ f[m] <= f[n]
        BY <2>3, <4>1
      <4> QED
        BY <2>3, <2>4, <4>2
    <3> QED
      BY <3>1, <3>2
  <2> QED
    BY <2>4, <2>5
<1> HIDE DEF T
<1>3. Nat \subseteq T
  BY <1>1, <1>2, SetInduction
<1>4. ASSUME NEW n \in 0 .. Len(s)
      PROVE  f[n] \in Nat /\ \A m \in 0 .. n : f[m] <= f[n]
  BY <1>3 DEF T
<1>5. ASSUME NEW m \in 0 .. Len(s), NEW n \in 0 .. Len(s), m <= n PROVE f[m] <= f[n]
  <2>1. m \in 0 .. n
    BY <1>5
  <2> QED
    BY <1>4, <2>1
<1> QED
  BY <1>4, <1>5 DEF f

\* The sums of a run u in t, which begins behind the first k numbers.
LEMMA SumsOfPart ==
  ASSUME NEW t, NEW u, Len(t) \in Nat, Len(u) \in Nat, NEW k \in Nat,
         k + Len(u) <= Len(t), \A i \in 1 .. Len(t) : t[i] \in Nat,
         \A i \in 1 .. Len(u) : u[i] = t[k + i]
  PROVE  \A i \in 0 .. Len(u) : Sums(t)[k + i] = Sums(t)[k] + Sums(u)[i]
<1> DEFINE f == Sums(t)
           g == Sums(u)
           T == {i \in Nat : i <= Len(u) => f[k + i] = f[k] + g[i] /\ g[i] \in Nat}
<1>1. \A n \in 1 .. Len(t) : f[n] = f[n - 1] + t[n]
  BY SumsUnfold
<1>2. g[0] = 0 /\ \A n \in 1 .. Len(u) : g[n] = g[n - 1] + u[n]
  BY SumsUnfold
<1>3. \A n \in 0 .. Len(t) : f[n] \in Nat
  BY SumsGrow
<1> HIDE DEF f, g
<1>4. 0 \in T
  <2>1. k + 0 = k /\ k \in 0 .. Len(t)
    OBVIOUS
  <2> QED
    BY <1>2, <1>3, <2>1
<1>5. ASSUME NEW i \in Nat, i \in T PROVE i + 1 \in T
  <2> SUFFICES ASSUME i + 1 <= Len(u)
               PROVE  f[k + (i + 1)] = f[k] + g[i + 1] /\ g[i + 1] \in Nat
    OBVIOUS
  <2>1. /\ i + 1 \in 1 .. Len(u) /\ (i + 1) - 1 = i
        /\ k + (i + 1) \in 1 .. Len(t) /\ (k + (i + 1)) - 1 = k + i /\ k \in 0 .. Len(t)
    OBVIOUS
  <2>2. f[k + i] = f[k] + g[i] /\ g[i] \in Nat
    BY <1>5
  <2>3. f[k + (i + 1)] = f[(k + (i + 1)) - 1] + t[k + (i + 1)]
    BY <1>1, <2>1
  <2>4. g[i + 1] = g[(i + 1) - 1] + u[i + 1]
    BY <1>2, <2>1
  <2>5. u[i + 1] = t[k + (i + 1)] /\ t[k + (i + 1)] \in Nat
    BY <2>1
  <2>6. f[k] \in Nat
    BY <1>3, <2>1
  <2> QED
    BY <2>1, <2>2, <2>3, <2>4, <2>5, <2>6
<1> HIDE DEF T
<1>6. Nat \subseteq T
  BY <1>4, <1>5, SetInduction
<1>7. \A i \in 0 .. Len(u) : f[k + i] = f[k] + g[i]
  BY <1>6 DEF T
<1> QED
  BY <1>7 DEF f, g

\* The sums of one number, over and over.
LEMMA SumsOfEqual ==
  ASSUME NEW s, Len(s) \in Nat, NEW w \in Nat, \A i \in 1 .. Len(s) : s[i] = w
  PROVE  \A n \in 0 .. Len(s) : Sums(s)[n] = n * w
<1> DEFINE f == Sums(s)
           T == {n \in Nat : n <= Len(s) => f[n] = n * w}
<1>0. f[0] = 0 /\ \A n \in 1 .. Len(s) : f[n] = f[n - 1] + s[n]
  BY SumsUnfold
<1> HIDE DEF f
<1>1. 0 \in T
  <2>1. 0 * w = 0
    OBVIOUS
  <2> QED
    BY <1>0, <2>1
<1>2. ASSUME NEW n \in Nat, n \in T PROVE n + 1 \in T
  <2> SUFFICES ASSUME n + 1 <= Len(s) PROVE f[n + 1] = (n + 1) * w
    OBVIOUS
  <2>1. n + 1 \in 1 .. Len(s) /\ (n + 1) - 1 = n
    OBVIOUS
  <2>2. f[n + 1] = f[(n + 1) - 1] + s[n + 1]
    BY <1>0, <2>1
  <2>3. f[n + 1] = n * w + w
    BY <1>2, <2>1, <2>2
  <2>4. (n + 1) * w = n * w + w
    OBVIOUS
  <2> QED
    BY <2>3, <2>4
<1> HIDE DEF T
<1>3. Nat \subseteq T
  BY <1>1, <1>2, SetInduction
<1>4. \A n \in 0 .. Len(s) : f[n] = n * w
  BY <1>3 DEF T
<1> QED
  BY <1>4 DEF f

-----------------------------------------------------------------------------
(* The layout of types. *)

LEMMA TypeFacts ==
  ASSUME NEW t, IsValueType(t)
  PROVE  /\ Len(t.widths) \in Nat \ {0} /\ DOMAIN t.widths = 1 .. Len(t.widths)
         /\ \A i \in 1 .. Len(t.widths) : t.widths[i] \in Widths
         /\ Len(t.counts) \in Nat \ {0} /\ DOMAIN t.counts = 1 .. Len(t.counts)
         /\ \A f \in 1 .. Len(t.counts) : t.counts[f] \in Nat \ {0}
         /\ IsSequence(t.widths) /\ IsSequence(t.counts)
<1>1. t.widths \in Seq(Widths) /\ t.counts \in Seq(Nat \ {0}) /\ t.counts # <<>>
  BY DEF IsValueType
<1>2. Len(t.widths) \in Nat /\ DOMAIN t.widths = 1 .. Len(t.widths)
  BY <1>1, LenProperties
<1>3. \A i \in 1 .. Len(t.widths) : t.widths[i] \in Widths
  BY <1>1, ElementOfSeq
<1>4. Len(t.counts) \in Nat \ {0}
  BY <1>1, EmptySeq
<1>5. DOMAIN t.counts = 1 .. Len(t.counts)
  BY <1>1, LenProperties
<1>6. \A f \in 1 .. Len(t.counts) : t.counts[f] \in Nat \ {0}
  BY <1>1, ElementOfSeq
<1>7. Len(t.widths) # 0
  <2>1. \A f \in 1 .. Len(t.counts) : t.counts[f] \in Nat
    BY <1>6
  <2>2. Sums(t.counts)[0] = 0 /\ Sums(t.counts)[1] = Sums(t.counts)[1 - 1] + t.counts[1]
    BY <1>4, SumsUnfold
  <2>3. Sums(t.counts)[1] <= Sums(t.counts)[Len(t.counts)]
        /\ Sums(t.counts)[Len(t.counts)] \in Nat /\ Sums(t.counts)[1] \in Nat
    <3>1. /\ 1 \in 0 .. Len(t.counts) /\ Len(t.counts) \in 0 .. Len(t.counts)
          /\ 1 <= Len(t.counts) /\ Len(t.counts) \in Nat
      BY <1>4
    <3> QED
      BY <3>1, <2>1, SumsGrow
  <2>4. t.counts[1] \in Nat \ {0} /\ 1 - 1 = 0
    BY <1>4, <1>6
  <2>5. Len(t.widths) = Sums(t.counts)[Len(t.counts)]
    BY DEF IsValueType, Total
  <2> QED
    BY <2>2, <2>3, <2>4, <2>5
<1>8. IsSequence(t.widths) /\ IsSequence(t.counts)
  BY <1>1, SeqIsSequence
<1> QED
  BY <1>2, <1>3, <1>4, <1>5, <1>6, <1>7, <1>8

\* The numbers of a value lie one behind the other.
LEMMA Layout ==
  ASSUME NEW t, IsValueType(t)
  PROVE  /\ LeafOffset(t, 1) = 0
         /\ getTypeAllocSize(t) \in Nat \ {0}
         /\ \A i \in 1 .. Len(t.widths) :
              /\ LeafOffset(t, i) \in Nat
              /\ LeafOffset(t, i) + t.widths[i] <= getTypeAllocSize(t)
         /\ \A i, j \in 1 .. Len(t.widths) :
              i < j => LeafOffset(t, i) + t.widths[i] <= LeafOffset(t, j)
<1> DEFINE n == Len(t.widths)
           F == Sums(t.widths)
<1>1. n \in Nat \ {0} /\ \A i \in 1 .. n : t.widths[i] \in Nat \ {0}
  BY TypeFacts DEF Widths
<1>2. F[0] = 0 /\ \A i \in 1 .. n : F[i] = F[i - 1] + t.widths[i]
  BY <1>1, SumsUnfold
<1>3. /\ \A i \in 0 .. n : F[i] \in Nat
      /\ \A i, j \in 0 .. n : i <= j => F[i] <= F[j]
  <2>1. \A i \in 1 .. n : t.widths[i] \in Nat
    BY <1>1
  <2>2. Len(t.widths) \in Nat
    BY <1>1
  <2> QED
    BY <2>1, <2>2, SumsGrow
<1>4. getTypeAllocSize(t) = F[n] /\ \A i : LeafOffset(t, i) = F[i - 1]
  BY DEF getTypeAllocSize, Total, Leaves, LeafOffset
<1> HIDE DEF n, F
<1>5. LeafOffset(t, 1) = 0
  <2>1. 1 - 1 = 0
    OBVIOUS
  <2> QED
    BY <1>2, <1>4, <2>1
<1>6. ASSUME NEW i \in 1 .. n
      PROVE  /\ LeafOffset(t, i) \in Nat
             /\ LeafOffset(t, i) + t.widths[i] = F[i]
             /\ F[i] <= F[n] /\ F[i] \in Nat \ {0}
  <2>1. i - 1 \in 0 .. n /\ i \in 0 .. n /\ n \in 0 .. n /\ i <= n
    BY <1>1
  <2>2. F[i - 1] \in Nat /\ F[i] = F[i - 1] + t.widths[i] /\ F[i] <= F[n]
    BY <1>2, <1>3, <2>1
  <2> QED
    BY <1>1, <1>4, <2>2
<1>7. getTypeAllocSize(t) \in Nat \ {0}
  <2>1. n \in 1 .. n
    BY <1>1
  <2> QED
    BY <1>4, <1>6, <2>1
<1>8. ASSUME NEW i \in 1 .. n, NEW j \in 1 .. n, i < j
      PROVE  LeafOffset(t, i) + t.widths[i] <= LeafOffset(t, j)
  <2>1. i \in 0 .. n /\ j - 1 \in 0 .. n /\ i <= j - 1
    BY <1>1, <1>8
  <2>2. F[i] <= F[j - 1]
    BY <1>3, <2>1
  <2> QED
    BY <1>4, <1>6, <2>2
<1> QED
  BY <1>4, <1>5, <1>6, <1>7, <1>8 DEF n

\* A type u whose numbers are a run of those of t.
IsPart(u, t, k) ==
  /\ k \in Nat /\ k + Len(u.widths) <= Len(t.widths)
  /\ \A i \in 1 .. Len(u.widths) : u.widths[i] = t.widths[k + i]

LEMMA PartLayout ==
  ASSUME NEW t, IsValueType(t), NEW u, IsValueType(u), NEW k \in Nat, IsPart(u, t, k)
  PROVE  /\ LeafOffset(t, k + 1) \in Nat
         /\ LeafOffset(t, k + 1) + getTypeAllocSize(u) <= getTypeAllocSize(t)
         /\ \A i \in 1 .. Len(u.widths) :
              LeafOffset(t, k + i) = LeafOffset(t, k + 1) + LeafOffset(u, i)
         /\ \A j \in 1 .. Len(t.widths) :
              /\ j <= k => LeafOffset(t, j) + t.widths[j] <= LeafOffset(t, k + 1)
              /\ j > k + Len(u.widths) =>
                   LeafOffset(t, k + 1) + getTypeAllocSize(u) <= LeafOffset(t, j)
<1> DEFINE n == Len(t.widths)
           m == Len(u.widths)
           F == Sums(t.widths)
           G == Sums(u.widths)
<1>1. n \in Nat \ {0} /\ \A i \in 1 .. n : t.widths[i] \in Nat
  BY TypeFacts DEF Widths
<1>2. m \in Nat \ {0}
  BY TypeFacts
<1>3. k \in Nat /\ k + m <= n /\ \A i \in 1 .. m : u.widths[i] = t.widths[k + i]
  BY DEF IsPart
<1>4. \A i \in 0 .. m : F[k + i] = F[k] + G[i]
  <2> DEFINE s == t.widths
             v == u.widths
  <2>1. /\ Len(s) \in Nat /\ Len(v) \in Nat /\ k + Len(v) <= Len(s)
        /\ \A i \in 1 .. Len(s) : s[i] \in Nat
        /\ \A i \in 1 .. Len(v) : v[i] = s[k + i]
    BY <1>1, <1>2, <1>3
  <2> HIDE DEF s, v
  <2>2. ASSUME NEW j \in Nat, j = k
        PROVE  \A i \in 0 .. Len(v) : Sums(s)[j + i] = Sums(s)[j] + Sums(v)[i]
    BY <2>1, <2>2, SumsOfPart
  <2> QED
    BY <2>2 DEF s, v
<1>5. /\ \A i \in 0 .. n : F[i] \in Nat
      /\ \A i, j \in 0 .. n : i <= j => F[i] <= F[j]
  BY <1>1, SumsGrow
<1>6. \A j \in 1 .. n : F[j] = F[j - 1] + t.widths[j]
  BY <1>1, SumsUnfold
<1>7. /\ getTypeAllocSize(t) = F[n] /\ \A i : LeafOffset(t, i) = F[i - 1]
      /\ getTypeAllocSize(u) = G[m] /\ \A i : LeafOffset(u, i) = G[i - 1]
  BY DEF getTypeAllocSize, Total, Leaves, LeafOffset
<1> HIDE DEF n, m, F, G
<1>8. (k + 1) - 1 = k /\ k \in 0 .. n /\ k + m \in 0 .. n /\ m \in 0 .. m /\ n \in 0 .. n
  BY <1>1, <1>2, <1>3
<1>9. LeafOffset(t, k + 1) = F[k] /\ F[k] \in Nat
  BY <1>5, <1>7, <1>8
<1>10. LeafOffset(t, k + 1) + getTypeAllocSize(u) = F[k + m]
  BY <1>4, <1>7, <1>8, <1>9
<1>11. F[k + m] <= F[n]
  BY <1>3, <1>5, <1>8
<1>12. ASSUME NEW i \in 1 .. m
       PROVE  LeafOffset(t, k + i) = LeafOffset(t, k + 1) + LeafOffset(u, i)
  <2>1. i - 1 \in 0 .. m /\ (k + i) - 1 = k + (i - 1)
    BY <1>2, <1>3
  <2>2. F[k + (i - 1)] = F[k] + G[i - 1]
    BY <1>4, <2>1
  <2> QED
    BY <1>7, <1>9, <2>1, <2>2
<1>13. ASSUME NEW j \in 1 .. n, j <= k
       PROVE  LeafOffset(t, j) + t.widths[j] <= LeafOffset(t, k + 1)
  <2>1. j \in 0 .. n
    OBVIOUS
  <2>2. F[j] <= F[k]
    BY <1>5, <1>8, <1>13, <2>1
  <2> QED
    BY <1>6, <1>7, <1>9, <2>2
<1>14. ASSUME NEW j \in 1 .. n, j > k + m
       PROVE  LeafOffset(t, k + 1) + getTypeAllocSize(u) <= LeafOffset(t, j)
  <2>0. j \in Int /\ k \in Int /\ m \in Int /\ n \in Int /\ 1 <= j /\ j <= n
    BY <1>1, <1>2, <1>3
  <2>1. j - 1 \in 0 .. n /\ k + m <= j - 1
    BY <2>0, <1>14
  <2>2. F[k + m] <= F[j - 1]
    BY <1>5, <1>8, <2>1
  <2> QED
    BY <1>7, <1>10, <2>2
<1> QED
  BY <1>7, <1>9, <1>10, <1>11, <1>12, <1>13, <1>14 DEF n, m

\* The layout of a vector, an array or a scalar.
LEMMA EqualLayout ==
  ASSUME NEW t, IsValueType(t), NEW w \in Nat,
         \A i \in 1 .. Len(t.widths) : t.widths[i] = w
  PROVE  /\ \A i \in 1 .. Len(t.widths) : LeafOffset(t, i) = (i - 1) * w
         /\ getTypeAllocSize(t) = Len(t.widths) * w
<1>1. Len(t.widths) \in Nat
  BY TypeFacts
<1>2. \A n \in 0 .. Len(t.widths) : Sums(t.widths)[n] = n * w
  BY <1>1, SumsOfEqual
<1>3. \A i \in 1 .. Len(t.widths) : i - 1 \in 0 .. Len(t.widths)
  BY <1>1
<1>4. Len(t.widths) \in 0 .. Len(t.widths)
  BY <1>1
<1> QED
  BY <1>2, <1>3, <1>4 DEF LeafOffset, Leaves, getTypeAllocSize, Total

\* The fields of a value are runs of its numbers, one behind the other.
LEMMA FieldFacts ==
  ASSUME NEW t, IsValueType(t), NEW f \in 1 .. Len(t.counts)
  PROVE  /\ LeavesBefore(t, f) \in Nat
         /\ LeavesBefore(t, f) + t.counts[f] <= Len(t.widths)
         /\ f = 1 => LeavesBefore(t, f) = 0
         /\ f < Len(t.counts) => LeavesBefore(t, f + 1) = LeavesBefore(t, f) + t.counts[f]
         /\ f = Len(t.counts) => Len(t.widths) = LeavesBefore(t, f) + t.counts[f]
<1> DEFINE n == Len(t.counts)
           C == Sums(t.counts)
<1>1. n \in Nat \ {0} /\ \A g \in 1 .. n : t.counts[g] \in Nat
  BY TypeFacts
<1>2. C[0] = 0 /\ \A g \in 1 .. n : C[g] = C[g - 1] + t.counts[g]
  BY <1>1, SumsUnfold
<1>3. /\ \A g \in 0 .. n : C[g] \in Nat
      /\ \A g, h \in 0 .. n : g <= h => C[g] <= C[h]
  BY <1>1, SumsGrow
<1>4. Len(t.widths) = C[n] /\ \A g : LeavesBefore(t, g) = C[g - 1]
  BY DEF IsValueType, Total, LeavesBefore
<1> HIDE DEF n, C
<1>5. f \in 1 .. n
  BY DEF n
<1>6. f - 1 \in 0 .. n /\ f \in 0 .. n /\ n \in 0 .. n /\ f <= n /\ (f + 1) - 1 = f
  BY <1>1, <1>5
<1>7. C[f - 1] \in Nat /\ C[f] <= C[n] /\ C[f] = C[f - 1] + t.counts[f]
  BY <1>2, <1>3, <1>5, <1>6
<1>8. LeavesBefore(t, f) = C[f - 1] /\ LeavesBefore(t, f + 1) = C[f]
  BY <1>4, <1>6
<1>9. f = 1 => f - 1 = 0
  OBVIOUS
<1> QED
  BY <1>2, <1>4, <1>7, <1>8, <1>9 DEF n

LEMMA SequentialIsType ==
  ASSUME NEW k \in {"scalar", "vector", "array"}, NEW n \in Nat \ {0}, NEW w \in Widths,
         NEW t, t = Sequential(k, n, w), n = 1 \/ k # "scalar"
  PROVE  /\ IsValueType(t) /\ t.kind = k /\ Len(t.widths) = n
         /\ \A i \in 1 .. n : t.widths[i] = w
<1>1. /\ t.kind = k /\ t.widths = [i \in 1 .. n |-> w] /\ t.counts = [i \in 1 .. n |-> 1]
      /\ t = [kind |-> t.kind, widths |-> t.widths, counts |-> t.counts]
  BY DEF Sequential
<1>2. Len(t.widths) = n /\ DOMAIN t.widths = 1 .. n /\ IsSequence(t.widths)
  BY <1>1, FunctionIsSequence
<1>3. Len(t.counts) = n /\ DOMAIN t.counts = 1 .. n /\ IsSequence(t.counts)
  BY <1>1, FunctionIsSequence
<1>4. t.widths \in Seq(Widths)
  <2>1. t.widths \in [1 .. n -> Widths]
    BY <1>1
  <2> QED
    BY <2>1, SeqDef
<1>5. t.counts \in Seq(Nat \ {0})
  <2>1. t.counts \in [1 .. n -> Nat \ {0}]
    BY <1>1
  <2> QED
    BY <2>1, SeqDef
<1>6. t.counts # <<>>
  <2>1. Len(t.counts) # 0
    BY <1>3
  <2>2. Len(<<>>) = 0
    OBVIOUS
  <2> QED
    BY <2>1, <2>2
<1>7. \A i \in 0 .. n : Sums(t.counts)[i] = i * 1
  <2>1. Len(t.counts) \in Nat /\ 1 \in Nat /\ \A i \in 1 .. Len(t.counts) : t.counts[i] = 1
    BY <1>1, <1>3
  <2>2. \A i \in 0 .. Len(t.counts) : Sums(t.counts)[i] = i * 1
    BY <2>1, SumsOfEqual
  <2> QED
    BY <2>2, <1>3
<1>8. \A i \in 0 .. n : Sums(t.counts)[i] = i
  BY <1>7
<1>9. Total(t.counts) = n
  BY <1>3, <1>8 DEF Total
<1>10. \A f \in 1 .. n : LeavesBefore(t, f) = f - 1
  <2>1. \A f \in 1 .. n : f - 1 \in 0 .. n
    OBVIOUS
  <2> QED
    BY <1>8, <2>1 DEF LeavesBefore
<1>11. \A f \in 1 .. n : \A i \in 1 .. t.counts[f] :
         t.widths[LeavesBefore(t, f) + i] = t.widths[LeavesBefore(t, f) + 1]
  <2> SUFFICES ASSUME NEW f \in 1 .. n, NEW i \in 1 .. t.counts[f]
               PROVE  t.widths[LeavesBefore(t, f) + i] = t.widths[LeavesBefore(t, f) + 1]
    OBVIOUS
  <2>1. i = 1
    BY <1>1
  <2> QED
    BY <2>1
<1>12. t.kind \in {"scalar", "vector", "array", "struct"} /\ t.kind # "struct"
  BY <1>1
<1>13. (\A i \in 1 .. n : t.widths[i] = t.widths[1]) /\ \A f \in 1 .. n : t.counts[f] = 1
  BY <1>1
<1>14. t.kind = "scalar" => n = 1
  BY <1>1
<1>15. IsValueType(t)
  BY <1>1, <1>2, <1>3, <1>4, <1>5, <1>6, <1>9, <1>11, <1>12, <1>13, <1>14 DEF IsValueType
<1> QED
  BY <1>1, <1>2, <1>15

LEMMA ScalarIsType ==
  ASSUME NEW w \in Widths, NEW t, t = Scalar(w)
  PROVE  /\ IsValueType(t) /\ t.kind = "scalar" /\ Len(t.widths) = 1
         /\ t.widths[1] = w
<1>1. <<w>> = [i \in 1 .. 1 |-> w] /\ <<1>> = [i \in 1 .. 1 |-> 1]
  OBVIOUS
<1>2. t = Sequential("scalar", 1, w)
  BY <1>1 DEF Scalar, Sequential
<1>3. PICK n \in Nat \ {0} : n = 1
  OBVIOUS
<1>4. t = Sequential("scalar", n, w) /\ (n = 1 \/ "scalar" # "scalar")
  BY <1>2, <1>3
<1>5. /\ IsValueType(t) /\ t.kind = "scalar" /\ Len(t.widths) = n
      /\ \A i \in 1 .. n : t.widths[i] = w
  BY <1>4, SequentialIsType
<1> QED
  BY <1>3, <1>5

\* The type of a field describes the run of numbers of the field.
LEMMA FieldTypeFacts ==
  ASSUME NEW t, IsValueType(t), NEW f \in 1 .. Len(t.counts)
  PROVE  /\ IsValueType(FieldType(t, f)) /\ FieldType(t, f).kind \in {"scalar", "array"}
         /\ FieldType(t, f).kind = "scalar" <=> t.counts[f] = 1
         /\ Len(FieldType(t, f).widths) = t.counts[f]
         /\ IsPart(FieldType(t, f), t, LeavesBefore(t, f))
<1> DEFINE k == LeavesBefore(t, f)
           n == t.counts[f]
           u == FieldType(t, f)
           w == t.widths[k + 1]
<1>1. n \in Nat \ {0} /\ k \in Nat /\ k + n <= Len(t.widths) /\ Len(t.widths) \in Nat
  BY TypeFacts, FieldFacts
<1>2. \A i \in 1 .. n : t.widths[k + i] = w
  <2>1. f \in DOMAIN t.counts
    BY TypeFacts
  <2> QED
    BY <2>1 DEF IsValueType
<1>3. w \in Widths
  <2>1. k + 1 \in 1 .. Len(t.widths)
    BY <1>1
  <2> QED
    BY <2>1, TypeFacts
<1>4. u = IF n = 1 THEN Scalar(w) ELSE Array(n, w)
  BY DEF FieldType, Leaves
<1> HIDE DEF k, n, u, w
<1>5. /\ IsValueType(u) /\ u.kind \in {"scalar", "array"} /\ (u.kind = "scalar" <=> n = 1)
      /\ Len(u.widths) = n /\ \A i \in 1 .. n : u.widths[i] = w
  <2>1. CASE n = 1
    <3>1. u = Scalar(w)
      BY <1>4, <2>1
    <3> QED
      BY <1>3, <2>1, <3>1, ScalarIsType
  <2>2. CASE n # 1
    <3>1. u = Sequential("array", n, w)
      BY <1>4, <2>2 DEF Array
    <3>2. /\ IsValueType(u) /\ u.kind = "array"
          /\ Len(u.widths) = n /\ \A i \in 1 .. n : u.widths[i] = w
      BY <1>1, <1>3, <3>1, SequentialIsType
    <3> QED
      BY <2>2, <3>2
  <2> QED
    BY <2>1, <2>2
<1>6. IsPart(u, t, k)
  BY <1>1, <1>2, <1>5 DEF IsPart
<1> QED
  BY <1>5, <1>6 DEF k, n, u

\* The elements of a vector.
LEMMA VectorFacts ==
  ASSUME NEW t, IsValueType(t), t.kind = "vector"
  PROVE  /\ Element(t) \in Widths
         /\ \A i \in 1 .. Len(t.widths) :
              t.widths[i] = Element(t) /\ LeafOffset(t, i) = (i - 1) * Element(t)
         /\ getTypeAllocSize(t) = Len(t.widths) * Element(t)
         /\ Len(t.counts) = Len(t.widths)
         /\ t = Vector(Len(t.widths), Element(t))
<1> DEFINE w == Element(t)
<1>1. /\ Len(t.widths) \in Nat \ {0} /\ DOMAIN t.widths = 1 .. Len(t.widths)
      /\ \A i \in 1 .. Len(t.widths) : t.widths[i] \in Widths
      /\ Len(t.counts) \in Nat \ {0} /\ DOMAIN t.counts = 1 .. Len(t.counts)
      /\ IsSequence(t.widths) /\ IsSequence(t.counts)
  BY TypeFacts
<1>2. w = t.widths[1]
  BY DEF Element, Leaves
<1>3. w \in Widths
  BY <1>1, <1>2
<1>4. \A i \in 1 .. Len(t.widths) : t.widths[i] = w
  BY <1>1, <1>2 DEF IsValueType
<1>5. \A f \in 1 .. Len(t.counts) : t.counts[f] = 1
  BY <1>1 DEF IsValueType
<1> HIDE DEF w
<1>6. w \in Nat
  BY <1>3 DEF Widths
<1>7. /\ \A i \in 1 .. Len(t.widths) : LeafOffset(t, i) = (i - 1) * w
      /\ getTypeAllocSize(t) = Len(t.widths) * w
  BY <1>4, <1>6, EqualLayout
<1>8. Len(t.counts) = Len(t.widths)
  <2>1. Sums(t.counts)[Len(t.counts)] = Len(t.counts) * 1
    <3>1. Len(t.counts) \in Nat /\ 1 \in Nat /\ Len(t.counts) \in 0 .. Len(t.counts)
      BY <1>1
    <3>2. \A i \in 0 .. Len(t.counts) : Sums(t.counts)[i] = i * 1
      BY <1>5, <3>1, SumsOfEqual
    <3> QED
      BY <3>1, <3>2
  <2>2. Len(t.counts) * 1 = Len(t.counts)
    BY <1>1
  <2> QED
    BY <2>1, <2>2 DEF IsValueType, Total
<1>9. t = Vector(Len(t.widths), w)
  <2>1. t.widths = [i \in 1 .. Len(t.widths) |-> w]
    BY <1>1, <1>4 DEF IsSequence
  <2>2. t.counts = [i \in 1 .. Len(t.widths) |-> 1]
    BY <1>1, <1>5, <1>8 DEF IsSequence
  <2>3. t = [kind |-> t.kind, widths |-> t.widths, counts |-> t.counts]
    BY DEF IsValueType
  <2> QED
    BY <2>1, <2>2, <2>3 DEF Vector, Sequential
<1> QED
  BY <1>3, <1>4, <1>7, <1>8, <1>9 DEF w

-----------------------------------------------------------------------------
(* Memory. *)

\* m2 differs from m in the bytes of A only.
Changes(m, m2, A) ==
  \A b : b \notin A => /\ b \in DOMAIN m2 <=> b \in DOMAIN m
                       /\ b \in DOMAIN m => m2[b] = m[b]

LEMMA ChangesCompose ==
  ASSUME NEW m1, NEW m2, NEW m3, NEW A, NEW B, NEW C, Changes(m1, m2, A), Changes(m2, m3, B),
         A \subseteq C, B \subseteq C
  PROVE  Changes(m1, m3, C)
BY DEF Changes

LEMMA ChangesNothing ==
  ASSUME NEW m, NEW A
  PROVE  Changes(m, m, A)
BY DEF Changes

LEMMA ChangesMore ==
  ASSUME NEW m1, NEW m2, NEW A, NEW B, Changes(m1, m2, A), A \subseteq B
  PROVE  Changes(m1, m2, B)
BY DEF Changes

\* The tokens are told apart.
LEMMA Tokens ==
  /\ Zero # Undef /\ Zero # Junk /\ Undef # Junk
  /\ \A x, y : <<x, y>> \notin {Undef, Junk}
  /\ \A x, y, z : <<x, y, z>> \notin {Undef, Junk}
<1>1. Zero # Undef /\ Zero # Junk /\ Undef # Junk
  BY DEF Zero, Undef, Junk
<1>2. /\ \A x, y : <<x, y>> \notin {Undef, Junk}
      /\ \A x, y, z : <<x, y, z>> \notin {Undef, Junk}
  BY DEF Undef, Junk
<1> QED
  BY <1>1, <1>2

LEMMA ByteFacts ==
  ASSUME NEW x, NEW w \in Widths, NEW i
  PROVE  Byte(x, w, i)[1] = x /\ Byte(x, w, i)[2] \in {0, 1, 2, 4, 8}
<1>1. CASE x = Zero
  BY <1>1 DEF Byte
<1>2. CASE x # Zero
  BY <1>2 DEF Byte, Widths
<1> QED
  BY <1>1, <1>2

\* A scalar operation that is right on its operands is right.
LEMMA ResultFacts ==
  ASSUME NEW op, NEW x, NEW y, NEW p, NEW q, x # Undef, y # Undef, p # Junk, q # Junk,
         p \in {Undef, x}, q \in {Undef, y}
  PROVE  /\ Result(op, x, y) # Undef
         /\ Result(op, p, q) # Junk
         /\ Result(op, p, q) \in {Undef, Result(op, x, y)}
<1>1. Result(op, x, y) # Undef
  BY Tokens DEF Result
<1>2. CASE p = Undef \/ q = Undef
  <2>1. Result(op, p, q) = Undef
    BY <1>2, Tokens DEF Result
  <2> QED
    BY <1>1, <2>1, Tokens
<1>3. CASE p # Undef /\ q # Undef
  <2>1. p = x /\ q = y
    BY <1>3
  <2>2. Result(op, p, q) = <<op, p, q>>
    BY <1>3, <2>1 DEF Result
  <2> QED
    BY <1>1, <2>1, <2>2, Tokens
<1> QED
  BY <1>2, <1>3

LEMMA MemoryGrows ==
  ASSUME NEW m, NEW top \in Nat, NEW top2 \in Nat, top <= top2, IsMemory(m, top)
  PROVE  IsMemory(m, top2)
<1> SUFFICES ASSUME NEW b \in DOMAIN m
             PROVE  b \in Nat /\ b < top2 /\ m[b][2] \in {0, 1, 2, 4, 8} /\ m[b][1] # Undef
  BY DEF IsMemory
<1>1. b \in Nat /\ b < top /\ m[b][2] \in {0, 1, 2, 4, 8} /\ m[b][1] # Undef
  BY DEF IsMemory
<1> QED
  BY <1>1

LEMMA WriteEffect ==
  ASSUME NEW m, NEW a \in Nat, NEW w \in Widths, NEW token, NEW m2, m2 = Write(m, a, w, token),
         NEW top \in Nat, IsMemory(m, top), token # Undef, a + w <= top
  PROVE  /\ Changes(m, m2, a .. a + w - 1) /\ IsMemory(m2, top)
         /\ Holds(m2, a, w, token)
<1> DEFINE f == [b \in a .. a + w - 1 |-> Byte(token, w, b - a)]
<1>1. DOMAIN f = a .. a + w - 1 /\ \A b \in a .. a + w - 1 : f[b] = Byte(token, w, b - a)
  OBVIOUS
<1>2. m2 = Overwrite(m, f)
  BY DEF Write
<1> HIDE DEF f
<1>3. /\ DOMAIN m2 = DOMAIN f \cup DOMAIN m
      /\ \A b \in DOMAIN f : m2[b] = f[b]
      /\ \A b \in DOMAIN m : b \notin DOMAIN f => m2[b] = m[b]
  BY <1>2 DEF Overwrite
<1>4. \A b \in a .. a + w - 1 : m2[b] = Byte(token, w, b - a) /\ b \in DOMAIN m2
  BY <1>1, <1>3
<1>5. Holds(m2, a, w, token)
  BY <1>4 DEF Holds
<1>6. ASSUME NEW b \in DOMAIN m2
      PROVE  b \in Nat /\ b < top /\ m2[b][2] \in {0, 1, 2, 4, 8} /\ m2[b][1] # Undef
  <2>1. CASE b \in a .. a + w - 1
    <3>1. w \in Nat
      BY DEF Widths
    <3>2. b \in Nat /\ b < top
      BY <2>1, <3>1
    <3>3. m2[b] = Byte(token, w, b - a)
      BY <1>4, <2>1
    <3> QED
      BY <3>2, <3>3, ByteFacts
  <2>2. CASE b \notin a .. a + w - 1
    <3>1. b \in DOMAIN m /\ m2[b] = m[b]
      BY <1>1, <1>3, <2>2
    <3> QED
      BY <3>1 DEF IsMemory
  <2> QED
    BY <2>1, <2>2
<1>7. IsMemory(m2, top)
  BY <1>6 DEF IsMemory
<1>8. Changes(m, m2, DOMAIN f)
  BY <1>3 DEF Changes
<1> QED
  BY <1>1, <1>5, <1>7, <1>8

\* Zero has the same bytes in numbers of all widths.
LEMMA ZeroEffect ==
  ASSUME NEW m, NEW a \in Nat, NEW n \in Nat, NEW m2, m2 = zero(m, a, n),
         NEW top \in Nat, IsMemory(m, top), a + n <= top
  PROVE  /\ Changes(m, m2, a .. a + n - 1) /\ IsMemory(m2, top)
         /\ \A c \in Nat, w \in Nat : a <= c /\ c + w <= a + n => Holds(m2, c, w, Zero)
<1> DEFINE f == [b \in a .. a + n - 1 |-> Byte(Zero, 1, 0)]
<1>1. DOMAIN f = a .. a + n - 1 /\ \A b \in a .. a + n - 1 : f[b] = <<Zero, 0, 0>>
  BY DEF Byte
<1>2. m2 = Overwrite(m, f)
  BY DEF zero
<1> HIDE DEF f
<1>3. /\ DOMAIN m2 = DOMAIN f \cup DOMAIN m
      /\ \A b \in DOMAIN f : m2[b] = f[b]
      /\ \A b \in DOMAIN m : b \notin DOMAIN f => m2[b] = m[b]
  BY <1>2 DEF Overwrite
<1>4. \A b \in a .. a + n - 1 : m2[b] = <<Zero, 0, 0>> /\ b \in DOMAIN m2
  BY <1>1, <1>3
<1>5. ASSUME NEW c \in Nat, NEW w \in Nat, a <= c, c + w <= a + n PROVE Holds(m2, c, w, Zero)
  <2>1. \A b \in c .. c + w - 1 : b \in a .. a + n - 1
    BY <1>5
  <2> QED
    BY <1>4, <2>1 DEF Holds, Byte
<1>6. ASSUME NEW b \in DOMAIN m2
      PROVE  b \in Nat /\ b < top /\ m2[b][2] \in {0, 1, 2, 4, 8} /\ m2[b][1] # Undef
  <2>1. CASE b \in a .. a + n - 1
    <3>1. b \in Nat /\ b < top
      BY <2>1
    <3>2. m2[b] = <<Zero, 0, 0>>
      BY <1>4, <2>1
    <3> QED
      BY <3>1, <3>2, Tokens
  <2>2. CASE b \notin a .. a + n - 1
    <3>1. b \in DOMAIN m /\ m2[b] = m[b]
      BY <1>1, <1>3, <2>2
    <3> QED
      BY <3>1 DEF IsMemory
  <2> QED
    BY <2>1, <2>2
<1>7. IsMemory(m2, top)
  BY <1>6 DEF IsMemory
<1>8. Changes(m, m2, DOMAIN f)
  BY <1>3 DEF Changes
<1> QED
  BY <1>1, <1>5, <1>7, <1>8

LEMMA StringEffect ==
  ASSUME NEW m, NEW a \in Nat, NEW s, Len(s) \in Nat, NEW m2, m2 = packString(m, a, s),
         NEW top \in Nat, IsMemory(m, top), a + Len(s) <= top, \A i \in 1 .. Len(s) : s[i] # Undef
  PROVE  /\ Changes(m, m2, a .. a + Len(s) - 1) /\ IsMemory(m2, top)
         /\ \A i \in 1 .. Len(s) : Holds(m2, a + (i - 1), 1, s[i])
<1> DEFINE n == Len(s)
           f == [b \in a .. a + n - 1 |-> Byte(s[b - a + 1], 1, 0)]
<1>1. DOMAIN f = a .. a + n - 1 /\ \A b \in a .. a + n - 1 : f[b] = Byte(s[b - a + 1], 1, 0)
  OBVIOUS
<1>2. m2 = Overwrite(m, f)
  BY DEF packString
<1> HIDE DEF f
<1>3. /\ DOMAIN m2 = DOMAIN f \cup DOMAIN m
      /\ \A b \in DOMAIN f : m2[b] = f[b]
      /\ \A b \in DOMAIN m : b \notin DOMAIN f => m2[b] = m[b]
  BY <1>2 DEF Overwrite
<1>4. \A b \in a .. a + n - 1 : m2[b] = Byte(s[b - a + 1], 1, 0) /\ b \in DOMAIN m2
  BY <1>1, <1>3
<1>5. n \in Nat
  OBVIOUS
<1> HIDE DEF n
<1>6. ASSUME NEW i \in 1 .. n PROVE Holds(m2, a + (i - 1), 1, s[i])
  <2>1. a + (i - 1) \in a .. a + n - 1 /\ (a + (i - 1)) - a + 1 = i
    BY <1>5
  <2>2. m2[a + (i - 1)] = Byte(s[i], 1, 0) /\ a + (i - 1) \in DOMAIN m2
    BY <1>4, <2>1
  <2>3. \A b \in a + (i - 1) .. a + (i - 1) + 1 - 1 : b = a + (i - 1) /\ b - (a + (i - 1)) = 0
    OBVIOUS
  <2> QED
    BY <2>2, <2>3 DEF Holds
<1>7. ASSUME NEW b \in DOMAIN m2
      PROVE  b \in Nat /\ b < top /\ m2[b][2] \in {0, 1, 2, 4, 8} /\ m2[b][1] # Undef
  <2>1. CASE b \in a .. a + n - 1
    <3>1. b \in Nat /\ b < top
      BY <2>1, <1>5 DEF n
    <3>2. m2[b] = Byte(s[b - a + 1], 1, 0) /\ b - a + 1 \in 1 .. n
      BY <1>4, <1>5, <2>1
    <3>3. s[b - a + 1] # Undef
      BY <3>2 DEF n
    <3>4. 1 \in Widths
      BY DEF Widths
    <3> QED
      BY <3>1, <3>2, <3>3, <3>4, ByteFacts
  <2>2. CASE b \notin a .. a + n - 1
    <3>1. b \in DOMAIN m /\ m2[b] = m[b]
      BY <1>1, <1>3, <2>2
    <3> QED
      BY <3>1 DEF IsMemory
  <2> QED
    BY <2>1, <2>2
<1>8. IsMemory(m2, top)
  BY <1>7 DEF IsMemory
<1>9. Changes(m, m2, DOMAIN f)
  BY <1>3 DEF Changes
<1> QED
  BY <1>1, <1>6, <1>8, <1>9 DEF n

LEMMA CopyEffect ==
  ASSUME NEW m, NEW to \in Nat, NEW from \in Nat, NEW n \in Nat,
         NEW m2, m2 = memcpy(m, to, from, n), NEW top \in Nat, IsMemory(m, top), to + n <= top
  PROVE  /\ Changes(m, m2, to .. to + n - 1) /\ IsMemory(m2, top)
         /\ \A o \in Nat, w \in Nat : \A x :
              o + w <= n /\ Holds(m, from + o, w, x) => Holds(m2, to + o, w, x)
<1> DEFINE A == {c \in to .. to + n - 1 : from + (c - to) \in DOMAIN m}
           f == [b \in A |-> m[from + (b - to)]]
<1>1. DOMAIN f = A /\ \A b \in A : f[b] = m[from + (b - to)]
  OBVIOUS
<1>2. m2 = Overwrite(m, f)
  BY DEF memcpy
<1>3. \A b : b \in A <=> b \in to .. to + n - 1 /\ from + (b - to) \in DOMAIN m
  OBVIOUS
<1> HIDE DEF f, A
<1>4. /\ DOMAIN m2 = DOMAIN f \cup DOMAIN m
      /\ \A b \in DOMAIN f : m2[b] = f[b]
      /\ \A b \in DOMAIN m : b \notin DOMAIN f => m2[b] = m[b]
  BY <1>2 DEF Overwrite
<1>5. \A b \in A : m2[b] = m[from + (b - to)] /\ b \in DOMAIN m2
  BY <1>1, <1>4
<1>6. ASSUME NEW o \in Nat, NEW w \in Nat, NEW x, o + w <= n, Holds(m, from + o, w, x)
      PROVE  Holds(m2, to + o, w, x)
  <2>1. CASE x = Undef
    BY <2>1 DEF Holds
  <2>2. CASE x # Undef
    <3>1. ASSUME NEW b \in to + o .. to + o + w - 1
          PROVE  b \in DOMAIN m2 /\ m2[b] = Byte(x, w, b - (to + o))
      <4>1. from + (b - to) \in from + o .. from + o + w - 1 /\ b \in to .. to + n - 1
        BY <1>6
      <4>2. from + (b - to) - (from + o) = b - (to + o)
        OBVIOUS
      <4>3. from + (b - to) \in DOMAIN m /\ m[from + (b - to)] = Byte(x, w, from + (b - to) - (from + o))
        BY <1>6, <2>2, <4>1 DEF Holds
      <4>4. b \in A
        BY <1>3, <4>1, <4>3
      <4> QED
        BY <1>5, <4>2, <4>3, <4>4
    <3> QED
      BY <3>1 DEF Holds
  <2> QED
    BY <2>1, <2>2
<1>7. ASSUME NEW b \in DOMAIN m2
      PROVE  b \in Nat /\ b < top /\ m2[b][2] \in {0, 1, 2, 4, 8} /\ m2[b][1] # Undef
  <2>1. CASE b \in A
    <3>1. b \in to .. to + n - 1 /\ from + (b - to) \in DOMAIN m
      BY <1>3, <2>1
    <3>2. b \in Nat /\ b < top
      BY <3>1
    <3>3. m2[b] = m[from + (b - to)]
      BY <1>5, <2>1
    <3> QED
      BY <3>1, <3>2, <3>3 DEF IsMemory
  <2>2. CASE b \notin A
    <3>1. b \in DOMAIN m /\ m2[b] = m[b]
      BY <1>1, <1>4, <2>2
    <3> QED
      BY <3>1 DEF IsMemory
  <2> QED
    BY <2>1, <2>2
<1>8. IsMemory(m2, top)
  BY <1>7 DEF IsMemory
<1>9. Changes(m, m2, to .. to + n - 1)
  <2>1. A \subseteq to .. to + n - 1
    BY <1>3
  <2>2. Changes(m, m2, DOMAIN f)
    BY <1>4 DEF Changes
  <2> QED
    BY <1>1, <2>1, <2>2, ChangesMore
<1> QED
  BY <1>6, <1>8, <1>9

-----------------------------------------------------------------------------
(* Numbers and values in memory. *)

LEMMA HoldsKept ==
  ASSUME NEW m, NEW m2, NEW A, Changes(m, m2, A), NEW a, NEW w, NEW x, Holds(m, a, w, x),
         (a .. a + w - 1) \cap A = {}
  PROVE  Holds(m2, a, w, x)
<1>1. CASE x = Undef
  BY <1>1 DEF Holds
<1>2. CASE x # Undef
  <2>1. ASSUME NEW b \in a .. a + w - 1 PROVE b \in DOMAIN m2 /\ m2[b] = Byte(x, w, b - a)
    <3>1. b \in DOMAIN m /\ m[b] = Byte(x, w, b - a)
      BY <1>2 DEF Holds
    <3>2. b \notin A
      OBVIOUS
    <3> QED
      BY <3>1, <3>2 DEF Changes
  <2> QED
    BY <2>1 DEF Holds
<1> QED
  BY <1>1, <1>2

\* A number is read where it lies.
LEMMA HoldsRead ==
  ASSUME NEW m, NEW a \in Nat, NEW w \in Widths, NEW x, Holds(m, a, w, x)
  PROVE  x \in {Undef, Read(m, a, w)}
<1> SUFFICES ASSUME x # Undef PROVE Read(m, a, w) = x
  OBVIOUS
<1>1. \A b \in a .. a + w - 1 : b \in DOMAIN m /\ m[b] = Byte(x, w, b - a)
  BY DEF Holds
<1>2. a \in a .. a + w - 1 /\ a - a = 0
  BY DEF Widths
<1>3. m[a] = Byte(x, w, 0)
  BY <1>1, <1>2
<1>4. m[a][1] = x
  BY <1>3, ByteFacts
<1> QED
  BY <1>1, <1>4 DEF Read

LEMMA ReadIsDefined ==
  ASSUME NEW m, NEW top, IsMemory(m, top), NEW a \in Nat, NEW w \in Widths
  PROVE  Read(m, a, w) # Undef
<1>1. a \in a .. a + w - 1
  BY DEF Widths
<1>2. CASE a \in DOMAIN m
  <2>1. m[a][1] # Undef
    BY <1>2 DEF IsMemory
  <2> QED
    BY <2>1, Tokens DEF Read
<1>3. CASE a \notin DOMAIN m
  BY <1>1, <1>3, Tokens DEF Read
<1> QED
  BY <1>2, <1>3

LEMMA ExtentFacts ==
  ASSUME NEW t, IsValueType(t), NEW a \in Nat
  PROVE  /\ Extent(a, t) = a .. a + getTypeAllocSize(t) - 1
         /\ a \in Extent(a, t)
         /\ \A i \in 1 .. Len(t.widths) :
              /\ LeafOffset(t, i) \in Nat /\ a + LeafOffset(t, i) \in Nat
              /\ a + LeafOffset(t, i) .. a + LeafOffset(t, i) + t.widths[i] - 1 \subseteq Extent(a, t)
<1>1. getTypeAllocSize(t) \in Nat \ {0}
  BY Layout
<1>2. ASSUME NEW i \in 1 .. Len(t.widths)
      PROVE  /\ LeafOffset(t, i) \in Nat /\ a + LeafOffset(t, i) \in Nat
             /\ a + LeafOffset(t, i) .. a + LeafOffset(t, i) + t.widths[i] - 1 \subseteq Extent(a, t)
  <2>1. /\ LeafOffset(t, i) \in Nat
        /\ LeafOffset(t, i) + t.widths[i] <= getTypeAllocSize(t)
    BY Layout
  <2>2. t.widths[i] \in Nat
    BY TypeFacts DEF Widths
  <2> QED
    BY <1>1, <2>1, <2>2, Within DEF Extent
<1>3. a \in Extent(a, t)
  BY <1>1 DEF Extent
<1> QED
  BY <1>2, <1>3 DEF Extent

LEMMA HeldKept ==
  ASSUME NEW m, NEW m2, NEW A, Changes(m, m2, A), NEW t, IsValueType(t), NEW a \in Nat,
         NEW value, Held(m, a, t, value), Extent(a, t) \cap A = {}
  PROVE  Held(m2, a, t, value)
<1> SUFFICES ASSUME NEW i \in 1 .. Len(t.widths)
             PROVE  Holds(m2, a + LeafOffset(t, i), t.widths[i], value[i])
  BY TypeFacts DEF Held
<1>1. Holds(m, a + LeafOffset(t, i), t.widths[i], value[i])
  BY TypeFacts DEF Held
<1>2. a + LeafOffset(t, i) .. a + LeafOffset(t, i) + t.widths[i] - 1 \subseteq Extent(a, t)
  BY ExtentFacts
<1>3. (a + LeafOffset(t, i) .. a + LeafOffset(t, i) + t.widths[i] - 1) \cap A = {}
  BY <1>2
<1> QED
  BY <1>1, <1>3, HoldsKept

LEMMA UndefHeld ==
  ASSUME NEW t, IsValueType(t), NEW m, NEW a, NEW value,
         \A i \in 1 .. Len(t.widths) : value[i] = Undef
  PROVE  Held(m, a, t, value)
BY TypeFacts DEF Held, Holds

\* What is read of a value agrees with LLVM's.
LEMMA HeldAgrees ==
  ASSUME NEW m, NEW t, IsValueType(t), NEW a \in Nat, NEW value, IsValue(t, value),
         Held(m, a, t, value)
  PROVE  Agree(ReadAll(m, a, t), value)
<1>1. DOMAIN value = 1 .. Len(t.widths) /\ DOMAIN t.widths = 1 .. Len(t.widths)
  BY TypeFacts, SequenceFacts DEF IsValue
<1> SUFFICES ASSUME NEW i \in 1 .. Len(t.widths)
             PROVE  value[i] \in {Undef, ReadAll(m, a, t)[i]}
  BY <1>1 DEF Agree
<1>2. ReadAll(m, a, t)[i] = Read(m, a + LeafOffset(t, i), t.widths[i])
  BY <1>1 DEF ReadAll, Leaves
<1>3. Holds(m, a + LeafOffset(t, i), t.widths[i], value[i])
  BY <1>1 DEF Held
<1>4. a + LeafOffset(t, i) \in Nat /\ t.widths[i] \in Widths
  BY ExtentFacts, TypeFacts
<1> QED
  BY <1>2, <1>3, <1>4, HoldsRead

\* The numbers of a part lie where the layout of the whole puts them.
LEMMA PartHeld ==
  ASSUME NEW m, NEW t, IsValueType(t), NEW u, IsValueType(u), NEW k \in Nat, IsPart(u, t, k),
         NEW a \in Nat, NEW value, IsValue(t, value), Held(m, a, t, value)
  PROVE  /\ a + LeafOffset(t, k + 1) \in Nat
         /\ Extent(a + LeafOffset(t, k + 1), u) \subseteq Extent(a, t)
         /\ IsValue(u, SubSeq(value, k + 1, k + Len(u.widths)))
         /\ Held(m, a + LeafOffset(t, k + 1), u, SubSeq(value, k + 1, k + Len(u.widths)))
<1> DEFINE n == Len(u.widths)
           c == a + LeafOffset(t, k + 1)
           v == SubSeq(value, k + 1, k + n)
<1>1. /\ n \in Nat \ {0} /\ Len(t.widths) \in Nat /\ k + n <= Len(t.widths)
      /\ \A i \in 1 .. n : u.widths[i] = t.widths[k + i]
  BY TypeFacts DEF IsPart
<1>2. /\ LeafOffset(t, k + 1) \in Nat
      /\ LeafOffset(t, k + 1) + getTypeAllocSize(u) <= getTypeAllocSize(t)
      /\ \A i \in 1 .. Len(u.widths) : LeafOffset(t, k + i) = LeafOffset(t, k + 1) + LeafOffset(u, i)
  BY PartLayout
<1>3. c \in Nat
  BY <1>2
<1>4. Extent(c, u) \subseteq Extent(a, t)
  <2>1. getTypeAllocSize(u) \in Nat /\ getTypeAllocSize(t) \in Nat
    BY Layout
  <2> QED
    BY <1>2, <2>1 DEF Extent
<1>5. IsSequence(value) /\ Len(value) = Len(t.widths) /\ \A i \in 1 .. Len(t.widths) : value[i] # Junk
  BY SequenceFacts DEF IsValue
<1>6. /\ IsSequence(v) /\ Len(v) = n /\ DOMAIN v = 1 .. n
      /\ \A i \in 1 .. n : v[i] = value[k + i]
  <2>1. n \in Nat /\ k + n <= Len(value)
    BY <1>1, <1>5
  <2> HIDE DEF n, v
  <2>2. ASSUME NEW j \in Nat, NEW l \in Nat, j = k, l = n
        PROVE  /\ IsSequence(SubSeq(value, j + 1, j + l)) /\ Len(SubSeq(value, j + 1, j + l)) = l
               /\ DOMAIN SubSeq(value, j + 1, j + l) = 1 .. l
               /\ \A i \in 1 .. l : SubSeq(value, j + 1, j + l)[i] = value[j + i]
    <3>1. IsSequence(value) /\ j + l <= Len(value)
      BY <1>5, <2>1, <2>2
    <3> QED
      BY <3>1, SubSeqFacts
  <2> QED
    BY <2>1, <2>2 DEF v
<1> HIDE DEF v
<1>7. \A i \in 1 .. n : k + i \in 1 .. Len(t.widths)
  BY <1>1
<1>8. IsValue(u, v)
  BY <1>5, <1>6, <1>7 DEF IsValue
<1>9. ASSUME NEW i \in 1 .. n
      PROVE  Holds(m, c + LeafOffset(u, i), u.widths[i], v[i])
  <2>1. Holds(m, a + LeafOffset(t, k + i), t.widths[k + i], value[k + i])
    BY <1>7, TypeFacts DEF Held
  <2>2. a + LeafOffset(t, k + i) = c + LeafOffset(u, i)
    <3>1. LeafOffset(u, i) \in Nat
      BY Layout
    <3> QED
      BY <1>2, <3>1
  <2>3. u.widths[i] = t.widths[k + i] /\ v[i] = value[k + i]
    BY <1>1, <1>6
  <2> QED
    BY <2>1, <2>2, <2>3
<1>10. Held(m, c, u, v)
  BY <1>9, TypeFacts DEF Held
<1> QED
  BY <1>3, <1>4, <1>8, <1>10 DEF v

\* A part of a value is replaced, in memory and in LLVM.
LEMMA PartReplaced ==
  ASSUME NEW m, NEW t, IsValueType(t), NEW u, IsValueType(u), NEW k \in Nat, IsPart(u, t, k),
         NEW a \in Nat, NEW value, IsValue(t, value), Held(m, a, t, value),
         NEW m2, Changes(m, m2, Extent(a + LeafOffset(t, k + 1), u)),
         NEW part, IsValue(u, part), Held(m2, a + LeafOffset(t, k + 1), u, part),
         NEW value2, value2 = [i \in DOMAIN value |-> value2[i]],
         \A i \in 1 .. Len(t.widths) :
           value2[i] = IF i - k \in 1 .. Len(u.widths) THEN part[i - k] ELSE value[i]
  PROVE  IsValue(t, value2) /\ Held(m2, a, t, value2)
<1> DEFINE n == Len(u.widths)
           c == a + LeafOffset(t, k + 1)
<1>1. /\ n \in Nat \ {0} /\ Len(t.widths) \in Nat /\ k + n <= Len(t.widths)
      /\ \A i \in 1 .. n : u.widths[i] = t.widths[k + i]
  BY TypeFacts DEF IsPart
<1>2. /\ IsSequence(value) /\ Len(value) = Len(t.widths) /\ DOMAIN value = 1 .. Len(t.widths)
      /\ \A i \in 1 .. Len(t.widths) : value[i] # Junk
  BY SequenceFacts DEF IsValue
<1>3. \A i \in 1 .. n : part[i] # Junk
  BY SequenceFacts DEF IsValue
<1>4. IsSequence(value2) /\ Len(value2) = Len(t.widths) /\ DOMAIN value2 = 1 .. Len(t.widths)
  BY <1>1, <1>2, FunctionIsSequence
<1>5. IsValue(t, value2)
  <2>1. \A i \in 1 .. Len(t.widths) : value2[i] # Junk
    BY <1>2, <1>3
  <2> QED
    BY <1>4, <2>1 DEF IsValue
<1>6. /\ LeafOffset(t, k + 1) \in Nat
      /\ \A i \in 1 .. n : LeafOffset(t, k + i) = LeafOffset(t, k + 1) + LeafOffset(u, i)
      /\ \A j \in 1 .. Len(t.widths) :
           /\ j <= k => LeafOffset(t, j) + t.widths[j] <= LeafOffset(t, k + 1)
           /\ j > k + n => LeafOffset(t, k + 1) + getTypeAllocSize(u) <= LeafOffset(t, j)
  BY PartLayout
<1>7. ASSUME NEW i \in 1 .. Len(t.widths)
      PROVE  Holds(m2, a + LeafOffset(t, i), t.widths[i], value2[i])
  <2>0. i \in Int /\ 1 <= i /\ LeafOffset(t, i) \in Nat /\ t.widths[i] \in Nat
    <3>1. t.widths[i] \in Widths
      BY TypeFacts
    <3> QED
      BY <1>1, <3>1, Layout DEF Widths
  <2>1. CASE i - k \in 1 .. n
    <3>1. PICK j \in 1 .. n : j = i - k
      BY <2>1
    <3>2. i = k + j
      BY <1>1, <2>0, <3>1
    <3>3. Holds(m2, c + LeafOffset(u, j), u.widths[j], part[j])
      BY TypeFacts DEF Held
    <3>4. c + LeafOffset(u, j) = a + LeafOffset(t, i)
      <4>1. LeafOffset(u, j) \in Nat
        BY Layout
      <4> QED
        BY <1>6, <3>2, <4>1
    <3>5. value2[i] = part[j] /\ u.widths[j] = t.widths[i]
      BY <1>1, <2>1, <3>1, <3>2
    <3> QED
      BY <3>3, <3>4, <3>5
  <2>2. CASE i - k \notin 1 .. n
    <3>1. i <= k \/ i > k + n
      BY <1>1, <2>0, <2>2
    <3>2. Holds(m, a + LeafOffset(t, i), t.widths[i], value[i])
      BY TypeFacts DEF Held
    <3>3. \/ LeafOffset(t, i) + t.widths[i] <= LeafOffset(t, k + 1)
          \/ LeafOffset(t, k + 1) + getTypeAllocSize(u) <= LeafOffset(t, i)
      BY <1>6, <3>1
    <3>4. (a + LeafOffset(t, i) .. a + LeafOffset(t, i) + t.widths[i] - 1) \cap Extent(c, u) = {}
      <4>1. getTypeAllocSize(u) \in Nat
        BY Layout
      <4> QED
        BY <1>6, <2>0, <3>3, <4>1, Apart DEF Extent
    <3>5. Holds(m2, a + LeafOffset(t, i), t.widths[i], value[i])
      BY <3>2, <3>4, HoldsKept
    <3>6. value2[i] = value[i]
      BY <2>2
    <3> QED
      BY <3>5, <3>6
  <2> QED
    BY <2>1, <2>2
<1>8. Held(m2, a, t, value2)
  BY <1>7, TypeFacts DEF Held
<1> QED
  BY <1>5, <1>8

\* A scalar lies where its number lies.
LEMMA ScalarHeld ==
  ASSUME NEW t, IsValueType(t), t.kind = "scalar", NEW m, NEW a \in Nat, NEW value
  PROVE  /\ Held(m, a, t, value) <=> Holds(m, a, t.widths[1], value[1])
         /\ Extent(a, t) = a .. a + t.widths[1] - 1
         /\ Len(t.widths) = 1 /\ t.widths[1] \in Widths
<1>1. Len(t.counts) = 1 /\ t.counts \in Seq(Nat \ {0}) /\ DOMAIN t.counts = 1 .. Len(t.counts)
  BY TypeFacts DEF IsValueType
<1>2. t.counts[1] = 1
  BY <1>1 DEF IsValueType
<1>3. Len(t.widths) = 1
  <2>1. Len(t.widths) = Sums(t.counts)[1]
    BY <1>1 DEF IsValueType, Total
  <2>2. Sums(t.counts)[0] = 0 /\ Sums(t.counts)[1] = Sums(t.counts)[1 - 1] + t.counts[1]
    BY <1>1, SumsUnfold
  <2> QED
    BY <1>2, <2>1, <2>2
<1>4. t.widths[1] \in Widths /\ t.widths[1] \in Nat /\ DOMAIN t.widths = 1 .. 1
  BY <1>3, TypeFacts DEF Widths
<1>5. LeafOffset(t, 1) = 0 /\ a + 0 = a
  BY Layout
<1>6. getTypeAllocSize(t) = t.widths[1]
  <2>1. Sums(t.widths)[0] = 0 /\ Sums(t.widths)[1] = Sums(t.widths)[1 - 1] + t.widths[1]
    BY <1>3, SumsUnfold
  <2> QED
    BY <1>3, <1>4, <2>1 DEF getTypeAllocSize, Total, Leaves
<1>7. Held(m, a, t, value) <=> Holds(m, a, t.widths[1], value[1])
  <2>1. \A i \in DOMAIN t.widths : i = 1
    BY <1>4
  <2>2. 1 \in DOMAIN t.widths
    BY <1>4
  <2> QED
    BY <1>5, <2>1, <2>2 DEF Held
<1> QED
  BY <1>3, <1>4, <1>6, <1>7 DEF Extent

-----------------------------------------------------------------------------
(* The code of vector instructions. *)

\* The recursive function that Fill chooses exists.
LEMMA FillChoice ==
  ASSUME NEW m, NEW a, NEW w, NEW from, NEW s, NEW len \in Nat
  PROVE  \E f : f = [i \in 0 .. len |->
                       IF i = 0 THEN m
                       ELSE Write(f[i - 1], a + (i - 1) * w, w, Compute(f[i - 1], from, s[i]))]
<1> DEFINE Next1(x, i) == Write(x, a + (i - 1) * w, w, Compute(x, from, s[i]))
           Fills(f, n) == f = [i \in 0 .. n |-> IF i = 0 THEN m ELSE Next1(f[i - 1], i)]
           T == {n \in Nat : \E f : Fills(f, n)}
<1> HIDE DEF Next1
<1>1. 0 \in T
  <2> DEFINE f == [i \in 0 .. 0 |-> m]
  <2>1. f = [i \in 0 .. 0 |-> IF i = 0 THEN m ELSE Next1(f[i - 1], i)]
    OBVIOUS
  <2> HIDE DEF f
  <2> QED
    BY <2>1
<1>2. ASSUME NEW n \in Nat, n \in T PROVE n + 1 \in T
  <2>1. PICK f : f = [i \in 0 .. n |-> IF i = 0 THEN m ELSE Next1(f[i - 1], i)]
    BY <1>2
  <2> DEFINE g == [i \in 0 .. n + 1 |-> IF i \in 0 .. n THEN f[i] ELSE Next1(f[i - 1], i)]
             h == [i \in 0 .. n + 1 |-> IF i = 0 THEN m ELSE Next1(g[i - 1], i)]
  <2>2. ASSUME NEW i \in 0 .. n + 1 PROVE g[i] = h[i]
    <3>1. CASE i = 0
      BY <2>1, <3>1
    <3>2. CASE i # 0
      <4>1. i - 1 \in 0 .. n /\ i - 1 \in 0 .. n + 1
        BY <3>2
      <4>2. g[i - 1] = f[i - 1]
        BY <4>1
      <4>3. g[i] = Next1(f[i - 1], i)
        BY <2>1, <3>2
      <4>4. h[i] = Next1(g[i - 1], i)
        BY <3>2
      <4> QED
        BY <4>2, <4>3, <4>4
    <3> QED
      BY <3>1, <3>2
  <2>3. g = h
    <3>1. g = [i \in 0 .. n + 1 |-> g[i]] /\ h = [i \in 0 .. n + 1 |-> h[i]]
      OBVIOUS
    <3> HIDE DEF g, h
    <3> QED
      BY <2>2, <3>1
  <2>4. Fills(g, n + 1)
    <3> HIDE DEF g
    <3> QED
      BY <2>3
  <2> HIDE DEF g, Fills
  <2> QED
    BY <2>4
<1> HIDE DEF T
<1>3. len \in T
  BY <1>1, <1>2, SetInduction
<1> QED
  BY <1>3 DEF T, Next1

LEMMA FillUnfold ==
  ASSUME NEW m, NEW a, NEW w, NEW from, NEW s, Len(s) \in Nat
  PROVE  \E f : /\ f[0] = m /\ Fill(m, a, w, from, s) = f[Len(s)]
                /\ \A i \in 1 .. Len(s) :
                     f[i] = Write(f[i - 1], a + (i - 1) * w, w, Compute(f[i - 1], from, s[i]))
<1> DEFINE f == CHOOSE f : f = [i \in 0 .. Len(s) |->
                  IF i = 0 THEN m
                  ELSE Write(f[i - 1], a + (i - 1) * w, w, Compute(f[i - 1], from, s[i]))]
<1>1. f = [i \in 0 .. Len(s) |->
             IF i = 0 THEN m
             ELSE Write(f[i - 1], a + (i - 1) * w, w, Compute(f[i - 1], from, s[i]))]
  BY FillChoice
<1>2. Fill(m, a, w, from, s) = f[Len(s)]
  BY DEF Fill
<1> HIDE DEF f
<1>3. f[0] = m
  BY <1>1
<1>4. ASSUME NEW i \in 1 .. Len(s)
      PROVE  f[i] = Write(f[i - 1], a + (i - 1) * w, w, Compute(f[i - 1], from, s[i]))
  <2>1. i \in 0 .. Len(s) /\ i # 0
    OBVIOUS
  <2> QED
    BY <1>1, <2>1
<1> QED
  BY <1>2, <1>3, <1>4

\* A memory in the middle of filling the bytes A: those, and no others, differ.
Filling(m, mi, A, top) == Changes(m, mi, A) /\ IsMemory(mi, top)

\* Every number is computed right, whatever has been stored.
ComputesAll(m, a, w, from, s, value, top) ==
  /\ a \in Nat /\ w \in Widths /\ Len(s) \in Nat /\ top \in Nat
  /\ IsMemory(m, top) /\ a + Len(s) * w <= top
  /\ \A i \in 1 .. Len(s) : \A mi : Filling(m, mi, a .. a + Len(s) * w - 1, top) =>
       /\ Compute(mi, from, s[i]) # Undef
       /\ value[i] \in {Undef, Compute(mi, from, s[i])}

LEMMA FillEffect ==
  ASSUME NEW m, NEW aa, NEW ww, NEW from, NEW s, NEW value, NEW ttop,
         ComputesAll(m, aa, ww, from, s, value, ttop),
         NEW m2, m2 = Fill(m, aa, ww, from, s)
  PROVE  /\ Changes(m, m2, aa .. aa + Len(s) * ww - 1) /\ IsMemory(m2, ttop)
         /\ \A i \in 1 .. Len(s) : Holds(m2, aa + (i - 1) * ww, ww, value[i])
<1>a. PICK a \in Nat, w \in Widths, n \in Nat, top \in Nat :
        a = aa /\ w = ww /\ n = Len(s) /\ top = ttop
  BY DEF ComputesAll
<1> DEFINE A == a .. a + n * w - 1
<1>b. /\ IsMemory(m, top) /\ a + n * w <= top /\ m2 = Fill(m, a, w, from, s)
      /\ \A i \in 1 .. n : \A mi : Filling(m, mi, A, top) =>
           /\ Compute(mi, from, s[i]) # Undef
           /\ value[i] \in {Undef, Compute(mi, from, s[i])}
  BY <1>a DEF ComputesAll
<1>0. Len(s) \in Nat
  BY <1>a
<1>1. PICK f : /\ f[0] = m /\ m2 = f[n]
               /\ \A i \in 1 .. n :
                    f[i] = Write(f[i - 1], a + (i - 1) * w, w, Compute(f[i - 1], from, s[i]))
  <2>1. \E f : /\ f[0] = m /\ Fill(m, aa, ww, from, s) = f[Len(s)]
              /\ \A i \in 1 .. Len(s) :
                   f[i] = Write(f[i - 1], aa + (i - 1) * ww, ww, Compute(f[i - 1], from, s[i]))
    BY <1>0, FillUnfold
  <2> QED
    BY <2>1, <1>a, <1>b
<1>2. w \in Nat \ {0}
  BY DEF Widths
<1> DEFINE at(i) == a + (i - 1) * w
           Good(i) == /\ Filling(m, f[i], A, top)
                      /\ \A j \in 1 .. i : Holds(f[i], at(j), w, value[j])
           T == {i \in Nat : i <= n => Good(i)}
<1>3. 0 \in T
  <2>1. Filling(m, f[0], A, top)
    BY <1>1, <1>b, ChangesNothing DEF Filling
  <2> QED
    BY <2>1
<1>4. ASSUME NEW i \in Nat, i \in T PROVE i + 1 \in T
  <2> SUFFICES ASSUME i + 1 <= n PROVE Good(i + 1)
    OBVIOUS
  <2>1. Good(i)
    BY <1>4
  <2> DEFINE c == at(i + 1)
             x == Compute(f[i], from, s[i + 1])
  <2>2. i + 1 \in 1 .. n /\ (i + 1) - 1 = i
    OBVIOUS
  <2>3. c = a + i * w /\ i * w \in Nat /\ c \in Nat
    BY <1>2, <2>2
  <2>4. c + w <= a + n * w
    <3>1. i * w + w = (i + 1) * w
      BY <1>2
    <3>2. (i + 1) * w <= n * w
      BY <1>2
    <3> QED
      BY <1>2, <2>3, <3>1, <3>2
  <2>5. f[i + 1] = Write(f[i], c, w, x)
    BY <1>1, <2>2
  <2>6. x # Undef /\ value[i + 1] \in {Undef, x}
    BY <1>b, <2>1, <2>2
  <2>7. IsMemory(f[i], top) /\ Changes(m, f[i], A)
    BY <2>1 DEF Filling
  <2>8. n * w \in Nat /\ c + w <= top
    BY <1>2, <1>b, <2>3, <2>4
  <2> HIDE DEF c, x
  <2>9. /\ Changes(f[i], f[i + 1], c .. c + w - 1) /\ IsMemory(f[i + 1], top)
        /\ Holds(f[i + 1], c, w, x)
    <3>1. ASSUME NEW m3, m3 = f[i], NEW m4, m4 = f[i + 1]
          PROVE  Changes(m3, m4, c .. c + w - 1) /\ IsMemory(m4, top) /\ Holds(m4, c, w, x)
      <4>1. m4 = Write(m3, c, w, x) /\ IsMemory(m3, top) /\ x # Undef /\ c + w <= top /\ c \in Nat
        BY <2>3, <2>5, <2>6, <2>7, <2>8, <3>1
      <4> QED
        BY <4>1, WriteEffect
    <3> QED
      BY <3>1
  <2>10. c .. c + w - 1 \subseteq A
    BY <1>2, <2>3, <2>4, <2>8
  <2>11. Filling(m, f[i + 1], A, top)
    <3>1. Changes(m, f[i + 1], A)
      BY <2>7, <2>9, <2>10 DEF Changes
    <3> QED
      BY <2>9, <3>1 DEF Filling
  <2>12. ASSUME NEW j \in 1 .. i + 1 PROVE Holds(f[i + 1], at(j), w, value[j])
    <3>1. CASE j = i + 1
      <4>1. Holds(f[i + 1], at(j), w, x)
        BY <2>9, <3>1 DEF c
      <4> QED
        BY <2>6, <3>1, <4>1 DEF Holds
    <3>2. CASE j # i + 1
      <4>1. j \in 1 .. i
        BY <3>2
      <4>2. Holds(f[i], at(j), w, value[j])
        BY <2>1, <4>1
      <4>3. at(j) + w <= c /\ at(j) \in Nat
        <5>1. (j - 1) * w \in Nat /\ (j - 1) * w + w = j * w /\ j * w <= i * w
          BY <1>2, <4>1
        <5> QED
          BY <1>2, <2>3, <5>1
      <4> HIDE DEF at
      <4>4. (at(j) .. at(j) + w - 1) \cap (c .. c + w - 1) = {}
        BY <1>2, <2>3, <4>3
      <4> QED
        BY <2>9, <4>2, <4>4, HoldsKept
    <3> QED
      BY <3>1, <3>2
  <2> QED
    BY <2>11, <2>12
<1> HIDE DEF T
<1>5. n \in T
  BY <1>3, <1>4, SetInduction
<1>6. Good(n)
  BY <1>5 DEF T
<1> QED
  BY <1>a, <1>1, <1>6 DEF Filling

\* A vector whose numbers can be read while the bytes A are filled.  One that has
\* no address is zero or undef.
IsVectorOperand(v, m, A) ==
  /\ IsValueType(v.ty) /\ v.ty.kind = "vector" /\ IsValue(v.ty, v.value) /\ v.local \in Nat
  /\ IF v.local = 0 THEN \A i \in 1 .. Len(v.ty.widths) : v.value[i] \in {Undef, Zero}
     ELSE Held(m, v.local, v.ty, v.value) /\ Extent(v.local, v.ty) \cap A = {}

LEMMA ElementLoaded ==
  ASSUME NEW v, NEW m, NEW A, IsVectorOperand(v, m, A), NEW mi, NEW top, Filling(m, mi, A, top),
         NEW i \in 1 .. Len(v.ty.widths)
  PROVE  /\ Load(mi, ElementAt(v, i), Element(v.ty)) # Undef
         /\ v.value[i] \in {Undef, Load(mi, ElementAt(v, i), Element(v.ty))}
         /\ v.value[i] # Junk
<1> DEFINE w == Element(v.ty)
           c == v.local + (i - 1) * w
<1>1. /\ IsValueType(v.ty) /\ v.ty.kind = "vector" /\ IsValue(v.ty, v.value) /\ v.local \in Nat
      /\ IsMemory(mi, top) /\ Changes(m, mi, A)
  BY DEF IsVectorOperand, Filling
<1>2. v.value[i] # Junk
  BY <1>1, SequenceFacts DEF IsValue
<1>3. CASE v.local = 0
  <2>1. Load(mi, ElementAt(v, i), w) = Zero
    BY <1>3 DEF Load, ElementAt
  <2>2. v.value[i] \in {Undef, Zero}
    BY <1>3 DEF IsVectorOperand
  <2> QED
    BY <1>2, <2>1, <2>2, Tokens
<1>4. CASE v.local # 0
  <2>1. /\ w \in Widths /\ v.ty.widths[i] = w /\ LeafOffset(v.ty, i) = (i - 1) * w
    BY <1>1, VectorFacts
  <2>2. Held(mi, v.local, v.ty, v.value)
    BY <1>1, <1>4, HeldKept DEF IsVectorOperand
  <2>3. Holds(mi, c, w, v.value[i])
    BY <1>1, <2>1, <2>2, TypeFacts DEF Held
  <2>4. c \in Nat /\ c # 0
    <3>1. (i - 1) * w \in Nat
      BY <2>1 DEF Widths
    <3> QED
      BY <1>1, <1>4, <3>1
  <2>5. ElementAt(v, i) = c
    BY <1>4 DEF ElementAt
  <2> HIDE DEF c, w
  <2>6. Load(mi, c, w) = Read(mi, c, w)
    BY <2>4 DEF Load
  <2>7. v.value[i] \in {Undef, Read(mi, c, w)}
    BY <2>1, <2>3, <2>4, HoldsRead
  <2>8. Read(mi, c, w) # Undef
    BY <1>1, <2>1, <2>4, ReadIsDefined
  <2> QED
    BY <1>2, <2>5, <2>6, <2>7, <2>8 DEF w
<1> QED
  BY <1>3, <1>4

\* The result of a vector instruction.
LEMMA VectorHeld ==
  ASSUME NEW n \in Nat \ {0}, NEW w \in Widths, NEW t, t = Vector(n, w), NEW a \in Nat, NEW m,
         NEW value, value = [i \in 1 .. n |-> value[i]],
         \A i \in 1 .. n : value[i] # Junk /\ Holds(m, a + (i - 1) * w, w, value[i])
  PROVE  /\ IsValueType(t) /\ t.kind = "vector" /\ IsValue(t, value) /\ Held(m, a, t, value)
         /\ Extent(a, t) = a .. a + n * w - 1
<1>1. /\ IsValueType(t) /\ t.kind = "vector" /\ Len(t.widths) = n
      /\ \A i \in 1 .. n : t.widths[i] = w
  <2>1. t = Sequential("vector", n, w)
    BY DEF Vector
  <2> QED
    BY <2>1, SequentialIsType
<1>2. /\ \A i \in 1 .. n : LeafOffset(t, i) = (i - 1) * w
      /\ getTypeAllocSize(t) = n * w
  <2>1. w \in Nat
    BY DEF Widths
  <2>2. ASSUME NEW x \in Nat, x = w
        PROVE  /\ \A i \in 1 .. Len(t.widths) : LeafOffset(t, i) = (i - 1) * x
               /\ getTypeAllocSize(t) = Len(t.widths) * x
    <3>1. \A i \in 1 .. Len(t.widths) : t.widths[i] = x
      BY <1>1, <2>2
    <3> QED
      BY <1>1, <3>1, EqualLayout
  <2> QED
    BY <1>1, <2>1, <2>2
<1>3. IsSequence(value) /\ Len(value) = n /\ DOMAIN value = 1 .. n
  BY FunctionIsSequence
<1>4. IsValue(t, value)
  BY <1>1, <1>3 DEF IsValue
<1>5. Held(m, a, t, value)
  <2>1. DOMAIN t.widths = 1 .. n
    BY <1>1, TypeFacts
  <2> QED
    BY <1>1, <1>2, <2>1 DEF Held
<1> QED
  BY <1>1, <1>2, <1>4, <1>5 DEF Extent

-----------------------------------------------------------------------------
(* Alignment. *)

LEMMA AlignUpFacts ==
  ASSUME NEW a \in Nat, NEW w \in Widths
  PROVE  /\ AlignUp(a, w) \in Nat /\ a <= AlignUp(a, w) /\ AlignUp(a, w) < a + w
         /\ AlignUp(a, w) % w = 0
         /\ a % w = 0 => AlignUp(a, w) = a
<1>1. CASE w = 1
  BY <1>1 DEF AlignUp
<1>2. CASE w = 2
  BY <1>2 DEF AlignUp
<1>3. CASE w = 4
  BY <1>3 DEF AlignUp
<1>4. CASE w = 8
  BY <1>4 DEF AlignUp
<1> QED
  BY <1>1, <1>2, <1>3, <1>4 DEF Widths

-----------------------------------------------------------------------------
(* Registers and objects. *)

\* os2 has the objects of os, at the same places.
Extends(os2, os) ==
  \A o \in DOMAIN os : o \in DOMAIN os2 /\ os2[o].ty = os[o].ty /\ os2[o].at = os[o].at

LEMMA PointerKept ==
  ASSUME NEW p, NEW os, NEW os2, IsPointer(p, os), Extends(os2, os)
  PROVE  IsPointer(p, os2)
BY DEF IsPointer, Extends

LEMMA CompositeKept ==
  ASSUME NEW v, NEW m, NEW m2, NEW R, NEW R2, NEW A, IsComposite(v, m, R), Changes(m, m2, A),
         R \subseteq R2, Extent(v.local, v.ty) \cap A = {}
  PROVE  IsComposite(v, m2, R2)
<1>1. /\ IsValueType(v.ty) /\ v.ty.kind # "scalar" /\ IsValue(v.ty, v.value)
      /\ v.local \in Nat /\ \E b \in R : Extent(v.local, v.ty) \subseteq b
      /\ Held(m, v.local, v.ty, v.value)
  BY DEF IsComposite
<1>2. Held(m2, v.local, v.ty, v.value)
  BY <1>1, HeldKept
<1> QED
  BY <1>1, <1>2 DEF IsComposite

LEMMA RegistersKept ==
  ASSUME NEW rs, NEW m, NEW m2, NEW R, NEW R2, NEW A, NEW os, NEW os2,
         AreRegisters(rs, m, R, os), Changes(m, m2, A), R \subseteq R2, Extends(os2, os),
         \A r \in DOMAIN rs : IsComposite(rs[r], m, R) => Extent(rs[r].local, rs[r].ty) \cap A = {}
  PROVE  AreRegisters(rs, m2, R2, os2)
<1> SUFFICES ASSUME NEW r \in DOMAIN rs PROVE IsRegister(rs[r], m2, R2, os2)
  BY DEF AreRegisters
<1>1. IsRegister(rs[r], m, R, os)
  BY DEF AreRegisters
<1>2. CASE IsPointer(rs[r], os)
  BY <1>2, PointerKept DEF IsRegister
<1>3. CASE IsScalar(rs[r])
  BY <1>3 DEF IsRegister
<1>4. CASE IsComposite(rs[r], m, R)
  BY <1>4, CompositeKept DEF IsRegister
<1> QED
  BY <1>1, <1>2, <1>3, <1>4 DEF IsRegister

LEMMA ObjectsKept ==
  ASSUME NEW os, NEW m, NEW m2, NEW R, NEW R2, NEW A, AreObjects(os, m, R), Changes(m, m2, A),
         R \subseteq R2, \A b \in R : b \cap A = {}
  PROVE  AreObjects(os, m2, R2)
<1> SUFFICES ASSUME NEW o \in DOMAIN os PROVE IsObject(os[o], m2, R2)
  BY DEF AreObjects
<1>1. /\ IsValueType(os[o].ty) /\ os[o].at \in Nat /\ IsValue(os[o].ty, os[o].value)
      /\ Extent(os[o].at, os[o].ty) \in R
      /\ Held(m, os[o].at, os[o].ty, os[o].value)
  BY DEF AreObjects, IsObject
<1>2. Held(m2, os[o].at, os[o].ty, os[o].value)
  BY <1>1, HeldKept
<1> QED
  BY <1>1, <1>2 DEF IsObject

LEMMA RegisterAppended ==
  ASSUME NEW rs, NEW m, NEW R, NEW os, AreRegisters(rs, m, R, os), NEW v, IsRegister(v, m, R, os)
  PROVE  AreRegisters(Append(rs, v), m, R, os)
<1>1. IsSequence(rs) /\ \A r \in 1 .. Len(rs) : IsRegister(rs[r], m, R, os)
  BY SequenceFacts DEF AreRegisters
<1>2. Len(rs) \in Nat
  BY <1>1, SequenceFacts
<1>3. /\ IsSequence(Append(rs, v)) /\ DOMAIN Append(rs, v) = 1 .. Len(rs) + 1
      /\ \A i \in 1 .. Len(rs) : Append(rs, v)[i] = rs[i]
      /\ Append(rs, v)[Len(rs) + 1] = v
  BY <1>1, AppendFacts
<1>4. ASSUME NEW r \in 1 .. Len(rs) + 1 PROVE IsRegister(Append(rs, v)[r], m, R, os)
  <2>1. CASE r = Len(rs) + 1
    BY <1>3, <2>1
  <2>2. CASE r # Len(rs) + 1
    <3>1. r \in 1 .. Len(rs)
      BY <1>2, <2>2
    <3> QED
      BY <1>1, <1>3, <3>1
  <2> QED
    BY <2>1, <2>2
<1> QED
  BY <1>3, <1>4 DEF AreRegisters

\* What a pointer points to is a run of the numbers of its object.
LEMMA PointedTo ==
  ASSUME NEW p, NEW os, NEW m, NEW R, IsPointer(p, os), AreObjects(os, m, R)
  PROVE  LET t == p.ty.to  o == os[p.value.object]  first == p.value.first
             contents == SubSeq(o.value, first, first + Len(t.widths) - 1)
         IN /\ IsValueType(t) /\ p.local \in Nat /\ p.local = o.at + LeafOffset(o.ty, first)
            /\ IsPart(t, o.ty, first - 1) /\ first - 1 \in Nat
            /\ Extent(p.local, t) \subseteq Extent(o.at, o.ty) /\ Extent(o.at, o.ty) \in R
            /\ IsValue(t, contents) /\ Held(m, p.local, t, contents)
<1> DEFINE t == p.ty.to
           o == os[p.value.object]
           first == p.value.first
           k == first - 1
<1>1. /\ IsValueType(t) /\ p.value.object \in DOMAIN os /\ first \in Nat \ {0}
      /\ first + Len(t.widths) - 1 <= Len(o.ty.widths)
      /\ \A i \in DOMAIN t.widths : o.ty.widths[first + i - 1] = t.widths[i]
      /\ p.local = o.at + LeafOffset(o.ty, first)
  BY DEF IsPointer
<1>2. /\ IsValueType(o.ty) /\ o.at \in Nat /\ IsValue(o.ty, o.value)
      /\ Extent(o.at, o.ty) \in R /\ Held(m, o.at, o.ty, o.value)
  BY <1>1 DEF AreObjects, IsObject
<1> HIDE DEF t, o, first
<1>3. Len(t.widths) \in Nat /\ DOMAIN t.widths = 1 .. Len(t.widths) /\ Len(o.ty.widths) \in Nat
  BY <1>1, <1>2, TypeFacts
<1>4. PICK j \in Nat : j = k
  BY <1>1
<1>5. j + 1 = first /\ j + Len(t.widths) = first + Len(t.widths) - 1
  BY <1>1, <1>3, <1>4
<1>6. IsPart(t, o.ty, j)
  <2>1. \A i \in 1 .. Len(t.widths) : first + i - 1 = j + i
    BY <1>1, <1>5
  <2> QED
    BY <1>1, <1>3, <1>5, <2>1 DEF IsPart
<1>7. /\ o.at + LeafOffset(o.ty, j + 1) \in Nat
      /\ Extent(o.at + LeafOffset(o.ty, j + 1), t) \subseteq Extent(o.at, o.ty)
      /\ IsValue(t, SubSeq(o.value, j + 1, j + Len(t.widths)))
      /\ Held(m, o.at + LeafOffset(o.ty, j + 1), t, SubSeq(o.value, j + 1, j + Len(t.widths)))
  BY <1>1, <1>2, <1>6, PartHeld
<1> QED
  BY <1>1, <1>2, <1>4, <1>5, <1>6, <1>7 DEF t, o, first

-----------------------------------------------------------------------------
(* What the caller passes. *)

LEMMA ArgumentFacts ==
  /\ Len(Arguments) \in Nat /\ IsSequence(Arguments) /\ DOMAIN Arguments = 1 .. Len(Arguments)
  /\ DOMAIN ArgumentTypes = 1 .. Len(Arguments) + 1 /\ Len(ArgumentTypes) = Len(Arguments) + 1
  /\ \A a \in 1 .. Len(Arguments) :
       ArgumentTypes[a] = Arguments[a] /\ Arguments[a].kind # "scalar"
  /\ ArgumentTypes[Len(Arguments) + 1] = Pointee
  /\ \A a \in 1 .. Len(Arguments) + 1 :
       /\ IsValueType(ArgumentTypes[a]) /\ ArgumentAddress[a] \in Nat \ {0}
       /\ EndOfArgument(a) = ArgumentAddress[a] + getTypeAllocSize(ArgumentTypes[a])
       /\ EndOfArgument(a) <= HeapBase
  /\ \A a, b \in 1 .. Len(Arguments) + 1 : a # b =>
       EndOfArgument(a) <= ArgumentAddress[b] \/ EndOfArgument(b) <= ArgumentAddress[a]
<1>1. /\ IsSequence(Arguments) /\ IsValueType(Pointee)
      /\ \A a \in DOMAIN Arguments : IsValueType(Arguments[a]) /\ Arguments[a].kind # "scalar"
      /\ \A a \in DOMAIN ArgumentTypes :
           /\ ArgumentAddress[a] \in Nat \ {0} /\ EndOfArgument(a) <= HeapBase
           /\ \A b \in DOMAIN ArgumentTypes \ {a} :
                EndOfArgument(a) <= ArgumentAddress[b] \/ EndOfArgument(b) <= ArgumentAddress[a]
  BY AggregatesAssumption DEF AggregatesAssumption
<1>2. Len(Arguments) \in Nat /\ DOMAIN Arguments = 1 .. Len(Arguments)
  BY <1>1, SequenceFacts
<1>3. /\ DOMAIN ArgumentTypes = 1 .. Len(Arguments) + 1 /\ Len(ArgumentTypes) = Len(Arguments) + 1
      /\ \A a \in 1 .. Len(Arguments) : ArgumentTypes[a] = Arguments[a]
      /\ ArgumentTypes[Len(Arguments) + 1] = Pointee
  BY <1>1, AppendFacts DEF ArgumentTypes
<1>4. ASSUME NEW a \in 1 .. Len(Arguments) + 1 PROVE IsValueType(ArgumentTypes[a])
  <2>1. CASE a = Len(Arguments) + 1
    BY <1>1, <1>3, <2>1
  <2>2. CASE a # Len(Arguments) + 1
    <3>1. a \in 1 .. Len(Arguments)
      BY <1>2, <2>2
    <3> QED
      BY <1>1, <1>2, <1>3, <3>1
  <2> QED
    BY <2>1, <2>2
<1> QED
  BY <1>1, <1>2, <1>3, <1>4 DEF EndOfArgument

LEMMA BaseFacts ==
  HeapBase \in Nat \ {0} /\ StackBase \in Nat \ {0} /\ HeapBase <= StackBase /\ HeapBase % 8 = 0
<1>1. HeapBase \in Nat /\ StackBase \in Nat /\ HeapBase <= StackBase /\ HeapBase % 8 = 0
  BY AggregatesAssumption DEF AggregatesAssumption
<1>2. 1 \in 1 .. Len(Arguments) + 1
  BY ArgumentFacts
<1>3. /\ EndOfArgument(1) = ArgumentAddress[1] + getTypeAllocSize(ArgumentTypes[1])
      /\ EndOfArgument(1) <= HeapBase /\ ArgumentAddress[1] \in Nat \ {0}
      /\ getTypeAllocSize(ArgumentTypes[1]) \in Nat
  BY <1>2, ArgumentFacts, Layout
<1> QED
  BY <1>1, <1>3

LEMMA PassedFacts ==
  /\ \A b \in Passed : b \subseteq 1 .. HeapBase - 1
  /\ \A b, c \in Passed : b # c => b \cap c = {}
<1>1. ASSUME NEW a \in 1 .. Len(Arguments) + 1
      PROVE  /\ Extent(ArgumentAddress[a], ArgumentTypes[a]) = ArgumentAddress[a] .. EndOfArgument(a) - 1
             /\ ArgumentAddress[a] \in Nat \ {0} /\ EndOfArgument(a) \in Nat /\ EndOfArgument(a) <= HeapBase
  <2>1. getTypeAllocSize(ArgumentTypes[a]) \in Nat
    BY ArgumentFacts, Layout
  <2> QED
    BY <2>1, ArgumentFacts DEF Extent
<1>2. ASSUME NEW b \in Passed PROVE b \subseteq 1 .. HeapBase - 1
  <2>1. PICK a \in 1 .. Len(Arguments) + 1 : b = Extent(ArgumentAddress[a], ArgumentTypes[a])
    BY ArgumentFacts DEF Passed
  <2> QED
    BY <1>1, <2>1, BaseFacts
<1>3. ASSUME NEW b \in Passed, NEW c \in Passed, b # c PROVE b \cap c = {}
  <2>1. PICK a \in 1 .. Len(Arguments) + 1 : b = Extent(ArgumentAddress[a], ArgumentTypes[a])
    BY ArgumentFacts DEF Passed
  <2>2. PICK d \in 1 .. Len(Arguments) + 1 : c = Extent(ArgumentAddress[d], ArgumentTypes[d])
    BY ArgumentFacts DEF Passed
  <2>3. a # d
    BY <1>3, <2>1, <2>2
  <2>4. EndOfArgument(a) <= ArgumentAddress[d] \/ EndOfArgument(d) <= ArgumentAddress[a]
    BY <2>3, ArgumentFacts
  <2>5. b = ArgumentAddress[a] .. EndOfArgument(a) - 1 /\ c = ArgumentAddress[d] .. EndOfArgument(d) - 1
    BY <1>1, <2>1, <2>2
  <2>6. /\ ArgumentAddress[a] \in Nat /\ EndOfArgument(a) \in Nat
        /\ ArgumentAddress[d] \in Nat /\ EndOfArgument(d) \in Nat
    BY <1>1
  <2> QED
    BY <2>4, <2>5, <2>6
<1> QED
  BY <1>2, <1>3

-----------------------------------------------------------------------------
(* The initial states. *)

LEMMA ArgumentHeld ==
  ASSUME NEW a \in 1 .. Len(Arguments) + 1
  PROVE  /\ IsValue(ArgumentTypes[a], ArgumentValue(a))
         /\ Held(ArgumentMemory, ArgumentAddress[a], ArgumentTypes[a], ArgumentValue(a))
<1> DEFINE t == ArgumentTypes[a]
<1>1. IsValueType(t) /\ Len(t.widths) \in Nat /\ DOMAIN t.widths = 1 .. Len(t.widths)
  BY ArgumentFacts, TypeFacts
<1>2. ArgumentValue(a) = [i \in 1 .. Len(t.widths) |-> Token(a, i)]
  BY <1>1 DEF ArgumentValue, Leaves
<1>3. /\ IsSequence(ArgumentValue(a)) /\ Len(ArgumentValue(a)) = Len(t.widths)
      /\ DOMAIN ArgumentValue(a) = 1 .. Len(t.widths)
  <2>1. ArgumentValue(a) = [i \in 1 .. Len(t.widths) |-> ArgumentValue(a)[i]]
    BY <1>2
  <2> QED
    BY <1>1, <2>1, FunctionIsSequence
<1>4. IsValue(t, ArgumentValue(a))
  BY <1>2, <1>3, Tokens DEF IsValue, Token
<1>5. ASSUME NEW c \in DOMAIN ArgumentTypes, NEW i \in DOMAIN ArgumentTypes[c].widths
      PROVE  /\ ArgumentBytes(c, i) = ArgumentAddress[c] + LeafOffset(ArgumentTypes[c], i) ..
                  ArgumentAddress[c] + LeafOffset(ArgumentTypes[c], i) + ArgumentTypes[c].widths[i] - 1
             /\ ArgumentBytes(c, i) \subseteq Extent(ArgumentAddress[c], ArgumentTypes[c])
             /\ c \in 1 .. Len(Arguments) + 1 /\ i \in 1 .. Len(ArgumentTypes[c].widths)
             /\ ArgumentAddress[c] \in Nat /\ LeafOffset(ArgumentTypes[c], i) \in Nat
             /\ ArgumentTypes[c].widths[i] \in Nat \ {0}
  <2>1. /\ c \in 1 .. Len(Arguments) + 1 /\ IsValueType(ArgumentTypes[c])
        /\ ArgumentAddress[c] \in Nat
    BY ArgumentFacts
  <2>2. i \in 1 .. Len(ArgumentTypes[c].widths) /\ ArgumentTypes[c].widths[i] \in Widths
    BY <2>1, TypeFacts
  <2>3. ArgumentTypes[c].widths[i] \in Nat \ {0}
    BY <2>2 DEF Widths
  <2> QED
    BY <2>1, <2>2, <2>3, ExtentFacts DEF ArgumentBytes, Leaves
<1>6. ASSUME NEW n \in ArgumentNumbers
      PROVE  n[1] \in DOMAIN ArgumentTypes /\ n[2] \in DOMAIN ArgumentTypes[n[1]].widths /\ n = <<n[1], n[2]>>
  BY DEF ArgumentNumbers, Leaves
<1>7. ASSUME NEW i \in 1 .. Len(t.widths)
      PROVE  Holds(ArgumentMemory, ArgumentAddress[a] + LeafOffset(t, i), t.widths[i], Token(a, i))
  <2> DEFINE at == ArgumentAddress[a] + LeafOffset(t, i)
             w == t.widths[i]
  <2>1. /\ a \in DOMAIN ArgumentTypes /\ i \in DOMAIN ArgumentTypes[a].widths
        /\ <<a, i>> \in ArgumentNumbers
    BY <1>1, ArgumentFacts DEF ArgumentNumbers, Leaves
  <2>2. /\ ArgumentBytes(a, i) = at .. at + w - 1 /\ ArgumentAddress[a] \in Nat
        /\ LeafOffset(t, i) \in Nat /\ w \in Nat \ {0}
        /\ ArgumentBytes(a, i) \subseteq Extent(ArgumentAddress[a], t)
    BY <1>5, <2>1
  <2>3. ASSUME NEW b \in at .. at + w - 1
        PROVE  b \in DOMAIN ArgumentMemory /\ ArgumentMemory[b] = Byte(Token(a, i), w, b - at)
    <3> DEFINE n == CHOOSE n \in ArgumentNumbers : b \in ArgumentBytes(n[1], n[2])
    <3>1. n \in ArgumentNumbers /\ b \in ArgumentBytes(n[1], n[2])
      <4>1. <<a, i>>[1] = a /\ <<a, i>>[2] = i /\ b \in ArgumentBytes(a, i)
        BY <2>2
      <4>2. \E q \in ArgumentNumbers : b \in ArgumentBytes(q[1], q[2])
        BY <2>1, <4>1
      <4> QED
        BY <4>2
    <3>2. b \in UNION {ArgumentBytes(q[1], q[2]) : q \in ArgumentNumbers}
      BY <3>1
    <3>3. /\ b \in DOMAIN ArgumentMemory
          /\ ArgumentMemory[b] = Byte(Token(n[1], n[2]), Leaves(ArgumentTypes[n[1]])[n[2]],
                                  b - ArgumentAddress[n[1]] - LeafOffset(ArgumentTypes[n[1]], n[2]))
      BY <3>2 DEF ArgumentMemory
    <3> HIDE DEF n
    <3>4. /\ n[1] \in DOMAIN ArgumentTypes /\ n[2] \in DOMAIN ArgumentTypes[n[1]].widths
          /\ n = <<n[1], n[2]>>
      BY <1>6, <3>1
    <3>5. b \in Extent(ArgumentAddress[n[1]], ArgumentTypes[n[1]]) /\ n[1] \in 1 .. Len(Arguments) + 1
      BY <1>5, <3>1, <3>4
    <3>6. b \in Extent(ArgumentAddress[a], t)
      BY <2>2
    <3>7. n[1] = a
      <4> SUFFICES ASSUME n[1] # a PROVE FALSE
        OBVIOUS
      <4>1. \/ EndOfArgument(n[1]) <= ArgumentAddress[a]
            \/ EndOfArgument(a) <= ArgumentAddress[n[1]]
        BY <3>5, ArgumentFacts
      <4>2. /\ ArgumentAddress[n[1]] \in Nat /\ getTypeAllocSize(ArgumentTypes[n[1]]) \in Nat
            /\ EndOfArgument(n[1]) = ArgumentAddress[n[1]] + getTypeAllocSize(ArgumentTypes[n[1]])
        BY <3>5, ArgumentFacts, Layout
      <4>3. /\ ArgumentAddress[a] \in Nat /\ getTypeAllocSize(t) \in Nat
            /\ EndOfArgument(a) = ArgumentAddress[a] + getTypeAllocSize(t)
        BY ArgumentFacts, Layout
      <4> QED
        BY <3>5, <3>6, <4>1, <4>2, <4>3, Common DEF Extent
    <3>8. PICK j \in 1 .. Len(t.widths) : j = n[2]
      BY <1>1, <3>4, <3>7
    <3>9. /\ b \in ArgumentAddress[a] + LeafOffset(t, j) .. ArgumentAddress[a] + LeafOffset(t, j) + t.widths[j] - 1
          /\ LeafOffset(t, j) \in Nat /\ t.widths[j] \in Nat \ {0}
      BY <1>5, <3>1, <3>4, <3>7, <3>8
    <3>10. j = i
      <4>1. /\ i < j => LeafOffset(t, i) + t.widths[i] <= LeafOffset(t, j)
            /\ j < i => LeafOffset(t, j) + t.widths[j] <= LeafOffset(t, i)
        BY <1>1, Layout
      <4>2. PICK A \in Nat, o \in Nat, p \in Nat, v \in Nat, x \in Nat :
              /\ A = ArgumentAddress[a] /\ o = LeafOffset(t, i) /\ p = LeafOffset(t, j)
              /\ v = t.widths[i] /\ x = t.widths[j]
        BY <2>2, <3>9
      <4>3. b \in A + o .. A + o + v - 1 /\ b \in A + p .. A + p + x - 1
        BY <3>9, <4>2
      <4>4. ~(o + v <= p) /\ ~(p + x <= o)
        BY <4>3
      <4>5. ~(i < j) /\ ~(j < i)
        BY <4>1, <4>2, <4>4
      <4>6. i \in Int /\ j \in Int
        OBVIOUS
      <4> HIDE DEF t, at, w
      <4> QED
        BY <4>5, <4>6
    <3>11. b - ArgumentAddress[a] - LeafOffset(t, i) = b - at
      BY <2>2
    <3> QED
      BY <3>3, <3>7, <3>8, <3>10, <3>11 DEF Leaves
  <2> QED
    BY <2>3 DEF Holds
<1>8. Held(ArgumentMemory, ArgumentAddress[a], t, ArgumentValue(a))
  BY <1>1, <1>2, <1>7 DEF Held
<1> QED
  BY <1>4, <1>8

LEMMA ArgumentBytesAreMemory ==
  IsMemory(ArgumentMemory, StackBase)
<1> SUFFICES ASSUME NEW b \in DOMAIN ArgumentMemory
             PROVE  /\ b \in Nat /\ b < StackBase /\ ArgumentMemory[b][2] \in {0, 1, 2, 4, 8}
                    /\ ArgumentMemory[b][1] # Undef
  BY DEF IsMemory
<1> DEFINE n == CHOOSE n \in ArgumentNumbers : b \in ArgumentBytes(n[1], n[2])
           t == ArgumentTypes[n[1]]
<1>1. b \in UNION {ArgumentBytes(q[1], q[2]) : q \in ArgumentNumbers}
  BY DEF ArgumentMemory
<1>2. n \in ArgumentNumbers /\ b \in ArgumentBytes(n[1], n[2])
  <2>1. \E q \in ArgumentNumbers : b \in ArgumentBytes(q[1], q[2])
    BY <1>1
  <2> QED
    BY <2>1
<1>3. ArgumentMemory[b] = Byte(Token(n[1], n[2]), t.widths[n[2]],
                               b - ArgumentAddress[n[1]] - LeafOffset(t, n[2]))
  BY <1>1 DEF ArgumentMemory, Leaves
<1> HIDE DEF n
<1>4. n[1] \in 1 .. Len(Arguments) + 1 /\ n[2] \in DOMAIN t.widths
  BY <1>2, ArgumentFacts DEF ArgumentNumbers, Leaves
<1>5. IsValueType(t) /\ ArgumentAddress[n[1]] \in Nat \ {0}
  BY <1>4, ArgumentFacts
<1>6. n[2] \in 1 .. Len(t.widths) /\ t.widths[n[2]] \in Widths
  BY <1>4, <1>5, TypeFacts
<1>7. b \in Extent(ArgumentAddress[n[1]], t)
  BY <1>2, <1>5, <1>6, ExtentFacts DEF ArgumentBytes, Leaves
<1>8. b \in Nat /\ b < StackBase
  <2>1. Extent(ArgumentAddress[n[1]], t) \in Passed
    BY <1>4, ArgumentFacts DEF Passed
  <2>2. b \in 1 .. HeapBase - 1
    BY <1>7, <2>1, PassedFacts
  <2> QED
    BY <2>2, BaseFacts
<1>9. Token(n[1], n[2]) # Undef
  BY Tokens DEF Token
<1> QED
  BY <1>3, <1>6, <1>8, <1>9, ByteFacts

\* The inductive invariant holds initially.
LEMMA InitIsInvariant ==
  ASSUME Init
  PROVE  IInv
<1> DEFINE n == Len(Arguments) + 1
<1>1. n \in Nat \ {0} /\ Len(ArgumentTypes) = n /\ DOMAIN ArgumentTypes = 1 .. n
  BY ArgumentFacts
<1>2. /\ memory = ArgumentMemory /\ stack = StackBase /\ blocks = {} /\ executed = -1
  BY DEF Init
<1>3. Regions = Passed
  BY <1>2 DEF Regions
<1>4. IsMemory(memory, stack)
  BY <1>2, ArgumentBytesAreMemory
<1>5. AreRegions(Regions, stack)
  <2>1. 1 .. HeapBase - 1 \subseteq 1 .. StackBase - 1
    BY BaseFacts
  <2> QED
    BY <1>2, <1>3, <2>1, PassedFacts DEF AreRegions
<1>6. \A a \in 1 .. n : /\ IsValueType(ArgumentTypes[a]) /\ ArgumentAddress[a] \in Nat
                       /\ Extent(ArgumentAddress[a], ArgumentTypes[a]) \in Regions
                       /\ IsValue(ArgumentTypes[a], ArgumentValue(a))
                       /\ Held(memory, ArgumentAddress[a], ArgumentTypes[a], ArgumentValue(a))
  BY <1>1, <1>2, <1>3, ArgumentFacts, ArgumentHeld DEF Passed
<1>7. /\ ArgumentTypes[n] = Pointee /\ n \in 1 .. n
      /\ objects = <<[ty |-> Pointee, at |-> ArgumentAddress[n], value |-> ArgumentValue(n)]>>
  BY <1>1, ArgumentFacts DEF Init
<1> HIDE DEF n
<1>8. /\ objects[1].ty = Pointee /\ objects[1].at = ArgumentAddress[n]
      /\ objects[1].value = ArgumentValue(n) /\ DOMAIN objects = 1 .. 1
      /\ objects = [i \in 1 .. 1 |-> objects[i]]
  BY <1>7
<1>9. AreObjects(objects, memory, Regions)
  <2>1. IsObject(objects[1], memory, Regions)
    BY <1>6, <1>7, <1>8 DEF IsObject
  <2>2. IsSequence(objects)
    BY <1>8, FunctionIsSequence
  <2>3. \A o \in 1 .. 1 : o = 1
    OBVIOUS
  <2> QED
    BY <1>8, <2>1, <2>2, <2>3 DEF AreObjects
<1>10. ASSUME NEW a \in 1 .. n PROVE IsRegister(reg[a], memory, Regions, objects)
  <2>1. reg[a] = IF a \in DOMAIN Arguments
                 THEN [ty |-> Arguments[a], local |-> ArgumentAddress[a], value |-> ArgumentValue(a)]
                 ELSE [ty |-> PointerTo(Pointee), local |-> ArgumentAddress[a],
                       value |-> [object |-> 1, first |-> 1]]
    BY <1>1 DEF Init
  <2>2. CASE a \in DOMAIN Arguments
    <3>1. ArgumentTypes[a] = Arguments[a] /\ Arguments[a].kind # "scalar"
      BY <2>2, ArgumentFacts
    <3>2. reg[a].ty = ArgumentTypes[a] /\ reg[a].local = ArgumentAddress[a] /\ reg[a].value = ArgumentValue(a)
      BY <2>1, <2>2, <3>1
    <3> QED
      BY <1>6, <3>1, <3>2 DEF IsRegister, IsComposite
  <2>3. CASE a \notin DOMAIN Arguments
    <3>1. a = n
      BY <1>1, <2>3, ArgumentFacts DEF n
    <3>2. /\ reg[a].ty = PointerTo(Pointee) /\ reg[a].local = ArgumentAddress[n]
          /\ reg[a].value.object = 1 /\ reg[a].value.first = 1
      BY <2>1, <2>3, <3>1
    <3>3. reg[a].ty.kind = "pointer" /\ reg[a].ty.to = Pointee /\ reg[a].ty = PointerTo(reg[a].ty.to)
      BY <3>2 DEF PointerTo
    <3>4. IsValueType(Pointee)
      BY <1>6, <1>7
    <3>5. /\ 1 + Len(Pointee.widths) - 1 <= Len(Pointee.widths)
          /\ \A i \in DOMAIN Pointee.widths : Pointee.widths[1 + i - 1] = Pointee.widths[i]
          /\ LeafOffset(Pointee, 1) = 0
      BY <3>4, TypeFacts, Layout
    <3>6. ArgumentAddress[n] = ArgumentAddress[n] + 0
      BY <1>6, <1>7
    <3>7. 1 \in DOMAIN objects /\ 1 \in Nat \ {0}
      BY <1>8
    <3> QED
      BY <1>8, <3>2, <3>3, <3>4, <3>5, <3>6, <3>7 DEF IsRegister, IsPointer
  <2> QED
    BY <2>2, <2>3
<1>11. AreRegisters(reg, memory, Regions, objects)
  <2>1. DOMAIN reg = 1 .. n /\ reg = [a \in 1 .. n |-> reg[a]]
    BY <1>1 DEF Init
  <2>2. IsSequence(reg)
    BY <1>1, <2>1, FunctionIsSequence
  <2> QED
    BY <1>10, <2>1, <2>2 DEF AreRegisters
<1>12. executed \in -1 .. MaxInstructions
  <2>1. MaxInstructions \in Nat
    BY AggregatesAssumption DEF AggregatesAssumption
  <2> QED
    BY <1>2, <2>1
<1> QED
  BY <1>2, <1>4, <1>5, <1>9, <1>11, <1>12, BaseFacts DEF IInv

-----------------------------------------------------------------------------
(* The instructions: what they share. *)

\* Bytes outside of all regions may change.
LEMMA FreshKept ==
  ASSUME IInv, NEW m2, NEW A, NEW fresh, Changes(memory, m2, A), \A b \in Regions : b \cap A = {}
  PROVE  /\ AreObjects(objects, m2, Regions \cup fresh)
         /\ AreRegisters(reg, m2, Regions \cup fresh, objects)
<1>1. AreObjects(objects, memory, Regions) /\ AreRegisters(reg, memory, Regions, objects)
  BY DEF IInv
<1>2. Regions \subseteq Regions \cup fresh /\ Extends(objects, objects)
  BY DEF Extends
<1>3. ASSUME NEW r \in DOMAIN reg, IsComposite(reg[r], memory, Regions)
      PROVE  Extent(reg[r].local, reg[r].ty) \cap A = {}
  <2>1. PICK b \in Regions : Extent(reg[r].local, reg[r].ty) \subseteq b
    BY <1>3 DEF IsComposite
  <2> QED
    BY <2>1
<1>4. AreObjects(objects, m2, Regions \cup fresh)
  BY <1>1, <1>2, ObjectsKept
<1>5. AreRegisters(reg, m2, Regions \cup fresh, objects)
  BY <1>1, <1>2, <1>3, RegistersKept
<1> QED
  BY <1>4, <1>5

\* A block of n bytes from at on is not used yet.
LEMMA FreshBlock ==
  ASSUME NEW R, NEW top \in Nat \ {0}, AreRegions(R, top), NEW at \in Nat, top <= at, NEW n \in Nat
  PROVE  /\ AreRegions(R \cup {at .. at + n - 1}, at + n)
         /\ \A b \in R : b \cap (at .. at + n - 1) = {}
<1> DEFINE A == at .. at + n - 1
<1>1. \A b \in R : b \subseteq 1 .. top - 1
  BY DEF AreRegions
<1>2. ASSUME NEW b \in R PROVE b \cap A = {}
  <2>1. b \subseteq 1 .. top - 1
    BY <1>1
  <2>2. (1 .. top - 1) \cap A = {}
    OBVIOUS
  <2> QED
    BY <2>1, <2>2
<1>3. ASSUME NEW b \in R \cup {A} PROVE b \subseteq 1 .. at + n - 1
  <2>1. A \subseteq 1 .. at + n - 1
    OBVIOUS
  <2>2. 1 .. top - 1 \subseteq 1 .. at + n - 1
    OBVIOUS
  <2> QED
    BY <1>1, <2>1, <2>2
<1>4. \A b, c \in R \cup {A} : b # c => b \cap c = {}
  <2>1. \A b, c \in R : b # c => b \cap c = {}
    BY DEF AreRegions
  <2> HIDE DEF A
  <2> QED
    BY <1>2, <2>1
<1> QED
  BY <1>2, <1>3, <1>4 DEF AreRegions

LEMMA StateFacts ==
  ASSUME IInv
  PROVE  /\ stack \in Nat \ {0} /\ block \in Nat \ {0} /\ stack <= block /\ block % 8 = 0
         /\ IsMemory(memory, stack) /\ AreRegions(Regions, stack)
         /\ AreObjects(objects, memory, Regions) /\ AreRegisters(reg, memory, Regions, objects)
         /\ DOMAIN reg = 1 .. Len(reg) /\ Len(reg) \in Nat /\ IsSequence(reg)
         /\ DOMAIN objects = 1 .. Len(objects) /\ Len(objects) \in Nat /\ IsSequence(objects)
         /\ \A r \in DOMAIN reg : IsRegister(reg[r], memory, Regions, objects)
<1>1. /\ stack \in Nat \ {0} /\ IsMemory(memory, stack) /\ AreRegions(Regions, stack)
      /\ AreObjects(objects, memory, Regions) /\ AreRegisters(reg, memory, Regions, objects)
  BY BaseFacts DEF IInv
<1>2. block \in Nat /\ stack <= block /\ block % 8 = 0
  <2>1. 8 \in Widths
    BY DEF Widths
  <2> QED
    BY <1>1, <2>1, AlignUpFacts DEF block
<1>3. IsSequence(reg) /\ IsSequence(objects)
  BY <1>1 DEF AreRegisters, AreObjects
<1>4. /\ DOMAIN reg = 1 .. Len(reg) /\ Len(reg) \in Nat
      /\ DOMAIN objects = 1 .. Len(objects) /\ Len(objects) \in Nat
  BY <1>3, SequenceFacts
<1>5. \A r \in DOMAIN reg : IsRegister(reg[r], memory, Regions, objects)
  BY <1>1 DEF AreRegisters
<1> QED
  BY <1>1, <1>2, <1>3, <1>4, <1>5

\* Memory and objects are as before: a new register has a value from there.
LEMMA ReadingStep ==
  ASSUME IInv, Execute, UnchangedMemory, NEW v, reg' = Append(reg, v),
         IsRegister(v, memory, Regions, objects)
  PROVE  IInv' /\ WriteStays
<1>1. /\ memory' = memory /\ stack' = stack /\ blocks' = blocks /\ objects' = objects
      /\ Regions' = Regions
  BY DEF UnchangedMemory, Regions
<1>2. executed' \in -1 .. MaxInstructions /\ executed' # -1
  <2>1. MaxInstructions \in Nat
    BY AggregatesAssumption DEF AggregatesAssumption
  <2>2. executed \in -1 .. MaxInstructions
    BY DEF IInv
  <2> QED
    BY <2>1, <2>2 DEF Execute
<1>3. AreRegisters(reg', memory, Regions, objects)
  BY StateFacts, RegisterAppended
<1>4. WriteStays
  BY <1>1 DEF WriteStays
<1> QED
  BY <1>1, <1>2, <1>3, <1>4 DEF IInv

\* A block is allocated and filled; then the registers may have values from there.
LEMMA AllocatingStep ==
  ASSUME IInv, Execute, NEW fresh, blocks' = blocks \cup fresh, AreRegions(Regions \cup fresh, stack'),
         stack' \in Nat, stack <= stack', IsMemory(memory', stack'),
         NEW A, Changes(memory, memory', A), A \subseteq UNION fresh, \A b \in Regions : b \cap A = {},
         objects' = objects,
         AreRegisters(reg, memory', Regions \cup fresh, objects)
           => AreRegisters(reg', memory', Regions \cup fresh, objects)
  PROVE  IInv' /\ WriteStays
<1>1. Regions' = Regions \cup fresh
  BY DEF Regions
<1>2. executed' \in -1 .. MaxInstructions /\ executed' # -1
  <2>1. MaxInstructions \in Nat
    BY AggregatesAssumption DEF AggregatesAssumption
  <2>2. executed \in -1 .. MaxInstructions
    BY DEF IInv
  <2> QED
    BY <2>1, <2>2 DEF Execute
<1>3. /\ AreObjects(objects, memory', Regions \cup fresh)
      /\ AreRegisters(reg, memory', Regions \cup fresh, objects)
  BY FreshKept
<1>4. stack' >= StackBase
  BY BaseFacts DEF IInv
<1>5. WriteStays
  <2>1. ASSUME NEW a, a \in A PROVE \E b \in blocks' \ blocks : a \in b
    <3>1. PICK b \in fresh : a \in b
      BY <2>1
    <3>2. b \notin blocks
      BY <2>1, <3>1 DEF Regions
    <3> QED
      BY <3>1, <3>2
  <2>2. \A a \in DOMAIN memory' : a \notin DOMAIN memory \/ memory'[a] # memory[a] => a \in A
    BY DEF Changes
  <2> QED
    BY <2>1, <2>2 DEF WriteStays
<1> QED
  BY <1>1, <1>2, <1>3, <1>4, <1>5 DEF IInv

\* The usual case: one block of n bytes, one new register, whose value is there.
LEMMA BlockStep ==
  ASSUME IInv, Execute, NEW n \in Nat, allocateStack(n), UNCHANGED objects,
         Changes(memory, memory', block .. block + n - 1), IsMemory(memory', block + n),
         NEW t, NEW value, NewRegister(t, block, value),
         IsValueType(t), t.kind # "scalar", IsValue(t, value), getTypeAllocSize(t) = n,
         Held(memory', block, t, value)
  PROVE  IInv' /\ WriteStays
<1> DEFINE A == block .. block + n - 1
           v == Operand(t, block, value)
<1>1. stack' = block + n /\ blocks' = blocks \cup {A} /\ objects' = objects
  BY DEF allocateStack
<1>2. /\ AreRegions(Regions \cup {A}, block + n) /\ \A b \in Regions : b \cap A = {}
      /\ stack \in Nat /\ block \in Nat /\ stack <= block
  BY StateFacts, FreshBlock
<1>3. v.ty = t /\ v.local = block /\ v.value = value
  BY DEF Operand
<1>4. reg' = Append(reg, v)
  BY DEF NewRegister
<1>5. Extent(block, t) = A
  BY DEF Extent
<1> HIDE DEF v, A
<1>6. IsRegister(v, memory', Regions \cup {A}, objects)
  <2>1. A \in Regions \cup {A} /\ A \subseteq A
    OBVIOUS
  <2> QED
    BY <1>2, <1>3, <1>5, <2>1 DEF IsRegister, IsComposite
<1>7. AreRegisters(reg, memory', Regions \cup {A}, objects)
        => AreRegisters(reg', memory', Regions \cup {A}, objects)
  BY <1>4, <1>6, RegisterAppended
<1>8. /\ stack' \in Nat /\ stack <= stack' /\ IsMemory(memory', stack')
      /\ AreRegions(Regions \cup {A}, stack') /\ Changes(memory, memory', A)
  BY <1>1, <1>2 DEF A
<1>9. A \subseteq UNION {A}
  OBVIOUS
<1> QED
  BY <1>1, <1>2, <1>7, <1>8, <1>9, AllocatingStep

LEMMA PointerRegister ==
  ASSUME IInv, NEW r \in DOMAIN reg, reg[r].ty.kind = "pointer"
  PROVE  IsPointer(reg[r], objects)
<1>1. IsRegister(reg[r], memory, Regions, objects)
  BY StateFacts
<1>2. ~IsValueType(reg[r].ty)
  BY DEF IsValueType
<1> QED
  BY <1>1, <1>2 DEF IsRegister, IsScalar, IsComposite

LEMMA ValueRegister ==
  ASSUME IInv, NEW r \in DOMAIN reg, reg[r].ty.kind # "pointer"
  PROVE  /\ IsValueType(reg[r].ty)
         /\ IF reg[r].ty.kind = "scalar" THEN IsScalar(reg[r])
            ELSE IsComposite(reg[r], memory, Regions)
<1>1. IsRegister(reg[r], memory, Regions, objects)
  BY StateFacts
<1>2. ~IsPointer(reg[r], objects)
  BY DEF IsPointer
<1> QED
  BY <1>1, <1>2 DEF IsRegister, IsScalar, IsComposite

LEMMA OperandFacts ==
  ASSUME IInv, NEW t, IsValueType(t), NEW v \in Operands(t)
  PROVE  /\ v.ty = t
         /\ t.kind = "scalar" => IsScalar(v)
         /\ t.kind # "scalar" => IsComposite(v, memory, Regions)
<1>1. CASE v \in {reg[r] : r \in Of(t)}
  <2>1. PICK r \in DOMAIN reg : v = reg[r] /\ reg[r].ty = t
    BY <1>1 DEF Of
  <2>2. t.kind # "pointer"
    BY DEF IsValueType
  <2> QED
    BY <2>1, <2>2, ValueRegister
<1>2. CASE t.kind = "scalar" /\ v = Operand(t, Number, <<Number>>)
  <2>1. v.ty = t /\ v.local = Number /\ v.value = <<Number>>
    BY <1>2 DEF Operand
  <2>2. Number \notin {Undef, Junk}
    BY AggregatesAssumption DEF AggregatesAssumption
  <2>3. Len(t.widths) = 1
    BY <1>2, ScalarHeld
  <2>4. <<Number>> = [i \in 1 .. 1 |-> <<Number>>[i]] /\ <<Number>>[1] = Number
    OBVIOUS
  <2>5. IsSequence(<<Number>>) /\ Len(<<Number>>) = 1 /\ DOMAIN <<Number>> = 1 .. 1
    BY <2>4, FunctionIsSequence
  <2>6. IsValue(t, <<Number>>)
    BY <2>2, <2>3, <2>4, <2>5 DEF IsValue
  <2> QED
    BY <1>2, <2>1, <2>2, <2>4, <2>6 DEF IsScalar
<1> QED
  BY <1>1, <1>2 DEF Operands

LEMMA PointerFacts ==
  ASSUME IInv, NEW p \in {reg[r] : r \in Pointers}
  PROVE  IsPointer(p, objects)
<1>1. PICK r \in DOMAIN reg : p = reg[r] /\ reg[r].ty.kind = "pointer"
  BY DEF Pointers
<1> QED
  BY <1>1, PointerRegister

LEMMA KindFacts ==
  ASSUME IInv, NEW ks, ks \subseteq {"vector", "struct", "array"}, NEW r \in Kind(ks)
  PROVE  /\ r \in DOMAIN reg /\ reg[r].ty.kind \in ks
         /\ IsValueType(reg[r].ty) /\ reg[r].ty.kind # "scalar" /\ IsComposite(reg[r], memory, Regions)
<1>1. r \in DOMAIN reg /\ reg[r].ty.kind \in ks
  BY DEF Kind
<1>2. reg[r].ty.kind # "pointer" /\ reg[r].ty.kind # "scalar"
  BY <1>1
<1> QED
  BY <1>1, <1>2, ValueRegister

\* An address inside of a region, where a value lies: a register may have it.
\* A scalar is read from there.
LEMMA ReadRegister ==
  ASSUME IInv, NEW t, IsValueType(t), NEW a \in Nat, NEW value, IsValue(t, value),
         Held(memory, a, t, value), \E b \in Regions : Extent(a, t) \subseteq b,
         NEW v, v.ty = t, v.value = value,
         v.local = IF t.kind = "scalar" THEN Read(memory, a, Leaves(t)[1]) ELSE a
  PROVE  IsRegister(v, memory, Regions, objects)
<1>1. CASE t.kind = "scalar"
  <2>1. Holds(memory, a, t.widths[1], value[1]) /\ t.widths[1] \in Widths
    BY <1>1, ScalarHeld
  <2>2. value[1] \in {Undef, Read(memory, a, t.widths[1])}
    BY <2>1, HoldsRead
  <2>3. Read(memory, a, t.widths[1]) # Undef
    BY <2>1, StateFacts, ReadIsDefined
  <2> QED
    BY <1>1, <2>2, <2>3 DEF IsRegister, IsScalar, Leaves
<1>2. CASE t.kind # "scalar"
  BY <1>2 DEF IsRegister, IsComposite
<1> QED
  BY <1>1, <1>2

-----------------------------------------------------------------------------
(* The instructions that read. *)

LEMMA LoadKeeps ==
  ASSUME IInv, printLoadInstruction
  PROVE  IInv' /\ WriteStays
<1>1. PICK p \in {reg[r] : r \in Pointers} :
        /\ Execute /\ UnchangedMemory
        /\ NewRegister(p.ty.to, IF p.ty.to.kind = "scalar" THEN Read(memory, p.local, Leaves(p.ty.to)[1])
                                ELSE p.local, Contents(p))
  BY DEF printLoadInstruction
<1> DEFINE t == p.ty.to
           local == IF t.kind = "scalar" THEN Read(memory, p.local, Leaves(t)[1]) ELSE p.local
           v == Operand(t, local, Contents(p))
<1>2. IsPointer(p, objects)
  BY PointerFacts
<1>3. AreObjects(objects, memory, Regions)
  BY StateFacts
<1>4. Contents(p) = SubSeq(objects[p.value.object].value, p.value.first,
                            p.value.first + Len(t.widths) - 1)
  BY DEF Contents, Leaves
<1>5. /\ IsValueType(t) /\ p.local \in Nat
      /\ Extent(p.local, t) \subseteq Extent(objects[p.value.object].at, objects[p.value.object].ty)
      /\ Extent(objects[p.value.object].at, objects[p.value.object].ty) \in Regions
      /\ IsValue(t, Contents(p)) /\ Held(memory, p.local, t, Contents(p))
  BY <1>2, <1>3, <1>4, PointedTo
<1>6. v.ty = t /\ v.local = local /\ v.value = Contents(p)
  BY DEF Operand
<1>7. reg' = Append(reg, v)
  BY <1>1 DEF NewRegister
<1> HIDE DEF v, t
<1>8. IsRegister(v, memory, Regions, objects)
  BY <1>5, <1>6, ReadRegister
<1> QED
  BY <1>1, <1>7, <1>8, ReadingStep

LEMMA ExtractValueKeeps ==
  ASSUME IInv, printExtractValue
  PROVE  IInv' /\ WriteStays
<1>0. PICK r \in Kind({"struct", "array"}) : \E f \in DOMAIN reg[r].ty.counts :
        /\ Execute /\ UnchangedMemory
        /\ NewRegister(FieldType(reg[r].ty, f),
                       LoadField(reg[r].local + Offset(reg[r].ty, f), FieldType(reg[r].ty, f)),
                       OfField(reg[r].ty, f, reg[r].value))
  BY DEF printExtractValue
<1>1. PICK f \in DOMAIN reg[r].ty.counts :
        /\ Execute /\ UnchangedMemory
        /\ NewRegister(FieldType(reg[r].ty, f),
                       LoadField(reg[r].local + Offset(reg[r].ty, f), FieldType(reg[r].ty, f)),
                       OfField(reg[r].ty, f, reg[r].value))
  BY <1>0
<1> DEFINE t == reg[r].ty
           u == FieldType(t, f)
           k == LeavesBefore(t, f)
           a == reg[r].local + LeafOffset(t, k + 1)
           value == SubSeq(reg[r].value, k + 1, k + Len(u.widths))
           v == Operand(u, IF u.kind = "scalar" THEN Read(memory, a, Leaves(u)[1]) ELSE a, value)
<1>2. IsValueType(t) /\ IsComposite(reg[r], memory, Regions)
  BY KindFacts
<1>3. /\ IsValue(t, reg[r].value) /\ reg[r].local \in Nat
      /\ Held(memory, reg[r].local, t, reg[r].value)
  BY <1>2 DEF IsComposite
<1>4. f \in 1 .. Len(t.counts)
  BY <1>2, TypeFacts
<1>5. /\ k \in Nat /\ IsValueType(u) /\ Len(u.widths) = t.counts[f] /\ IsPart(u, t, k)
  BY <1>2, <1>4, FieldFacts, FieldTypeFacts
<1>6. PICK b \in Regions : Extent(reg[r].local, t) \subseteq b
  BY <1>2 DEF IsComposite
<1>7. Offset(t, f) = LeafOffset(t, k + 1) /\ OfField(t, f, reg[r].value) = value
  BY <1>5 DEF Offset, OfField
<1>8. reg' = Append(reg, v)
  BY <1>1, <1>7 DEF NewRegister, LoadField
<1> HIDE DEF t, u, k
<1>9. a \in Nat /\ Extent(a, u) \subseteq Extent(reg[r].local, t) /\ IsValue(u, value) /\ Held(memory, a, u, value)
  BY <1>2, <1>3, <1>5, PartHeld
<1>10. /\ v.ty = u /\ v.value = value
       /\ v.local = IF u.kind = "scalar" THEN Read(memory, a, Leaves(u)[1]) ELSE a
  BY DEF Operand
<1>11. Extent(a, u) \subseteq b
  BY <1>6, <1>9
<1> HIDE DEF v, a, value
<1>12. IsRegister(v, memory, Regions, objects)
  BY <1>5, <1>9, <1>10, <1>11, ReadRegister
<1> QED
  BY <1>1, <1>8, <1>12, ReadingStep

LEMMA ExtractElementKeeps ==
  ASSUME IInv, printExtractElement
  PROVE  IInv' /\ WriteStays
<1>0. PICK v \in Vectors : \E f \in DOMAIN v.value :
        /\ Execute /\ UnchangedMemory
        /\ NewRegister(Scalar(Element(v.ty)), Load(memory, ElementAt(v, f), Element(v.ty)), <<v.value[f]>>)
  BY DEF printExtractElement
<1>1. PICK f \in DOMAIN v.value :
        /\ Execute /\ UnchangedMemory
        /\ NewRegister(Scalar(Element(v.ty)), Load(memory, ElementAt(v, f), Element(v.ty)), <<v.value[f]>>)
  BY <1>0
<1> DEFINE w == Element(v.ty)
           t == Scalar(w)
           x == Operand(t, Load(memory, ElementAt(v, f), w), <<v.value[f]>>)
<1>2. PICK r \in Kind({"vector"}) : v = reg[r]
  BY DEF Vectors
<1>3. v.ty.kind = "vector" /\ IsValueType(v.ty) /\ IsComposite(v, memory, Regions)
  BY <1>2, KindFacts
<1>4. /\ IsValue(v.ty, v.value) /\ v.local \in Nat /\ Held(memory, v.local, v.ty, v.value)
  BY <1>3 DEF IsComposite
<1>5. f \in 1 .. Len(v.ty.widths)
  BY <1>4, SequenceFacts DEF IsValue
<1>6. IsMemory(memory, stack)
  BY StateFacts
<1>7. v.local # 0
  <2>1. v.local \in Extent(v.local, v.ty)
    BY <1>3, <1>4, ExtentFacts
  <2>2. \A b \in Regions : b \subseteq 1 .. stack - 1
    BY StateFacts DEF AreRegions
  <2>3. v.local \in 1 .. stack - 1
    BY <1>3, <2>1, <2>2 DEF IsComposite
  <2> QED
    BY <2>3
<1>8. IsVectorOperand(v, memory, {}) /\ Filling(memory, memory, {}, stack)
  BY <1>3, <1>4, <1>6, <1>7, ChangesNothing DEF IsVectorOperand, Filling
<1>9. /\ Load(memory, ElementAt(v, f), w) # Undef
      /\ v.value[f] \in {Undef, Load(memory, ElementAt(v, f), w)} /\ v.value[f] # Junk
  BY <1>5, <1>8, ElementLoaded
<1>10. w \in Widths
  BY <1>3, VectorFacts
<1>11. IsValueType(t) /\ t.kind = "scalar" /\ Len(t.widths) = 1
  BY <1>10, ScalarIsType
<1>12. x.ty = t /\ x.local = Load(memory, ElementAt(v, f), w) /\ x.value = <<v.value[f]>>
  BY DEF Operand
<1>13. reg' = Append(reg, x)
  BY <1>1 DEF NewRegister
<1>14. IsValue(t, <<v.value[f]>>) /\ <<v.value[f]>>[1] = v.value[f]
  <2>1. /\ <<v.value[f]>> = [i \in 1 .. 1 |-> <<v.value[f]>>[i]]
        /\ <<v.value[f]>>[1] = v.value[f]
    OBVIOUS
  <2>2. IsSequence(<<v.value[f]>>) /\ Len(<<v.value[f]>>) = 1 /\ DOMAIN <<v.value[f]>> = 1 .. 1
    BY <2>1, FunctionIsSequence
  <2> QED
    BY <1>9, <1>11, <2>1, <2>2 DEF IsValue
<1> HIDE DEF x, t, w
<1>15. IsRegister(x, memory, Regions, objects)
  BY <1>9, <1>11, <1>12, <1>14 DEF IsRegister, IsScalar
<1> QED
  BY <1>1, <1>13, <1>15, ReadingStep

\* A pointer to a part of what a pointer points to.
LEMMA SubPointer ==
  ASSUME NEW p, NEW os, NEW m, NEW R, IsPointer(p, os), AreObjects(os, m, R),
         NEW u, IsValueType(u), NEW k \in Nat, IsPart(u, p.ty.to, k),
         NEW q, q.ty = PointerTo(u), q.local = p.local + LeafOffset(p.ty.to, k + 1),
         q.value.object = p.value.object, q.value.first = p.value.first + k
  PROVE  IsPointer(q, os)
<1> DEFINE t == p.ty.to
           o == os[p.value.object]
           first == p.value.first
<1>1. /\ IsValueType(t) /\ p.local = o.at + LeafOffset(o.ty, first)
      /\ IsPart(t, o.ty, first - 1) /\ first - 1 \in Nat
  BY PointedTo
<1>2. IsValueType(o.ty) /\ o.at \in Nat /\ p.value.object \in DOMAIN os /\ first \in Nat \ {0}
  BY DEF IsPointer, AreObjects, IsObject
<1>3. PICK j \in Nat : j = first - 1
  BY <1>1
<1> HIDE DEF t, o, first
<1>4. /\ Len(t.widths) \in Nat /\ Len(u.widths) \in Nat \ {0} /\ Len(o.ty.widths) \in Nat
      /\ DOMAIN u.widths = 1 .. Len(u.widths)
  BY <1>1, <1>2, TypeFacts
<1>5. /\ j + Len(t.widths) <= Len(o.ty.widths)
      /\ \A i \in 1 .. Len(t.widths) : t.widths[i] = o.ty.widths[j + i]
  BY <1>1, <1>3 DEF IsPart
<1>6. /\ k + Len(u.widths) <= Len(t.widths)
      /\ \A i \in 1 .. Len(u.widths) : u.widths[i] = t.widths[k + i]
  BY DEF IsPart, t
<1>7. /\ LeafOffset(o.ty, j + 1) \in Nat
      /\ \A i \in 1 .. Len(t.widths) : LeafOffset(o.ty, j + i) = LeafOffset(o.ty, j + 1) + LeafOffset(t, i)
  <2>1. IsPart(t, o.ty, j)
    BY <1>1, <1>3
  <2> QED
    BY <1>1, <1>2, <2>1, PartLayout
<1>8. j + 1 = first /\ first + k = j + (k + 1) /\ k + 1 \in 1 .. Len(t.widths)
  BY <1>2, <1>3, <1>4, <1>6
<1>9. LeafOffset(o.ty, first + k) = LeafOffset(o.ty, first) + LeafOffset(t, k + 1)
  BY <1>7, <1>8
<1>10. q.local = o.at + LeafOffset(o.ty, first + k)
  <2>1. LeafOffset(t, k + 1) \in Nat /\ LeafOffset(o.ty, first) \in Nat
    BY <1>1, <1>7, <1>8, Layout
  <2>2. q.local = p.local + LeafOffset(t, k + 1)
    BY DEF t
  <2> QED
    BY <1>1, <1>2, <1>9, <2>1, <2>2
<1>11. /\ first + k + Len(u.widths) - 1 <= Len(o.ty.widths)
       /\ \A i \in 1 .. Len(u.widths) : k + i \in 1 .. Len(t.widths) /\ first + k + i - 1 = j + (k + i)
  <2>1. ArePartsWithin(j, first, k, Len(u.widths), Len(t.widths), Len(o.ty.widths))
    BY <1>2, <1>4, <1>5, <1>6, <1>8 DEF ArePartsWithin
  <2> QED
    BY <2>1, WithinPart
<1>12. ASSUME NEW i \in 1 .. Len(u.widths) PROVE o.ty.widths[first + k + i - 1] = u.widths[i]
  <2>1. k + i \in 1 .. Len(t.widths) /\ first + k + i - 1 = j + (k + i)
    BY <1>11
  <2> QED
    BY <1>5, <1>6, <2>1
<1>13. q.ty.kind = "pointer" /\ q.ty.to = u /\ q.ty = PointerTo(q.ty.to)
  BY DEF PointerTo
<1>14. q.value.first \in Nat \ {0} /\ q.value.first = first + k
  BY <1>2 DEF first
<1> QED
  BY <1>2, <1>4, <1>10, <1>11, <1>12, <1>13, <1>14 DEF IsPointer, o

LEMMA GepKeeps ==
  ASSUME IInv, printGepInstruction
  PROVE  IInv' /\ WriteStays
<1>0. PICK p \in {reg[r] : r \in Pointers} : \E f \in DOMAIN p.ty.to.counts :
        LET t == p.ty.to  first == p.value.first + LeavesBefore(t, f) IN
        /\ Execute
        /\ t.kind # "scalar"
        /\ \/ NewRegister(PointerTo(FieldType(t, f)), p.local + Offset(t, f),
                          [object |-> p.value.object, first |-> first])
           \/ \E i \in 1 .. t.counts[f] :
                LET w == Leaves(t)[LeavesBefore(t, f) + i] IN
                /\ t.counts[f] > 1
                /\ NewRegister(PointerTo(Scalar(w)), p.local + Offset(t, f) + (i - 1) * w,
                               [object |-> p.value.object, first |-> first + i - 1])
        /\ UnchangedMemory
  BY DEF printGepInstruction
<1> DEFINE t == p.ty.to
<1>1. PICK f \in DOMAIN t.counts :
        /\ Execute
        /\ \/ NewRegister(PointerTo(FieldType(t, f)), p.local + Offset(t, f),
                          [object |-> p.value.object, first |-> p.value.first + LeavesBefore(t, f)])
           \/ \E i \in 1 .. t.counts[f] :
                NewRegister(PointerTo(Scalar(t.widths[LeavesBefore(t, f) + i])),
                            p.local + Offset(t, f) + (i - 1) * t.widths[LeavesBefore(t, f) + i],
                            [object |-> p.value.object,
                             first |-> p.value.first + LeavesBefore(t, f) + i - 1])
        /\ UnchangedMemory
  BY <1>0 DEF Leaves
<1> DEFINE l == LeavesBefore(t, f)
           u == FieldType(t, f)
<1>2. IsPointer(p, objects) /\ AreObjects(objects, memory, Regions)
  BY PointerFacts, StateFacts
<1>3. /\ IsValueType(t) /\ p.local \in Nat /\ p.value.first \in Nat \ {0}
  BY <1>2, PointedTo DEF IsPointer
<1>4. f \in 1 .. Len(t.counts) /\ f \in DOMAIN t.counts
  BY <1>3, TypeFacts
<1>5. /\ l \in Nat /\ IsValueType(u) /\ Len(u.widths) = t.counts[f] /\ IsPart(u, t, l)
      /\ l + t.counts[f] <= Len(t.widths) /\ t.counts[f] \in Nat \ {0} /\ Len(t.widths) \in Nat
  BY <1>3, <1>4, FieldFacts, FieldTypeFacts, TypeFacts
<1>6. Offset(t, f) = LeafOffset(t, l + 1)
  BY DEF Offset
<1>7. CASE NewRegister(PointerTo(u), p.local + Offset(t, f),
                       [object |-> p.value.object, first |-> p.value.first + l])
  <2> DEFINE q == Operand(PointerTo(u), p.local + Offset(t, f),
                          [object |-> p.value.object, first |-> p.value.first + l])
  <2>1. /\ q.ty = PointerTo(u) /\ q.local = p.local + LeafOffset(t, l + 1)
        /\ q.value.object = p.value.object /\ q.value.first = p.value.first + l
    BY <1>6 DEF Operand
  <2>2. reg' = Append(reg, q)
    BY <1>7 DEF NewRegister
  <2> HIDE DEF q, u, l
  <2>3. IsPointer(q, objects)
    <3>1. PICK k \in Nat : k = l
      BY <1>5
    <3>2. IsPart(u, p.ty.to, k) /\ q.local = p.local + LeafOffset(p.ty.to, k + 1) /\ q.value.first = p.value.first + k
      BY <1>5, <2>1, <3>1
    <3> QED
      BY <1>2, <1>5, <2>1, <3>2, SubPointer
  <2> QED
    BY <1>1, <2>2, <2>3, ReadingStep DEF IsRegister
<1>8. ASSUME NEW i \in 1 .. t.counts[f],
             NewRegister(PointerTo(Scalar(t.widths[l + i])),
                         p.local + Offset(t, f) + (i - 1) * t.widths[l + i],
                         [object |-> p.value.object, first |-> p.value.first + l + i - 1])
      PROVE  IInv' /\ WriteStays
  <2> DEFINE w == t.widths[l + i]
             local == p.local + Offset(t, f) + (i - 1) * w
             first == p.value.first + l + i - 1
             s == Scalar(w)
             q == Operand(PointerTo(s), local, [object |-> p.value.object, first |-> first])
  <2>1. /\ q.ty = PointerTo(s) /\ q.local = local
        /\ q.value.object = p.value.object /\ q.value.first = first
    BY DEF Operand
  <2>2. reg' = Append(reg, q)
    BY <1>8 DEF NewRegister
  <2>3. PICK k \in Nat : /\ k + 1 = l + i /\ k + 1 \in 1 .. Len(t.widths)
                         /\ first = p.value.first + k
    <3>1. IsCounted(l, t.counts[f], i, p.value.first, Len(t.widths))
      BY <1>3, <1>5 DEF IsCounted
    <3> HIDE DEF l, t
    <3> QED
      BY <3>1, Counted
  <2>4. k + 1 \in 1 .. Len(t.widths) /\ w = t.widths[k + 1]
    BY <2>3
  <2>5. w \in Widths
    BY <1>3, <2>4, TypeFacts
  <2>6. IsValueType(s) /\ Len(s.widths) = 1 /\ s.widths[1] = w
    BY <2>5, ScalarIsType
  <2>7. IsPart(s, t, k)
    <3>1. \A j \in 1 .. 1 : s.widths[j] = t.widths[k + j]
      BY <2>4, <2>6
    <3> QED
      BY <2>4, <2>6, <3>1, <1>5 DEF IsPart
  <2>8. \A j \in 1 .. t.counts[f] : t.widths[l + j] = t.widths[l + 1]
    BY <1>3, <1>4 DEF IsValueType
  <2>9. \A j \in 1 .. Len(u.widths) : u.widths[j] = w
    <3>1. \A j \in 1 .. t.counts[f] : t.widths[l + j] = w
      BY <2>8
    <3>2. \A j \in 1 .. Len(u.widths) : u.widths[j] = t.widths[l + j]
      BY <1>5 DEF IsPart
    <3> QED
      BY <1>5, <3>1, <3>2
  <2>10. LeafOffset(u, i) = (i - 1) * w
    <3>1. PICK x \in Nat : x = w
      BY <2>5 DEF Widths
    <3>2. \A j \in 1 .. Len(u.widths) : u.widths[j] = x
      BY <2>9, <3>1
    <3> HIDE DEF u, w, l, t
    <3>3. \A j \in 1 .. Len(u.widths) : LeafOffset(u, j) = (j - 1) * x
      BY <1>5, <3>2, EqualLayout
    <3> QED
      BY <1>5, <3>1, <3>3
  <2>11. LeafOffset(t, l + i) = LeafOffset(t, l + 1) + LeafOffset(u, i) /\ LeafOffset(t, l + 1) \in Nat
    <3>1. PICK x \in Nat : x = l
      BY <1>5
    <3> HIDE DEF u, l, t
    <3>2. /\ \A j \in 1 .. Len(u.widths) : LeafOffset(t, x + j) = LeafOffset(t, x + 1) + LeafOffset(u, j)
          /\ LeafOffset(t, x + 1) \in Nat
      BY <1>3, <1>5, <3>1, PartLayout
    <3> QED
      BY <1>5, <3>1, <3>2
  <2>12. q.local = p.local + LeafOffset(t, k + 1)
    <3>1. (i - 1) * w \in Nat
      BY <2>5 DEF Widths
    <3> HIDE DEF w
    <3> QED
      BY <1>3, <1>6, <2>1, <2>3, <2>10, <2>11, <3>1
  <2> HIDE DEF q, s, first, local
  <2>13. IsPointer(q, objects)
    BY <1>2, <2>1, <2>3, <2>6, <2>7, <2>12, SubPointer
  <2> QED
    BY <1>1, <2>2, <2>13, ReadingStep DEF IsRegister
<1> QED
  BY <1>1, <1>7, <1>8

-----------------------------------------------------------------------------
(* The instructions that define a block. *)

LEMMA AllocaKeeps ==
  ASSUME IInv, printAllocaInstruction
  PROVE  IInv' /\ WriteStays
<1>1. PICK t \in Allocated :
        /\ Execute
        /\ allocateStack(getTypeAllocSize(t))
        /\ objects' = Append(objects, [ty |-> t, at |-> block, value |-> [i \in DOMAIN Leaves(t) |-> Undef]])
        /\ NewRegister(PointerTo(t), block, [object |-> Len(objects) + 1, first |-> 1])
        /\ UNCHANGED memory
  BY DEF printAllocaInstruction
<1> DEFINE n == getTypeAllocSize(t)
           A == block .. block + n - 1
           undef == [i \in DOMAIN Leaves(t) |-> Undef]
           o == [ty |-> t, at |-> block, value |-> undef]
           q == Operand(PointerTo(t), block, [object |-> Len(objects) + 1, first |-> 1])
           R == Regions \cup {A}
<1>2. IsValueType(t)
  BY AggregatesAssumption DEF AggregatesAssumption
<1>3. /\ n \in Nat \ {0} /\ Len(t.widths) \in Nat \ {0} /\ DOMAIN t.widths = 1 .. Len(t.widths)
      /\ LeafOffset(t, 1) = 0 /\ Extent(block, t) = A
  BY <1>2, Layout, TypeFacts DEF Extent
<1>4. /\ stack \in Nat /\ block \in Nat \ {0} /\ stack <= block /\ IsMemory(memory, stack)
      /\ AreRegions(Regions, stack) /\ AreObjects(objects, memory, Regions)
      /\ AreRegisters(reg, memory, Regions, objects)
      /\ IsSequence(objects) /\ DOMAIN objects = 1 .. Len(objects) /\ Len(objects) \in Nat
  BY StateFacts
<1>5. AreRegions(R, block + n) /\ \A b \in Regions : b \cap A = {}
  BY <1>3, StateFacts, FreshBlock
<1>6. AreObjects(objects, memory, R) /\ AreRegisters(reg, memory, R, objects)
  <2>1. Changes(memory, memory, {}) /\ \A b \in Regions : b \cap {} = {}
    BY ChangesNothing
  <2> HIDE DEF A, n
  <2> QED
    BY <2>1, FreshKept
<1>7. undef = [i \in 1 .. Len(t.widths) |-> undef[i]] /\ \A i \in 1 .. Len(t.widths) : undef[i] = Undef
  BY <1>3 DEF Leaves
<1> HIDE DEF undef
<1>8. IsValue(t, undef) /\ Held(memory, block, t, undef)
  <2>1. IsSequence(undef) /\ Len(undef) = Len(t.widths) /\ DOMAIN undef = 1 .. Len(t.widths)
    BY <1>3, <1>7, FunctionIsSequence
  <2> QED
    BY <1>2, <1>7, <2>1, UndefHeld, Tokens DEF IsValue
<1>9. o.ty = t /\ o.at = block /\ o.value = undef
  OBVIOUS
<1> HIDE DEF o
<1>10. IsObject(o, memory, R)
  BY <1>2, <1>3, <1>4, <1>8, <1>9 DEF IsObject
<1>11. /\ IsSequence(objects') /\ DOMAIN objects' = 1 .. Len(objects) + 1
       /\ \A i \in 1 .. Len(objects) : objects'[i] = objects[i]
       /\ objects'[Len(objects) + 1] = o
  <2>1. objects' = Append(objects, o)
    BY <1>1 DEF o, undef
  <2> QED
    BY <1>4, <2>1, AppendFacts
<1>12. ASSUME NEW i \in 1 .. Len(objects) PROVE objects[i].at # block
  <2>1. /\ Extent(objects[i].at, objects[i].ty) \in Regions
        /\ IsValueType(objects[i].ty) /\ objects[i].at \in Nat
    BY <1>4 DEF AreObjects, IsObject
  <2>2. objects[i].at \in Extent(objects[i].at, objects[i].ty)
    BY <2>1, ExtentFacts
  <2>3. block \in A
    BY <1>3, <1>4
  <2> QED
    BY <1>5, <2>1, <2>2, <2>3
<1>13. AreObjects(objects', memory, R)
  <2>1. ASSUME NEW i \in 1 .. Len(objects) + 1, i # Len(objects) + 1 PROVE i \in 1 .. Len(objects)
    BY <1>4, <2>1
  <2>2. ASSUME NEW i \in 1 .. Len(objects) + 1 PROVE IsObject(objects'[i], memory, R)
    BY <1>4, <1>6, <1>10, <1>11, <2>1 DEF AreObjects
  <2>3. ASSUME NEW i \in 1 .. Len(objects) + 1, NEW j \in 1 .. Len(objects) + 1, i # j
        PROVE  objects'[i].at # objects'[j].at
    <3>1. CASE i = Len(objects) + 1
      <4>1. j \in 1 .. Len(objects)
        BY <2>1, <2>3, <3>1
      <4> QED
        BY <1>9, <1>11, <1>12, <3>1, <4>1
    <3>2. CASE j = Len(objects) + 1
      <4>1. i \in 1 .. Len(objects)
        BY <2>1, <2>3, <3>2
      <4> QED
        BY <1>9, <1>11, <1>12, <3>2, <4>1
    <3>3. CASE i # Len(objects) + 1 /\ j # Len(objects) + 1
      <4>1. i \in 1 .. Len(objects) /\ j \in 1 .. Len(objects)
        BY <2>1, <3>3
      <4> QED
        BY <1>4, <1>11, <2>3, <4>1 DEF AreObjects
    <3> QED
      BY <3>1, <3>2, <3>3
  <2> QED
    BY <1>11, <2>2, <2>3 DEF AreObjects
<1>14. Extends(objects', objects)
  BY <1>4, <1>11 DEF Extends
<1>15. AreRegisters(reg, memory, R, objects')
  <2>1. Changes(memory, memory, {}) /\ R \subseteq R
    BY ChangesNothing
  <2>2. \A r \in DOMAIN reg : IsComposite(reg[r], memory, R) => Extent(reg[r].local, reg[r].ty) \cap {} = {}
    OBVIOUS
  <2> HIDE DEF R
  <2> QED
    BY <1>6, <1>14, <2>1, <2>2, RegistersKept
<1>16. /\ q.ty = PointerTo(t) /\ q.local = block /\ q.value.object = Len(objects) + 1
       /\ q.value.first = 1
  BY DEF Operand
<1>17. reg' = Append(reg, q)
  BY <1>1 DEF NewRegister
<1> HIDE DEF q
<1>18. IsPointer(q, objects')
  <2>1. q.ty.kind = "pointer" /\ q.ty.to = t /\ q.ty = PointerTo(q.ty.to)
    BY <1>16 DEF PointerTo
  <2>2. 1 + Len(t.widths) - 1 <= Len(t.widths) /\ block = block + LeafOffset(t, 1)
    BY <1>3, <1>4
  <2>3. \A i \in DOMAIN t.widths : t.widths[1 + i - 1] = t.widths[i]
    BY <1>3
  <2>4. Len(objects) + 1 \in DOMAIN objects' /\ objects'[Len(objects) + 1] = o /\ 1 \in Nat \ {0}
    BY <1>4, <1>11
  <2> QED
    BY <1>2, <1>9, <1>16, <2>1, <2>2, <2>3, <2>4 DEF IsPointer
<1>19. AreRegisters(reg', memory, R, objects')
  <2>1. IsRegister(q, memory, R, objects')
    BY <1>18 DEF IsRegister
  <2> HIDE DEF R
  <2> QED
    BY <1>15, <1>17, <2>1, RegisterAppended
<1>20. /\ stack' = block + n /\ blocks' = blocks \cup {A} /\ Regions' = R /\ memory' = memory
  BY <1>1 DEF allocateStack, Regions
<1>21. executed' \in -1 .. MaxInstructions /\ executed' # -1
  <2>1. MaxInstructions \in Nat
    BY AggregatesAssumption DEF AggregatesAssumption
  <2>2. executed \in -1 .. MaxInstructions
    BY DEF IInv
  <2> QED
    BY <1>1, <2>1, <2>2 DEF Execute
<1>22. stack' \in Nat /\ stack' >= StackBase /\ stack <= stack'
  BY <1>3, <1>4, <1>20, BaseFacts DEF IInv
<1>23. IsMemory(memory, stack')
  BY <1>4, <1>22, MemoryGrows
<1>24. WriteStays
  BY <1>20 DEF WriteStays
<1> HIDE DEF R, A, n
<1> QED
  BY <1>5, <1>13, <1>19, <1>20, <1>21, <1>22, <1>23, <1>24 DEF IInv

-----------------------------------------------------------------------------
(* The vector instructions. *)

LEMMA CompositeNotNull ==
  ASSUME IInv, NEW v, IsComposite(v, memory, Regions)
  PROVE  v.local \in Nat \ {0}
<1>1. IsValueType(v.ty) /\ v.local \in Nat
  BY DEF IsComposite
<1>2. v.local \in Extent(v.local, v.ty)
  BY <1>1, ExtentFacts
<1>3. \A b \in Regions : b \subseteq 1 .. stack - 1
  BY StateFacts DEF AreRegions
<1>4. v.local \in 1 .. stack - 1
  BY <1>2, <1>3 DEF IsComposite
<1> QED
  BY <1>1, <1>4

\* A value without an address whose numbers are all the same.
LEMMA NullOperand ==
  ASSUME NEW t, IsValueType(t), NEW x \in {Undef, Zero}, NEW v, v.ty = t, v.local = 0,
         v.value = [i \in DOMAIN Leaves(t) |-> x]
  PROVE  /\ IsValue(t, v.value) /\ \A i \in 1 .. Len(t.widths) : v.value[i] = x
         /\ t.kind = "vector" => \A m, A : IsVectorOperand(v, m, A)
<1>1. Len(t.widths) \in Nat /\ DOMAIN t.widths = 1 .. Len(t.widths)
  BY TypeFacts
<1>2. v.value = [i \in 1 .. Len(t.widths) |-> v.value[i]] /\ \A i \in 1 .. Len(t.widths) : v.value[i] = x
  BY <1>1 DEF Leaves
<1>3. IsSequence(v.value) /\ Len(v.value) = Len(t.widths) /\ DOMAIN v.value = 1 .. Len(t.widths)
  BY <1>1, <1>2, FunctionIsSequence
<1>4. x # Junk
  BY Tokens
<1>5. IsValue(t, v.value)
  BY <1>2, <1>3, <1>4 DEF IsValue
<1> QED
  BY <1>2, <1>5 DEF IsVectorOperand

\* The operands can be read while a fresh block is filled.
LEMMA VectorOperandFacts ==
  ASSUME IInv, NEW A, \A b \in Regions : b \cap A = {}, NEW v, IsComposite(v, memory, Regions),
         v.ty.kind = "vector"
  PROVE  IsVectorOperand(v, memory, A)
<1>1. /\ IsValueType(v.ty) /\ IsValue(v.ty, v.value) /\ v.local \in Nat
      /\ Held(memory, v.local, v.ty, v.value)
  BY DEF IsComposite
<1>2. PICK b \in Regions : Extent(v.local, v.ty) \subseteq b
  BY DEF IsComposite
<1>3. Extent(v.local, v.ty) \cap A = {}
  BY <1>2
<1>4. v.local # 0
  BY CompositeNotNull
<1> QED
  BY <1>1, <1>3, <1>4 DEF IsVectorOperand

LEMMA VectorRegister ==
  ASSUME IInv, NEW v \in Vectors
  PROVE  /\ IsValueType(v.ty) /\ v.ty.kind = "vector" /\ IsComposite(v, memory, Regions)
         /\ IsValue(v.ty, v.value) /\ v.local \in Nat \ {0} /\ Element(v.ty) \in Widths
         /\ DOMAIN v.value = 1 .. Len(v.ty.widths) /\ Len(v.ty.widths) \in Nat \ {0}
         /\ Len(v.value) = Len(v.ty.widths)
<1>1. PICK r \in Kind({"vector"}) : v = reg[r]
  BY DEF Vectors
<1>2. v.ty.kind = "vector" /\ IsValueType(v.ty) /\ IsComposite(v, memory, Regions)
  BY <1>1, KindFacts
<1>3. IsValue(v.ty, v.value)
  BY <1>2 DEF IsComposite
<1> QED
  BY <1>2, <1>3, CompositeNotNull, VectorFacts, TypeFacts, SequenceFacts DEF IsValue

LEMMA VectorOrZero ==
  ASSUME IInv, NEW A, \A b \in Regions : b \cap A = {}, NEW t, IsValueType(t), t.kind = "vector",
         NEW v \in VectorsOrZero(t)
  PROVE  v.ty = t /\ IsVectorOperand(v, memory, A)
<1>1. CASE v = ZeroOf(t)
  <2>1. v.ty = t /\ v.local = 0 /\ v.value = [i \in DOMAIN Leaves(t) |-> Zero]
    BY <1>1 DEF ZeroOf, Operand
  <2>2. Zero \in {Undef, Zero}
    OBVIOUS
  <2> QED
    BY <2>1, <2>2, NullOperand
<1>2. CASE v \in {reg[r] : r \in Of(t)}
  <2>1. PICK r \in DOMAIN reg : v = reg[r] /\ reg[r].ty = t
    BY <1>2 DEF Of
  <2>2. IsComposite(v, memory, Regions)
    BY <2>1, ValueRegister
  <2> QED
    BY <2>1, <2>2, VectorOperandFacts
<1> QED
  BY <1>1, <1>2 DEF VectorsOrZero

\* A vector instruction that computes each number right keeps the invariant.
LEMMA VectorResultKeeps ==
  ASSUME IInv, Execute, NEW n \in Nat \ {0}, NEW w \in Widths, NEW from, NEW sources,
         Len(sources) = n, NEW value, value = [i \in 1 .. n |-> value[i]],
         VectorResult(w, from, sources, value),
         \A i \in 1 .. n : value[i] # Junk,
         \A i \in 1 .. n : \A mi : Filling(memory, mi, block .. block + n * w - 1, block + n * w) =>
           /\ Compute(mi, from, sources[i]) # Undef
           /\ value[i] \in {Undef, Compute(mi, from, sources[i])}
  PROVE  IInv' /\ WriteStays
<1> DEFINE t == Vector(n, w)
           size == n * w
           A == block .. block + size - 1
<1>1. /\ allocateStack(size) /\ memory' = Fill(memory, block, w, from, sources)
      /\ NewRegister(t, block, value) /\ UNCHANGED objects
  BY DEF VectorResult
<1>2. size \in Nat
  BY DEF Widths
<1>3. block \in Nat /\ stack \in Nat /\ stack <= block /\ IsMemory(memory, stack)
  BY StateFacts
<1>4. IsMemory(memory, block + size) /\ block + size \in Nat
  <2>1. block + size \in Nat /\ stack <= block + size
    BY <1>2, <1>3
  <2> HIDE DEF size
  <2> QED
    BY <1>3, <2>1, MemoryGrows
<1>5. /\ Changes(memory, memory', A) /\ IsMemory(memory', block + size)
      /\ \A i \in 1 .. n : Holds(memory', block + (i - 1) * w, w, value[i])
  <2> DEFINE top == block + size
  <2>1. ComputesAll(memory, block, w, from, sources, value, top)
    BY <1>3, <1>4 DEF ComputesAll
  <2> HIDE DEF top
  <2>2. /\ Changes(memory, memory', block .. block + Len(sources) * w - 1) /\ IsMemory(memory', top)
        /\ \A i \in 1 .. Len(sources) : Holds(memory', block + (i - 1) * w, w, value[i])
    BY <1>1, <2>1, FillEffect
  <2> QED
    BY <2>2 DEF top
<1>6. /\ IsValueType(t) /\ t.kind = "vector" /\ IsValue(t, value) /\ Held(memory', block, t, value)
      /\ Extent(block, t) = A
  <2>1. PICK a \in Nat : a = block
    BY <1>3
  <2> HIDE DEF t
  <2>2. ASSUME NEW m, m = memory'
        PROVE  /\ IsValueType(t) /\ t.kind = "vector" /\ IsValue(t, value) /\ Held(m, a, t, value)
               /\ Extent(a, t) = a .. a + n * w - 1
    BY <1>5, <2>1, <2>2, VectorHeld DEF t
  <2> QED
    BY <2>1, <2>2
<1>7. getTypeAllocSize(t) = size
  <2>1. Len(t.widths) = n /\ Element(t) = w
    <3>1. t.widths = [i \in 1 .. n |-> w]
      BY DEF Vector, Sequential
    <3>2. Len(t.widths) = n
      BY <3>1, FunctionIsSequence
    <3>3. t.widths[1] = w
      BY <3>1
    <3> QED
      BY <3>2, <3>3 DEF Element, Leaves
  <2> HIDE DEF t
  <2> QED
    BY <1>6, <2>1, VectorFacts
<1> HIDE DEF t, size
<1>8. t.kind # "scalar"
  BY <1>6
<1> QED
  BY <1>1, <1>2, <1>5, <1>6, <1>7, <1>8, BlockStep

\* What the numbers of a result are computed from.
LEMMA CopiedLoads ==
  ASSUME NEW mi, NEW w, NEW a
  PROVE  Compute(mi, w, Copied(a)) = Load(mi, a, w)
<1>1. Copied(a).kind = "copied" /\ Copied(a).x = a
  BY DEF Copied
<1> QED
  BY <1>1 DEF Compute

LEMMA ComputedLoads ==
  ASSUME NEW mi, NEW w, NEW op, NEW a, NEW b
  PROVE  Compute(mi, w, Computed(op, a, b)) = Result(op, Load(mi, a, w), Load(mi, b, w))
<1> DEFINE s == Computed(op, a, b)
<1>1. s.kind = "computed" /\ s.op = op /\ s.x = a /\ s.y = b
  BY DEF Computed
<1> HIDE DEF s
<1>2. Compute(mi, w, s) = Result(op, Load(mi, a, w), Load(mi, b, w))
  BY <1>1 DEF Compute
<1> QED
  BY <1>2 DEF s

LEMMA ElementwiseKeeps ==
  ASSUME IInv, Execute, NEW op, NEW v1 \in Vectors, NEW v2 \in VectorsOrZero(v1.ty), NEW w \in Widths,
         Elementwise(op, v1, v2, w)
  PROVE  IInv' /\ WriteStays
<1> DEFINE n == Len(v1.ty.widths)
           from == Element(v1.ty)
           A == block .. block + n * w - 1
           sources == [i \in DOMAIN v1.value |-> Computed(op, ElementAt(v1, i), ElementAt(v2, i))]
           value == [i \in DOMAIN v1.value |-> Result(op, v1.value[i], v2.value[i])]
<1>1. /\ IsValueType(v1.ty) /\ v1.ty.kind = "vector" /\ IsComposite(v1, memory, Regions)
      /\ DOMAIN v1.value = 1 .. n /\ n \in Nat \ {0}
  BY VectorRegister
<1>2. \A b \in Regions : b \cap A = {}
  <2>1. n * w \in Nat
    BY <1>1 DEF Widths
  <2> QED
    BY <2>1, StateFacts, FreshBlock
<1>3. IsVectorOperand(v1, memory, A)
  BY <1>1, <1>2, VectorOperandFacts
<1>4. v2.ty = v1.ty /\ IsVectorOperand(v2, memory, A)
  BY <1>1, <1>2, VectorOrZero
<1>5. VectorResult(w, from, sources, value)
  BY DEF Elementwise
<1>6. /\ sources = [i \in 1 .. n |-> sources[i]] /\ value = [i \in 1 .. n |-> value[i]]
      /\ \A i \in 1 .. n : /\ sources[i] = Computed(op, ElementAt(v1, i), ElementAt(v2, i))
                           /\ value[i] = Result(op, v1.value[i], v2.value[i])
  BY <1>1
<1>7. ASSUME NEW i \in 1 .. n, NEW mi, NEW top, Filling(memory, mi, A, top)
      PROVE  /\ Compute(mi, from, sources[i]) # Undef /\ value[i] # Junk
             /\ value[i] \in {Undef, Compute(mi, from, sources[i])}
  <2> DEFINE x == Load(mi, ElementAt(v1, i), from)
             y == Load(mi, ElementAt(v2, i), from)
  <2>1. x # Undef /\ v1.value[i] \in {Undef, x} /\ v1.value[i] # Junk
    BY <1>3, <1>7, ElementLoaded
  <2>2. y # Undef /\ v2.value[i] \in {Undef, y} /\ v2.value[i] # Junk
    BY <1>4, <1>7, ElementLoaded
  <2>3. Compute(mi, from, sources[i]) = Result(op, x, y)
    <3> HIDE DEF sources, from
    <3>1. sources[i] = Computed(op, ElementAt(v1, i), ElementAt(v2, i))
      BY <1>6
    <3> QED
      BY <3>1, ComputedLoads
  <2>4. value[i] = Result(op, v1.value[i], v2.value[i])
    BY <1>6
  <2> HIDE DEF x, y, sources, value
  <2> QED
    BY <2>1, <2>2, <2>3, <2>4, ResultFacts
<1> HIDE DEF sources, value, n, from
<1>8. \A i \in 1 .. n : value[i] # Junk
  <2>1. Filling(memory, memory, A, stack)
    BY StateFacts, ChangesNothing DEF Filling
  <2> QED
    BY <1>7, <2>1
<1>9. Len(sources) = n
  BY <1>1, <1>6, FunctionIsSequence
<1> QED
  BY <1>1, <1>5, <1>6, <1>7, <1>8, <1>9, VectorResultKeeps

LEMMA ArithmeticKeeps ==
  ASSUME IInv, printArithmeticInstruction
  PROVE  IInv' /\ WriteStays
<1>1. PICK v1 \in Vectors : \E v2 \in VectorsOrZero(v1.ty) :
        Execute /\ Elementwise(Sum, v1, v2, Element(v1.ty))
  BY DEF printArithmeticInstruction
<1>2. PICK v2 \in VectorsOrZero(v1.ty) : Execute /\ Elementwise(Sum, v1, v2, Element(v1.ty))
  BY <1>1
<1>3. Element(v1.ty) \in Widths
  BY VectorRegister
<1> QED
  BY <1>2, <1>3, ElementwiseKeeps

LEMMA CmpKeeps ==
  ASSUME IInv, printCmpInstruction
  PROVE  IInv' /\ WriteStays
<1>1. PICK v1 \in Vectors : \E v2 \in VectorsOrZero(v1.ty) : Execute /\ Elementwise(Less, v1, v2, 1)
  BY DEF printCmpInstruction
<1>2. PICK v2 \in VectorsOrZero(v1.ty) : Execute /\ Elementwise(Less, v1, v2, 1)
  BY <1>1
<1>3. 1 \in Widths
  BY DEF Widths
<1>4. PICK w \in Widths : w = 1
  BY <1>3
<1>5. Elementwise(Less, v1, v2, w)
  BY <1>2, <1>4
<1> QED
  BY <1>2, <1>5, ElementwiseKeeps

\* The source is read in steps of the width of the destination: it is the same.
LEMMA CastKeeps ==
  ASSUME IInv, printCastInstruction, "resizingCast" \notin Divergences
  PROVE  IInv' /\ WriteStays
<1>1. PICK v \in Vectors, w \in CastWidths :
        LET from == Element(v.ty) IN
        /\ Execute
        /\ "resizingCast" \in Divergences \/ w = from
        /\ VectorResult(w, from,
                        [i \in DOMAIN v.value |-> Computed(Convert, 0, v.local + (i - 1) * w)],
                        [i \in DOMAIN v.value |-> Result(Convert, Zero, v.value[i])])
  BY DEF printCastInstruction
<1> DEFINE n == Len(v.ty.widths)
           A == block .. block + n * w - 1
           sources == [i \in DOMAIN v.value |-> Computed(Convert, 0, v.local + (i - 1) * w)]
           value == [i \in DOMAIN v.value |-> Result(Convert, Zero, v.value[i])]
<1>2. w = Element(v.ty) /\ Execute /\ VectorResult(w, w, sources, value)
  BY <1>1
<1>3. /\ IsValueType(v.ty) /\ v.ty.kind = "vector" /\ IsComposite(v, memory, Regions)
      /\ DOMAIN v.value = 1 .. n /\ n \in Nat \ {0} /\ v.local \in Nat \ {0} /\ w \in Widths
  BY <1>2, VectorRegister
<1>4. \A b \in Regions : b \cap A = {}
  <2>1. n * w \in Nat
    BY <1>3 DEF Widths
  <2> QED
    BY <2>1, StateFacts, FreshBlock
<1>5. IsVectorOperand(v, memory, A)
  BY <1>3, <1>4, VectorOperandFacts
<1>6. /\ sources = [i \in 1 .. n |-> sources[i]] /\ value = [i \in 1 .. n |-> value[i]]
      /\ \A i \in 1 .. n : /\ sources[i] = Computed(Convert, 0, ElementAt(v, i))
                           /\ value[i] = Result(Convert, Zero, v.value[i])
  BY <1>2, <1>3 DEF ElementAt
<1>7. ASSUME NEW i \in 1 .. n, NEW mi, NEW top, Filling(memory, mi, A, top)
      PROVE  /\ Compute(mi, w, sources[i]) # Undef /\ value[i] # Junk
             /\ value[i] \in {Undef, Compute(mi, w, sources[i])}
  <2> DEFINE y == Load(mi, ElementAt(v, i), w)
  <2>1. y # Undef /\ v.value[i] \in {Undef, y} /\ v.value[i] # Junk
    BY <1>2, <1>5, <1>7, ElementLoaded
  <2>2. Compute(mi, w, sources[i]) = Result(Convert, Zero, y)
    <3> HIDE DEF sources
    <3>1. sources[i] = Computed(Convert, 0, ElementAt(v, i))
      BY <1>6
    <3>2. Load(mi, 0, w) = Zero
      BY DEF Load
    <3> QED
      BY <3>1, <3>2, ComputedLoads
  <2>3. value[i] = Result(Convert, Zero, v.value[i])
    BY <1>6
  <2>4. Zero # Undef /\ Zero # Junk /\ Zero \in {Undef, Zero}
    BY Tokens
  <2> HIDE DEF y, sources, value
  <2> QED
    BY <2>1, <2>2, <2>3, <2>4, ResultFacts
<1> HIDE DEF sources, value, n
<1>8. \A i \in 1 .. n : value[i] # Junk
  <2>1. Filling(memory, memory, A, stack)
    BY StateFacts, ChangesNothing DEF Filling
  <2> QED
    BY <1>7, <2>1
<1>9. Len(sources) = n
  BY <1>3, <1>6, FunctionIsSequence
<1> QED
  BY <1>2, <1>3, <1>6, <1>7, <1>8, <1>9, VectorResultKeeps

\* The vector v is copied to a block.
LEMMA VectorCopied ==
  ASSUME NEW m, NEW a \in Nat, NEW top \in Nat, IsMemory(m, top), NEW v,
         a + getTypeAllocSize(v.ty) <= top, IsVectorOperand(v, m, Extent(a, v.ty)),
         NEW w, w = Element(v.ty),
         NEW m2, m2 = Fill(m, a, w, w, [i \in DOMAIN Leaves(v.ty) |-> Copied(ElementAt(v, i))])
  PROVE  /\ Changes(m, m2, Extent(a, v.ty)) /\ IsMemory(m2, top)
         /\ Held(m2, a, v.ty, v.value)
<1> DEFINE t == v.ty
           n == Len(t.widths)
           sources == [i \in DOMAIN Leaves(t) |-> Copied(ElementAt(v, i))]
<1>1. IsValueType(t) /\ t.kind = "vector"
  BY DEF IsVectorOperand
<1>2. /\ w \in Widths /\ getTypeAllocSize(t) = n * w /\ n \in Nat \ {0} /\ DOMAIN t.widths = 1 .. n
      /\ \A i \in 1 .. n : t.widths[i] = w /\ LeafOffset(t, i) = (i - 1) * w
  BY <1>1, VectorFacts, TypeFacts
<1>3. Extent(a, t) = a .. a + n * w - 1
  BY <1>2 DEF Extent
<1>4. /\ sources = [i \in 1 .. n |-> sources[i]]
      /\ \A i \in 1 .. n : sources[i] = Copied(ElementAt(v, i))
  BY <1>2 DEF Leaves
<1>5. Len(sources) = n
  <2> HIDE DEF sources, n
  <2> QED
    BY <1>2, <1>4, FunctionIsSequence
<1> HIDE DEF sources, t
<1>6. ASSUME NEW i \in 1 .. n, NEW mi, Filling(m, mi, Extent(a, t), top)
      PROVE  /\ Compute(mi, w, sources[i]) # Undef
             /\ v.value[i] \in {Undef, Compute(mi, w, sources[i])}
  <2>1. Compute(mi, w, sources[i]) = Load(mi, ElementAt(v, i), w)
    BY <1>4, CopiedLoads
  <2>2. /\ Load(mi, ElementAt(v, i), w) # Undef
        /\ v.value[i] \in {Undef, Load(mi, ElementAt(v, i), w)}
    BY <1>6, ElementLoaded DEF t
  <2> QED
    BY <2>1, <2>2
<1>7. ComputesAll(m, a, w, w, sources, v.value, top)
  <2>1. a + n * w <= top
    BY <1>2 DEF t
  <2> QED
    BY <1>2, <1>3, <1>5, <1>6, <2>1 DEF ComputesAll
<1>8. /\ Changes(m, m2, a .. a + Len(sources) * w - 1) /\ IsMemory(m2, top)
      /\ \A i \in 1 .. Len(sources) : Holds(m2, a + (i - 1) * w, w, v.value[i])
  <2>1. m2 = Fill(m, a, w, w, sources)
    BY DEF sources, t
  <2> QED
    BY <1>7, <2>1, FillEffect
<1>9. Held(m2, a, t, v.value)
  BY <1>2, <1>5, <1>8 DEF Held
<1> QED
  BY <1>3, <1>5, <1>8, <1>9 DEF t

-----------------------------------------------------------------------------
(* The insertions. *)

\* value2 is a value of type t with the numbers from the (k+1)-th on replaced.
Replacing(t, value, u, k, part, value2) ==
  /\ IsValueType(t) /\ IsValue(t, value) /\ IsValueType(u) /\ k \in Nat /\ IsPart(u, t, k)
  /\ IsValue(u, part) /\ value2 = [i \in DOMAIN value |-> value2[i]]
  /\ \A i \in 1 .. Len(t.widths) :
       value2[i] = IF i - k \in 1 .. Len(u.widths) THEN part[i - k] ELSE value[i]

LEMMA ReplacedIsHeld ==
  ASSUME NEW t, NEW value, NEW u, NEW k, NEW part, NEW value2, Replacing(t, value, u, k, part, value2),
         NEW a \in Nat, NEW m, Held(m, a, t, value),
         NEW m2, Changes(m, m2, Extent(a + LeafOffset(t, k + 1), u)),
         Held(m2, a + LeafOffset(t, k + 1), u, part)
  PROVE  /\ IsValue(t, value2) /\ Held(m2, a, t, value2)
         /\ Extent(a + LeafOffset(t, k + 1), u) \subseteq Extent(a, t)
<1>1. PICK j \in Nat : j = k
  BY DEF Replacing
<1>2. /\ IsValueType(t) /\ IsValue(t, value) /\ IsValueType(u) /\ IsPart(u, t, j)
      /\ IsValue(u, part) /\ value2 = [i \in DOMAIN value |-> value2[i]]
      /\ \A i \in 1 .. Len(t.widths) :
           value2[i] = IF i - j \in 1 .. Len(u.widths) THEN part[i - j] ELSE value[i]
  BY <1>1 DEF Replacing
<1>3. /\ Changes(m, m2, Extent(a + LeafOffset(t, j + 1), u))
      /\ Held(m2, a + LeafOffset(t, j + 1), u, part)
  BY <1>1
<1>4. Extent(a + LeafOffset(t, j + 1), u) \subseteq Extent(a, t)
  BY <1>2, PartHeld
<1>5. IsValue(t, value2) /\ Held(m2, a, t, value2)
  BY <1>2, <1>3, PartReplaced
<1> QED
  BY <1>1, <1>4, <1>5

\* A block has a value, then a part of it is replaced.
LEMMA PartStep ==
  ASSUME IInv, Execute, UNCHANGED objects, NEW t, t.kind # "scalar",
         allocateStack(getTypeAllocSize(t)), IsMemory(memory', block + getTypeAllocSize(t)),
         NEW m, Changes(memory, m, Extent(block, t)),
         NEW value, NEW u, NEW k, NEW part, NEW value2, Replacing(t, value, u, k, part, value2),
         Held(m, block, t, value),
         Changes(m, memory', Extent(block + LeafOffset(t, k + 1), u)),
         Held(memory', block + LeafOffset(t, k + 1), u, part),
         NewRegister(t, block, value2)
  PROVE  IInv' /\ WriteStays
<1> DEFINE n == getTypeAllocSize(t)
           at == block + LeafOffset(t, k + 1)
<1>1. IsValueType(t) /\ n \in Nat
  BY Layout DEF Replacing
<1>2. PICK a \in Nat, m2 \in {memory'} : a = block /\ m2 = memory'
  BY StateFacts
<1>3. /\ IsValue(t, value2) /\ Held(memory', block, t, value2)
      /\ Extent(at, u) \subseteq Extent(block, t)
  <2>1. /\ Held(m, a, t, value) /\ Changes(m, m2, Extent(a + LeafOffset(t, k + 1), u))
        /\ Held(m2, a + LeafOffset(t, k + 1), u, part)
    BY <1>2
  <2> HIDE DEF n, at
  <2>2. /\ IsValue(t, value2) /\ Held(m2, a, t, value2)
        /\ Extent(a + LeafOffset(t, k + 1), u) \subseteq Extent(a, t)
    BY <2>1, ReplacedIsHeld
  <2> QED
    BY <1>2, <2>2 DEF at
<1>4. Extent(block, t) = block .. block + n - 1
  BY DEF Extent
<1> HIDE DEF n, at
<1>5. Changes(memory, memory', Extent(block, t))
  <2>1. Extent(block, t) \subseteq Extent(block, t) /\ Changes(m, memory', Extent(at, u))
    BY DEF at
  <2> QED
    BY <1>3, <2>1, ChangesCompose
<1>6. /\ allocateStack(n) /\ getTypeAllocSize(t) = n /\ IsMemory(memory', block + n)
      /\ Changes(memory, memory', block .. block + n - 1)
  BY <1>4, <1>5 DEF n
<1> QED
  BY <1>1, <1>3, <1>6, BlockStep

LEMMA UndefOperand ==
  ASSUME NEW t, IsValueType(t)
  PROVE  /\ UndefOf(t).ty = t /\ UndefOf(t).local = 0 /\ IsValue(t, UndefOf(t).value)
         /\ \A i \in 1 .. Len(t.widths) : UndefOf(t).value[i] = Undef
         /\ t.kind = "vector" => \A m, A : IsVectorOperand(UndefOf(t), m, A)
<1>1. PICK v : v = UndefOf(t)
  OBVIOUS
<1>2. v.ty = t /\ v.local = 0 /\ v.value = [i \in DOMAIN Leaves(t) |-> Undef]
  BY <1>1 DEF UndefOf, Operand
<1>3. Len(t.widths) \in Nat /\ DOMAIN t.widths = 1 .. Len(t.widths)
  BY TypeFacts
<1>4. v.value = [i \in 1 .. Len(t.widths) |-> v.value[i]] /\ \A i \in 1 .. Len(t.widths) : v.value[i] = Undef
  BY <1>2, <1>3 DEF Leaves
<1>5. IsSequence(v.value) /\ Len(v.value) = Len(t.widths) /\ DOMAIN v.value = 1 .. Len(t.widths)
  BY <1>3, <1>4, FunctionIsSequence
<1>6. IsValue(t, v.value)
  BY <1>4, <1>5, Tokens DEF IsValue
<1> QED
  BY <1>1, <1>2, <1>4, <1>6 DEF IsVectorOperand

LEMMA InsertElementKeeps ==
  ASSUME IInv, printInsertElement
  PROVE  IInv' /\ WriteStays
<1>0. PICK t \in {v.ty : v \in Vectors} : \E f \in DOMAIN t.counts :
        \E v \in Operands(t) \cup {UndefOf(t)}, x \in Operands(Scalar(Element(t))) :
        LET w == Element(t)
            copied == IF v.local = 0 THEN memory
                      ELSE Fill(memory, block, w, w, [i \in DOMAIN Leaves(t) |-> Copied(ElementAt(v, i))])
        IN
        /\ Execute
        /\ allocateStack(getTypeAllocSize(t))
        /\ memory' = Write(copied, block + (f - 1) * w, w, x.local)
        /\ NewRegister(t, block, [v.value EXCEPT ![f] = x.value[1]])
        /\ UNCHANGED objects
  BY DEF printInsertElement
<1>1. PICK f \in DOMAIN t.counts : \E v \in Operands(t) \cup {UndefOf(t)}, x \in Operands(Scalar(Element(t))) :
        LET w == Element(t)
            copied == IF v.local = 0 THEN memory
                      ELSE Fill(memory, block, w, w, [i \in DOMAIN Leaves(t) |-> Copied(ElementAt(v, i))])
        IN
        /\ Execute
        /\ allocateStack(getTypeAllocSize(t))
        /\ memory' = Write(copied, block + (f - 1) * w, w, x.local)
        /\ NewRegister(t, block, [v.value EXCEPT ![f] = x.value[1]])
        /\ UNCHANGED objects
  BY <1>0
<1>2. PICK v \in Operands(t) \cup {UndefOf(t)}, x \in Operands(Scalar(Element(t))) :
        LET w == Element(t)
            copied == IF v.local = 0 THEN memory
                      ELSE Fill(memory, block, w, w, [i \in DOMAIN Leaves(t) |-> Copied(ElementAt(v, i))])
        IN
        /\ Execute
        /\ allocateStack(getTypeAllocSize(t))
        /\ memory' = Write(copied, block + (f - 1) * w, w, x.local)
        /\ NewRegister(t, block, [v.value EXCEPT ![f] = x.value[1]])
        /\ UNCHANGED objects
  BY <1>1
<1> DEFINE w == Element(t)
           n == Len(t.widths)
           u == Scalar(w)
           copied == IF v.local = 0 THEN memory
                     ELSE Fill(memory, block, w, w, [i \in DOMAIN Leaves(t) |-> Copied(ElementAt(v, i))])
           value2 == [v.value EXCEPT ![f] = x.value[1]]
           size == getTypeAllocSize(t)
<1>3. /\ Execute /\ UNCHANGED objects /\ allocateStack(size)
      /\ memory' = Write(copied, block + (f - 1) * w, w, x.local) /\ NewRegister(t, block, value2)
  BY <1>2
<1>4. IsValueType(t) /\ t.kind = "vector"
  BY VectorRegister
<1>5. /\ w \in Widths /\ size = n * w /\ n \in Nat \ {0} /\ DOMAIN t.widths = 1 .. n /\ Len(t.counts) = n
      /\ \A i \in 1 .. n : t.widths[i] = w /\ LeafOffset(t, i) = (i - 1) * w
  BY <1>4, VectorFacts, TypeFacts
<1>6. f \in 1 .. n
  BY <1>4, <1>5, TypeFacts
<1>7. PICK k \in Nat : f = k + 1 /\ k + 1 <= n
  <2>1. f - 1 \in Nat /\ f = (f - 1) + 1 /\ f <= n
    BY <1>5, <1>6
  <2> QED
    BY <2>1
<1>8. /\ block \in Nat \ {0} /\ stack \in Nat /\ stack <= block /\ IsMemory(memory, stack)
      /\ AreRegions(Regions, stack)
  BY StateFacts
<1>9. IsMemory(memory, block + size) /\ block + size \in Nat /\ size \in Nat
  <2>1. size \in Nat
    BY <1>4, Layout
  <2>2. block + size \in Nat /\ stack <= block + size
    BY <1>8, <2>1
  <2> HIDE DEF size
  <2> QED
    BY <1>8, <2>1, <2>2, MemoryGrows
<1>10. \A b \in Regions : b \cap Extent(block, t) = {}
  BY <1>8, <1>9, StateFacts, FreshBlock DEF Extent
<1>11. /\ IsValueType(u) /\ u.kind = "scalar" /\ Len(u.widths) = 1 /\ u.widths[1] = w
       /\ u.widths = [i \in 1 .. 1 |-> u.widths[i]]
  <2>1. IsValueType(u) /\ u.kind = "scalar" /\ Len(u.widths) = 1 /\ u.widths[1] = w
    BY <1>5, ScalarIsType
  <2>2. u.widths = <<w>>
    BY DEF Scalar
  <2> QED
    BY <2>1, <2>2
<1>12. IsPart(u, t, k)
  <2>1. \A i \in 1 .. 1 : i = 1
    OBVIOUS
  <2> QED
    BY <1>5, <1>6, <1>7, <1>11, <2>1 DEF IsPart
<1>13. IsScalar(x) /\ x.ty = u
  BY <1>11, OperandFacts
<1>14. /\ x.local # Undef /\ IsValue(u, x.value) /\ x.value[1] \in {Undef, x.local}
  BY <1>13 DEF IsScalar
<1> HIDE DEF u
<1>15. /\ v.ty = t /\ IsValue(t, v.value) /\ Changes(memory, copied, Extent(block, t))
       /\ IsMemory(copied, block + size) /\ Held(copied, block, t, v.value)
  <2>1. CASE v \in Operands(t)
    <3>1. v.ty = t /\ IsComposite(v, memory, Regions)
      BY <1>4, <2>1, OperandFacts
    <3>2. IsVectorOperand(v, memory, Extent(block, v.ty)) /\ v.local # 0
      BY <1>4, <1>10, <3>1, VectorOperandFacts, CompositeNotNull
    <3>3. IsValue(t, v.value)
      BY <3>1 DEF IsComposite
    <3>4. copied = Fill(memory, block, w, w, [i \in DOMAIN Leaves(v.ty) |-> Copied(ElementAt(v, i))])
      BY <3>1, <3>2
    <3>5. PICK top \in Nat : top = block + size
      BY <1>9
    <3>6. /\ IsMemory(memory, top) /\ block + getTypeAllocSize(v.ty) <= top /\ w = Element(v.ty)
          /\ block \in Nat
      BY <1>8, <1>9, <3>1, <3>5
    <3> HIDE DEF copied, w, size
    <3>7. /\ Changes(memory, copied, Extent(block, v.ty)) /\ IsMemory(copied, top)
          /\ Held(copied, block, v.ty, v.value)
      BY <3>2, <3>4, <3>6, VectorCopied
    <3> QED
      BY <3>1, <3>3, <3>5, <3>7
  <2>2. CASE v = UndefOf(t)
    <3>1. v.ty = t /\ v.local = 0
      BY <1>4, <2>2, UndefOperand
    <3>2. IsValue(t, v.value) /\ \A i \in 1 .. Len(t.widths) : v.value[i] = Undef
      BY <1>4, <2>2, UndefOperand
    <3>3. copied = memory
      BY <3>1
    <3> HIDE DEF copied, size
    <3> QED
      BY <1>4, <1>9, <3>1, <3>2, <3>3, UndefHeld, ChangesNothing
  <2> QED
    BY <2>1, <2>2
<1>16. PICK at \in Nat : at = block + LeafOffset(t, k + 1) /\ at = block + (f - 1) * w /\ at + w <= block + size
  <2>1. k + 1 \in 1 .. Len(t.widths) /\ f \in 1 .. Len(t.widths)
    BY <1>5, <1>6, <1>7
  <2>2. LeafOffset(t, f) \in Nat /\ LeafOffset(t, f) + t.widths[f] <= size
    BY <1>4, <2>1, Layout
  <2>3. LeafOffset(t, f) = (f - 1) * w /\ t.widths[f] = w
    BY <1>5, <2>1
  <2>4. PICK o \in Nat, s \in Nat, c \in Nat : o = LeafOffset(t, f) /\ s = size /\ c = w /\ o + c <= s
    BY <1>5, <1>9, <2>2, <2>3 DEF Widths
  <2>5. block + o \in Nat /\ block + o + c <= block + s
    BY <1>8, <2>4
  <2> QED
    BY <1>7, <2>3, <2>4, <2>5
<1>17. /\ Changes(copied, memory', at .. at + w - 1) /\ IsMemory(memory', block + size)
       /\ Holds(memory', at, w, x.local)
  <2> HIDE DEF copied, w, size
  <2>1. memory' = Write(copied, at, w, x.local)
    BY <1>3, <1>16
  <2>2. PICK top \in Nat : top = block + size
    BY <1>9
  <2>3. at + w <= top
    BY <1>16, <2>2
  <2>4. IsMemory(copied, top) /\ w \in Widths /\ x.local # Undef
    BY <1>5, <1>14, <1>15, <2>2
  <2>5. /\ Changes(copied, memory', at .. at + w - 1) /\ IsMemory(memory', top)
        /\ Holds(memory', at, w, x.local)
    BY <2>1, <2>3, <2>4, WriteEffect
  <2> QED
    BY <2>2, <2>5
<1>18. Changes(copied, memory', Extent(at, u)) /\ Held(memory', at, u, x.value)
  <2>1. Extent(at, u) = at .. at + w - 1
    BY <1>11, ScalarHeld
  <2>2. Holds(memory', at, w, x.value[1])
    BY <1>14, <1>17 DEF Holds
  <2>3. Held(memory', at, u, x.value)
    <3>1. ASSUME NEW m, m = memory' PROVE Held(m, at, u, x.value)
      BY <1>11, <2>2, <3>1, ScalarHeld
    <3> QED
      BY <3>1
  <2> QED
    BY <1>17, <2>1, <2>3
<1>19. /\ value2 = [i \in DOMAIN v.value |-> value2[i]]
       /\ \A i \in 1 .. Len(t.widths) :
            value2[i] = IF i - k \in 1 .. Len(u.widths) THEN x.value[i - k] ELSE v.value[i]
  <2>1. DOMAIN v.value = 1 .. n
    BY <1>5, <1>15, SequenceFacts DEF IsValue
  <2>2. \A i \in 1 .. n : i - k \in 1 .. 1 <=> i = f
    BY <1>5, <1>7
  <2>3. f - k = 1
    BY <1>7
  <2>4. \A i \in DOMAIN v.value : value2[i] = IF i = f THEN x.value[1] ELSE v.value[i]
    OBVIOUS
  <2>5. value2 = [i \in DOMAIN v.value |-> value2[i]]
    OBVIOUS
  <2> QED
    BY <1>11, <2>1, <2>2, <2>3, <2>4, <2>5
<1> HIDE DEF copied, value2, w, size, n
<1>20. /\ Changes(copied, memory', Extent(block + LeafOffset(t, k + 1), u))
       /\ Held(memory', block + LeafOffset(t, k + 1), u, x.value)
  BY <1>16, <1>18
<1>21. allocateStack(getTypeAllocSize(t)) /\ IsMemory(memory', block + getTypeAllocSize(t)) /\ t.kind # "scalar"
  BY <1>3, <1>4, <1>17 DEF size
<1>22. Replacing(t, v.value, u, k, x.value, value2)
  BY <1>4, <1>11, <1>12, <1>14, <1>15, <1>19 DEF Replacing
<1> QED
  BY <1>3, <1>15, <1>20, <1>21, <1>22, PartStep

LEMMA CopyHeld ==
  ASSUME NEW m, NEW to \in Nat, NEW from \in Nat, NEW t, IsValueType(t),
         NEW m2, m2 = memcpy(m, to, from, getTypeAllocSize(t)),
         NEW top \in Nat, IsMemory(m, top), to + getTypeAllocSize(t) <= top,
         NEW value, Held(m, from, t, value)
  PROVE  /\ Changes(m, m2, Extent(to, t)) /\ IsMemory(m2, top) /\ Held(m2, to, t, value)
<1>1. PICK n \in Nat : n = getTypeAllocSize(t)
  BY Layout
<1>2. m2 = memcpy(m, to, from, n) /\ to + n <= top
  BY <1>1
<1>3. /\ Changes(m, m2, to .. to + n - 1) /\ IsMemory(m2, top)
      /\ \A o \in Nat, w \in Nat : \A x : o + w <= n /\ Holds(m, from + o, w, x) => Holds(m2, to + o, w, x)
  BY <1>2, CopyEffect
<1>4. ASSUME NEW i \in 1 .. Len(t.widths)
      PROVE  Holds(m2, to + LeafOffset(t, i), t.widths[i], value[i])
  <2>1. /\ LeafOffset(t, i) \in Nat /\ t.widths[i] \in Widths
        /\ LeafOffset(t, i) + t.widths[i] <= n
    BY <1>1, Layout, TypeFacts
  <2>2. t.widths[i] \in Nat
    BY <2>1 DEF Widths
  <2>3. Holds(m, from + LeafOffset(t, i), t.widths[i], value[i])
    BY TypeFacts DEF Held
  <2> QED
    BY <1>3, <2>1, <2>2, <2>3
<1>5. Held(m2, to, t, value)
  BY <1>4, TypeFacts DEF Held
<1> QED
  BY <1>1, <1>3, <1>5 DEF Extent

\* A field is stored: a number, or the bytes of an array.
LEMMA StoreEffect ==
  ASSUME NEW m, NEW a \in Nat, NEW v, IsValueType(v.ty),
         IF v.ty.kind = "scalar" THEN IsScalar(v)
         ELSE v.local \in Nat /\ IsValue(v.ty, v.value) /\ Held(m, v.local, v.ty, v.value),
         NEW m2, m2 = Store(m, a, v),
         NEW top \in Nat, IsMemory(m, top), a + getTypeAllocSize(v.ty) <= top
  PROVE  /\ Changes(m, m2, Extent(a, v.ty)) /\ IsMemory(m2, top) /\ Held(m2, a, v.ty, v.value)
         /\ IsValue(v.ty, v.value)
<1>1. CASE v.ty.kind = "scalar"
  <2>1. /\ v.local # Undef /\ v.value[1] \in {Undef, v.local} /\ IsValue(v.ty, v.value)
    BY <1>1 DEF IsScalar
  <2>2. /\ Extent(a, v.ty) = a .. a + v.ty.widths[1] - 1 /\ Len(v.ty.widths) = 1
        /\ v.ty.widths[1] \in Widths
    BY <1>1, ScalarHeld
  <2>3. PICK w \in Widths : w = v.ty.widths[1]
    BY <2>2
  <2>4. m2 = Write(m, a, w, v.local)
    BY <1>1, <2>3 DEF Store, Leaves
  <2>5. a + w <= top
    <3>1. LeafOffset(v.ty, 1) = 0 /\ LeafOffset(v.ty, 1) + v.ty.widths[1] <= getTypeAllocSize(v.ty)
      BY <2>2, Layout
    <3>2. getTypeAllocSize(v.ty) \in Nat
      BY Layout
    <3> QED
      BY <2>3, <3>1, <3>2 DEF Widths
  <2>6. /\ Changes(m, m2, a .. a + w - 1) /\ IsMemory(m2, top) /\ Holds(m2, a, w, v.local)
    BY <2>1, <2>4, <2>5, WriteEffect
  <2>7. Holds(m2, a, w, v.value[1])
    BY <2>1, <2>6 DEF Holds
  <2>8. Held(m2, a, v.ty, v.value)
    BY <1>1, <2>3, <2>7, ScalarHeld
  <2> QED
    BY <2>1, <2>2, <2>3, <2>6, <2>8
<1>2. CASE v.ty.kind # "scalar"
  <2>1. m2 = memcpy(m, a, v.local, getTypeAllocSize(v.ty))
    BY <1>2 DEF Store
  <2>2. v.local \in Nat /\ IsValue(v.ty, v.value) /\ Held(m, v.local, v.ty, v.value)
    BY <1>2
  <2> QED
    BY <2>1, <2>2, CopyHeld
<1> QED
  BY <1>1, <1>2

LEMMA InsertValueKeeps ==
  ASSUME IInv, printInsertValue
  PROVE  IInv' /\ WriteStays
<1>0. PICK t \in {reg[r].ty : r \in Kind({"struct", "array"})} : \E f \in DOMAIN t.counts :
        \E aggregate \in Operands(t) \cup {UndefOf(t)}, v \in Operands(FieldType(t, f)) :
        /\ Execute
        /\ allocateStack(getTypeAllocSize(t))
        /\ memory' = Store(Copy(memory, aggregate), block + Offset(t, f), v)
        /\ NewRegister(t, block, Replace(t, aggregate.value, f, v.value))
        /\ UNCHANGED objects
  BY DEF printInsertValue
<1>1. PICK f \in DOMAIN t.counts :
        \E aggregate \in Operands(t) \cup {UndefOf(t)}, v \in Operands(FieldType(t, f)) :
        /\ Execute
        /\ allocateStack(getTypeAllocSize(t))
        /\ memory' = Store(Copy(memory, aggregate), block + Offset(t, f), v)
        /\ NewRegister(t, block, Replace(t, aggregate.value, f, v.value))
        /\ UNCHANGED objects
  BY <1>0
<1>2. PICK aggregate \in Operands(t) \cup {UndefOf(t)}, v \in Operands(FieldType(t, f)) :
        /\ Execute
        /\ allocateStack(getTypeAllocSize(t))
        /\ memory' = Store(Copy(memory, aggregate), block + Offset(t, f), v)
        /\ NewRegister(t, block, Replace(t, aggregate.value, f, v.value))
        /\ UNCHANGED objects
  BY <1>1
<1> DEFINE u == FieldType(t, f)
           l == LeavesBefore(t, f)
           size == getTypeAllocSize(t)
           copied == Copy(memory, aggregate)
           value2 == Replace(t, aggregate.value, f, v.value)
<1>3. IsValueType(t) /\ t.kind # "scalar"
  <2>1. PICK r \in Kind({"struct", "array"}) : t = reg[r].ty
    OBVIOUS
  <2> QED
    BY <2>1, KindFacts
<1>4. f \in 1 .. Len(t.counts)
  BY <1>3, TypeFacts
<1>5. /\ l \in Nat /\ IsValueType(u) /\ Len(u.widths) = t.counts[f] /\ IsPart(u, t, l)
      /\ t.counts[f] \in Nat \ {0}
  BY <1>3, <1>4, FieldFacts, FieldTypeFacts, TypeFacts
<1>6. Offset(t, f) = LeafOffset(t, l + 1)
  BY DEF Offset
<1>7. PICK k \in Nat : k = l
  BY <1>5
<1>8. /\ LeafOffset(t, k + 1) \in Nat /\ LeafOffset(t, k + 1) + getTypeAllocSize(u) <= size
      /\ size \in Nat /\ getTypeAllocSize(u) \in Nat
  BY <1>3, <1>5, <1>7, PartLayout, Layout
<1>9. /\ block \in Nat \ {0} /\ stack \in Nat /\ stack <= block /\ IsMemory(memory, stack)
      /\ AreRegions(Regions, stack)
  BY StateFacts
<1>10. PICK top \in Nat : top = block + size
  BY <1>8, <1>9
<1>11. IsMemory(memory, top)
  <2>1. stack <= top
    BY <1>8, <1>9, <1>10
  <2> QED
    BY <1>9, <2>1, MemoryGrows
<1>12. \A b \in Regions : b \cap Extent(block, t) = {}
  BY <1>8, <1>9, StateFacts, FreshBlock DEF Extent
<1>13. PICK at \in Nat : at = block + LeafOffset(t, k + 1) /\ at + getTypeAllocSize(u) <= top
  <2>1. block + LeafOffset(t, k + 1) \in Nat
    BY <1>8, <1>9
  <2>2. block + LeafOffset(t, k + 1) + getTypeAllocSize(u) <= block + size
    BY <1>8, <1>9
  <2> QED
    BY <1>10, <2>1, <2>2
<1> HIDE DEF u, l, size, copied, value2
<1>14. /\ IsValue(t, aggregate.value) /\ Changes(memory, copied, Extent(block, t))
       /\ IsMemory(copied, top) /\ Held(copied, block, t, aggregate.value)
  <2>1. CASE aggregate \in Operands(t)
    <3>1. aggregate.ty = t /\ IsComposite(aggregate, memory, Regions)
      BY <1>3, <2>1, OperandFacts
    <3>2. /\ aggregate.local \in Nat \ {0} /\ IsValue(t, aggregate.value)
          /\ Held(memory, aggregate.local, t, aggregate.value)
      BY <3>1, CompositeNotNull DEF IsComposite
    <3>3. copied = memcpy(memory, block, aggregate.local, getTypeAllocSize(t))
      BY <3>1, <3>2 DEF copied, Copy
    <3>4. block \in Nat /\ block + getTypeAllocSize(t) <= top /\ aggregate.local \in Nat
      BY <1>9, <1>10, <3>2 DEF size
    <3>5. PICK from \in Nat : from = aggregate.local
      BY <3>2
    <3>6. copied = memcpy(memory, block, from, getTypeAllocSize(t)) /\ Held(memory, from, t, aggregate.value)
      BY <3>2, <3>3, <3>5
    <3> QED
      BY <1>3, <1>11, <3>2, <3>4, <3>6, CopyHeld
  <2>2. CASE aggregate = UndefOf(t)
    <3>1. /\ aggregate.local = 0 /\ IsValue(t, aggregate.value)
          /\ \A i \in 1 .. Len(t.widths) : aggregate.value[i] = Undef
      BY <1>3, <2>2, UndefOperand
    <3>2. copied = memory
      BY <3>1 DEF copied, Copy
    <3> QED
      BY <1>3, <1>11, <3>1, <3>2, UndefHeld, ChangesNothing
  <2> QED
    BY <2>1, <2>2
<1>15. /\ v.ty = u /\ IF u.kind = "scalar" THEN IsScalar(v)
                      ELSE /\ v.local \in Nat /\ IsValue(v.ty, v.value)
                           /\ Held(copied, v.local, v.ty, v.value)
  <2>1. v \in Operands(u)
    BY DEF u
  <2>2. v.ty = u /\ (u.kind = "scalar" => IsScalar(v)) /\ (u.kind # "scalar" => IsComposite(v, memory, Regions))
    BY <1>5, <2>1, OperandFacts
  <2>3. ASSUME u.kind # "scalar"
        PROVE  v.local \in Nat /\ IsValue(v.ty, v.value) /\ Held(copied, v.local, v.ty, v.value)
    <3>1. /\ v.local \in Nat /\ IsValue(v.ty, v.value) /\ Held(memory, v.local, v.ty, v.value)
          /\ IsValueType(v.ty)
      BY <2>2, <2>3 DEF IsComposite
    <3>2. PICK b \in Regions : Extent(v.local, v.ty) \subseteq b
      BY <2>2, <2>3 DEF IsComposite
    <3>3. Extent(v.local, v.ty) \cap Extent(block, t) = {}
      BY <1>12, <3>2
    <3> QED
      BY <1>14, <3>1, <3>3, HeldKept
  <2> QED
    BY <2>2, <2>3
<1>16. /\ Changes(copied, memory', Extent(at, u)) /\ IsMemory(memory', top)
       /\ Held(memory', at, u, v.value) /\ IsValue(u, v.value)
  <2>1. memory' = Store(copied, at, v)
    BY <1>2, <1>6, <1>7, <1>13 DEF copied
  <2>2. IsValueType(v.ty) /\ at + getTypeAllocSize(v.ty) <= top
    BY <1>5, <1>13, <1>15
  <2>3. /\ Changes(copied, memory', Extent(at, v.ty)) /\ IsMemory(memory', top)
        /\ Held(memory', at, v.ty, v.value) /\ IsValue(v.ty, v.value)
    BY <1>14, <1>15, <2>1, <2>2, StoreEffect
  <2> QED
    BY <1>15, <2>3
<1>17. Replacing(t, aggregate.value, u, k, v.value, value2)
  <2>1. DOMAIN v.value = 1 .. Len(u.widths)
    BY <1>16, SequenceFacts DEF IsValue
  <2>2. DOMAIN aggregate.value = 1 .. Len(t.widths)
    BY <1>14, SequenceFacts DEF IsValue
  <2>3. value2 = [i \in DOMAIN aggregate.value |->
                    IF i - l \in DOMAIN v.value THEN v.value[i - l] ELSE aggregate.value[i]]
    BY DEF value2, Replace, l
  <2>4. value2 = [i \in DOMAIN aggregate.value |-> value2[i]]
    BY <2>3
  <2>5. \A i \in 1 .. Len(t.widths) :
          value2[i] = IF i - k \in 1 .. Len(u.widths) THEN v.value[i - k] ELSE aggregate.value[i]
    BY <1>7, <2>1, <2>2, <2>3
  <2> QED
    BY <1>3, <1>5, <1>7, <1>14, <1>16, <2>4, <2>5 DEF Replacing
<1>18. /\ allocateStack(getTypeAllocSize(t)) /\ IsMemory(memory', block + getTypeAllocSize(t))
       /\ Changes(copied, memory', Extent(block + LeafOffset(t, k + 1), u))
       /\ Held(memory', block + LeafOffset(t, k + 1), u, v.value)
       /\ Execute /\ UNCHANGED objects /\ NewRegister(t, block, value2)
  BY <1>2, <1>10, <1>13, <1>16 DEF size, value2
<1> QED
  BY <1>3, <1>14, <1>17, <1>18, PartStep

\* Registers and objects are records.
AreRecords ==
  /\ \A r \in DOMAIN reg : reg[r] = Operand(reg[r].ty, reg[r].local, reg[r].value)
  /\ \A o \in DOMAIN objects :
       objects[o] = [ty |-> objects[o].ty, at |-> objects[o].at, value |-> objects[o].value]

LEMMA Products ==
  ASSUME NEW w \in Widths, NEW i \in Nat, NEW n \in Nat
  PROVE  n * w \in Nat /\ w \in Nat \ {0} /\ (i < n => i * w \in Nat /\ i * w + w <= n * w)
<1>1. w \in {1, 2, 4, 8}
  BY DEF Widths
<1>2. CASE w = 1
  BY <1>2
<1>3. CASE w = 2
  BY <1>3
<1>4. CASE w = 4
  BY <1>4
<1>5. CASE w = 8
  BY <1>5
<1> QED
  BY <1>1, <1>2, <1>3, <1>4, <1>5

\* The local variable of register r is replaced: its value is at a, too.
LEMMA RegisterMoved ==
  ASSUME AreRecords, NEW m, NEW R, NEW os, AreRegisters(reg, m, R, os), NEW r \in DOMAIN reg, NEW a \in Nat,
         IsValueType(reg[r].ty), reg[r].ty.kind # "scalar", IsValue(reg[r].ty, reg[r].value),
         \E b \in R : Extent(a, reg[r].ty) \subseteq b, Held(m, a, reg[r].ty, reg[r].value)
  PROVE  AreRegisters([reg EXCEPT ![r].local = a], m, R, os)
<1> DEFINE moved == [reg EXCEPT ![r].local = a]
<1>1. /\ IsSequence(reg) /\ DOMAIN reg = 1 .. Len(reg) /\ Len(reg) \in Nat
      /\ \A q \in DOMAIN reg : IsRegister(reg[q], m, R, os)
  BY SequenceFacts DEF AreRegisters
<1>2. /\ moved = [q \in 1 .. Len(reg) |-> moved[q]]
      /\ \A q \in 1 .. Len(reg) : q # r => moved[q] = reg[q]
  BY <1>1
<1>3. moved[r].ty = reg[r].ty /\ moved[r].local = a /\ moved[r].value = reg[r].value
  <2>1. reg[r] = [ty |-> reg[r].ty, local |-> reg[r].local, value |-> reg[r].value]
    BY DEF AreRecords, Operand
  <2> QED
    BY <2>1
<1> HIDE DEF moved
<1>4. IsRegister(moved[r], m, R, os)
  BY <1>3 DEF IsRegister, IsComposite
<1>5. IsSequence(moved) /\ DOMAIN moved = 1 .. Len(reg)
  BY <1>1, <1>2, FunctionIsSequence
<1>6. AreRegisters(moved, m, R, os)
  BY <1>1, <1>2, <1>4, <1>5 DEF AreRegisters
<1> QED
  BY <1>6 DEF moved

\* The operands of a shuffle can be read while the block A of the inputs is filled.
AreInputs(v1, v2, m, a, n, n2, w, A, both, top) ==
  /\ a \in Nat /\ n \in Nat \ {0} /\ n2 \in {0, n} /\ w \in Widths /\ top \in Nat
  /\ n = Len(v1.ty.widths) /\ v2.ty = v1.ty /\ w = Element(v1.ty)
  /\ A = a .. a + (n + n2) * w - 1 /\ a + (n + n2) * w <= top /\ IsMemory(m, top)
  /\ IsVectorOperand(v1, m, A) /\ IsVectorOperand(v2, m, A) /\ both = v1.value \o v2.value

\* Both operands of a shuffle are copied into one block.
LEMMA InputsCopied ==
  ASSUME NEW v1, NEW v2, NEW m, NEW a, NEW n, NEW n2, NEW w, NEW A, NEW both, NEW top,
         AreInputs(v1, v2, m, a, n, n2, w, A, both, top),
         NEW m2, m2 = Fill(m, a, w, w, [i \in 1 .. n + n2 |->
                        Copied(IF i <= n THEN ElementAt(v1, i) ELSE ElementAt(v2, i - n))])
  PROVE  /\ Changes(m, m2, A) /\ IsMemory(m2, top)
         /\ \A i \in 1 .. n + n2 : Holds(m2, a + (i - 1) * w, w, both[i])
<1>0. /\ a \in Nat /\ n \in Nat \ {0} /\ n2 \in {0, n} /\ w \in Widths /\ top \in Nat
      /\ n = Len(v1.ty.widths) /\ v2.ty = v1.ty /\ w = Element(v1.ty)
      /\ A = a .. a + (n + n2) * w - 1 /\ a + (n + n2) * w <= top /\ IsMemory(m, top)
      /\ IsVectorOperand(v1, m, A) /\ IsVectorOperand(v2, m, A) /\ both = v1.value \o v2.value
  BY DEF AreInputs
<1> DEFINE s == [i \in 1 .. n + n2 |->
                   Copied(IF i <= n THEN ElementAt(v1, i) ELSE ElementAt(v2, i - n))]
<1>1. PICK c \in Nat : c = n + n2
  BY <1>0
<1>2. /\ s = [i \in 1 .. c |-> s[i]]
      /\ \A i \in 1 .. c : s[i] = Copied(IF i <= n THEN ElementAt(v1, i) ELSE ElementAt(v2, i - n))
  BY <1>1
<1>3. m2 = Fill(m, a, w, w, s)
  OBVIOUS
<1> HIDE DEF s
<1>4. Len(s) = c
  BY <1>2, FunctionIsSequence
<1>5. /\ IsSequence(v1.value) /\ IsSequence(v2.value) /\ Len(v1.value) = n /\ Len(v2.value) = n
  BY <1>0 DEF IsVectorOperand, IsValue
<1>6. /\ \A i \in 1 .. n : both[i] = v1.value[i]
      /\ \A i \in n + 1 .. n + n : both[i] = v2.value[i - n]
  <2>1. PICK p, q : p = v1.value /\ q = v2.value
    OBVIOUS
  <2>2. IsSequence(p) /\ IsSequence(q) /\ Len(p) = n /\ Len(q) = n /\ both = p \o q
    BY <1>0, <1>5, <2>1
  <2>3. /\ \A i \in 1 .. Len(p) : (p \o q)[i] = p[i]
        /\ \A i \in Len(p) + 1 .. Len(p) + Len(q) : (p \o q)[i] = q[i - Len(p)]
    BY <2>2, ConcatFacts
  <2> QED
    BY <2>1, <2>2, <2>3
<1>7. ASSUME NEW i \in 1 .. c, NEW mi, Filling(m, mi, A, top)
      PROVE  /\ Compute(mi, w, s[i]) # Undef
             /\ both[i] \in {Undef, Compute(mi, w, s[i])}
  <2>1. CASE i <= n
    <3>1. i \in 1 .. n
      BY <1>0, <1>1, <2>1
    <3>2. s[i] = Copied(ElementAt(v1, i)) /\ both[i] = v1.value[i]
      BY <1>2, <1>6, <2>1, <3>1
    <3>3. Compute(mi, w, s[i]) = Load(mi, ElementAt(v1, i), w)
      BY <3>2, CopiedLoads
    <3>4. i \in 1 .. Len(v1.ty.widths)
      BY <1>0, <3>1
    <3>5. /\ Load(mi, ElementAt(v1, i), Element(v1.ty)) # Undef
          /\ v1.value[i] \in {Undef, Load(mi, ElementAt(v1, i), Element(v1.ty))}
      BY <1>0, <1>7, <3>4, ElementLoaded
    <3> QED
      BY <1>0, <3>2, <3>3, <3>5
  <2>2. CASE ~(i <= n)
    <3>1. PICK j \in 1 .. n : i = n + j
      <4>1. i - n \in 1 .. n /\ i = n + (i - n)
        BY <1>0, <1>1, <2>2
      <4> QED
        BY <4>1
    <3>2. s[i] = Copied(ElementAt(v2, j)) /\ both[i] = v2.value[j]
      <4>1. i - n = j /\ i \in n + 1 .. n + n
        BY <1>0, <3>1
      <4> QED
        BY <1>2, <1>6, <2>2, <4>1
    <3>3. Compute(mi, w, s[i]) = Load(mi, ElementAt(v2, j), w)
      BY <3>2, CopiedLoads
    <3>4. j \in 1 .. Len(v2.ty.widths)
      BY <1>0, <3>1
    <3>5. /\ Load(mi, ElementAt(v2, j), Element(v2.ty)) # Undef
          /\ v2.value[j] \in {Undef, Load(mi, ElementAt(v2, j), Element(v2.ty))}
      BY <1>0, <1>7, <3>4, ElementLoaded
    <3> QED
      BY <1>0, <3>2, <3>3, <3>5
  <2> QED
    BY <2>1, <2>2
<1>8. A = a .. a + c * w - 1 /\ a + c * w <= top
  BY <1>0, <1>1
<1>9. ComputesAll(m, a, w, w, s, both, top)
  BY <1>0, <1>4, <1>7, <1>8 DEF ComputesAll
<1>10. /\ Changes(m, m2, a .. a + Len(s) * w - 1) /\ IsMemory(m2, top)
       /\ \A i \in 1 .. Len(s) : Holds(m2, a + (i - 1) * w, w, both[i])
  BY <1>3, <1>9, FillEffect
<1> QED
  BY <1>1, <1>4, <1>8, <1>10

\* The mask picks numbers of the inputs, which lie below b.
IsPick(m, a, w, n, both, b, mask, c, value, top) ==
  /\ a \in Nat \ {0} /\ w \in Widths /\ n \in Nat /\ b \in Nat /\ c \in Nat /\ top \in Nat
  /\ \A i \in 1 .. n : Holds(m, a + (i - 1) * w, w, both[i])
  /\ a + n * w <= b /\ b + c * w <= top /\ IsMemory(m, top)
  /\ Len(mask) = c /\ DOMAIN mask = 1 .. c
  /\ \A i \in 1 .. c : mask[i] \in Int /\ mask[i] >= -1
  /\ \A i \in 1 .. c : value[i] = IF mask[i] \in 0 .. n - 1 THEN both[mask[i] + 1] ELSE Undef

LEMMA MaskPicks ==
  ASSUME NEW m, NEW a, NEW w, NEW n, NEW both, NEW b, NEW mask, NEW c, NEW value, NEW top,
         IsPick(m, a, w, n, both, b, mask, c, value, top),
         NEW m2, m2 = Fill(m, b, w, w, [i \in DOMAIN mask |->
                        Copied(IF mask[i] = -1 THEN 0 ELSE a + mask[i] * w)])
  PROVE  /\ Changes(m, m2, b .. b + c * w - 1) /\ IsMemory(m2, top)
         /\ \A i \in 1 .. c : Holds(m2, b + (i - 1) * w, w, value[i])
<1>0. /\ a \in Nat \ {0} /\ w \in Widths /\ n \in Nat /\ b \in Nat /\ c \in Nat /\ top \in Nat
      /\ \A i \in 1 .. n : Holds(m, a + (i - 1) * w, w, both[i])
      /\ a + n * w <= b /\ b + c * w <= top /\ IsMemory(m, top)
      /\ Len(mask) = c /\ DOMAIN mask = 1 .. c
      /\ \A i \in 1 .. c : mask[i] \in Int /\ mask[i] >= -1
      /\ \A i \in 1 .. c : value[i] = IF mask[i] \in 0 .. n - 1 THEN both[mask[i] + 1] ELSE Undef
  BY DEF IsPick
<1> DEFINE s == [i \in DOMAIN mask |-> Copied(IF mask[i] = -1 THEN 0 ELSE a + mask[i] * w)]
<1>1. /\ s = [i \in 1 .. c |-> s[i]]
      /\ \A i \in 1 .. c : s[i] = Copied(IF mask[i] = -1 THEN 0 ELSE a + mask[i] * w)
  BY <1>0
<1>2. m2 = Fill(m, b, w, w, s)
  OBVIOUS
<1> HIDE DEF s
<1>3. Len(s) = c
  BY <1>0, <1>1, FunctionIsSequence
<1>4. ASSUME NEW i \in 1 .. c, NEW mi, Filling(m, mi, b .. b + c * w - 1, top)
      PROVE  /\ Compute(mi, w, s[i]) # Undef
             /\ value[i] \in {Undef, Compute(mi, w, s[i])}
  <2>1. CASE mask[i] = -1
    <3>1. Compute(mi, w, s[i]) = Load(mi, 0, w)
      BY <1>0, <1>1, <2>1, CopiedLoads
    <3>2. Load(mi, 0, w) = Zero
      BY DEF Load
    <3>3. value[i] = Undef
      BY <1>0, <2>1
    <3> QED
      BY <1>0, <3>1, <3>2, <3>3, Tokens
  <2>2. CASE mask[i] # -1
    <3>1. PICK k \in Nat : k = mask[i]
      BY <1>0, <2>2
    <3>2. k * w \in Nat
      BY <1>0, Products
    <3>3. PICK at \in Nat \ {0} : at = a + k * w
      BY <1>0, <3>2
    <3>4. s[i] = Copied(at)
      BY <1>0, <1>1, <2>2, <3>1, <3>3
    <3>5. Compute(mi, w, s[i]) = Read(mi, at, w)
      <4>1. Compute(mi, w, s[i]) = Load(mi, at, w)
        BY <1>0, <3>4, CopiedLoads
      <4> QED
        BY <1>0, <4>1 DEF Load
    <3>6. Read(mi, at, w) # Undef
      BY <1>0, <1>4, ReadIsDefined DEF Filling
    <3>7. CASE k < n
      <4>0. mask[i] \in 0 .. n - 1
        BY <1>0, <3>1, <3>7
      <4>1. k + 1 \in 1 .. n /\ value[i] = both[k + 1] /\ (k + 1) - 1 = k
        BY <1>0, <3>1, <3>7, <4>0
      <4>2. Holds(m, at, w, both[k + 1])
        BY <1>0, <3>3, <4>1
      <4>3. k * w + w <= n * w /\ n * w \in Nat /\ w \in Nat
        BY <1>0, <3>7, Products
      <4>4. (at .. at + w - 1) \cap (b .. b + c * w - 1) = {}
        <5>1. at + w <= b
          <6>1. PICK p \in Nat, q \in Nat, z \in Nat :
                  z = w /\ p + z <= q /\ at = a + p /\ a + q <= b
            BY <1>0, <3>2, <3>3, <4>3
          <6> QED
            BY <1>0, <6>1
        <5>2. PICK d : d = b + c * w - 1
          OBVIOUS
        <5>3. ASSUME NEW x \in (at .. at + w - 1) \cap (b .. d) PROVE FALSE
          <6>1. w \in Nat /\ b \in Nat
            BY <1>0, <4>3
          <6> QED
            BY <5>1, <5>3, <6>1
        <5> QED
          BY <1>0, <5>2, <5>3
      <4>5. Changes(m, mi, b .. b + c * w - 1)
        BY <1>0, <1>4 DEF Filling
      <4>6. Holds(mi, at, w, both[k + 1])
        BY <1>0, <4>2, <4>4, <4>5, HoldsKept
      <4>7. both[k + 1] \in {Undef, Read(mi, at, w)}
        BY <1>0, <4>6, HoldsRead
      <4> QED
        BY <1>0, <3>5, <3>6, <4>1, <4>7
    <3>8. CASE ~(k < n)
      <4>1. value[i] = Undef
        BY <1>0, <3>1, <3>8
      <4> QED
        BY <1>0, <3>5, <3>6, <4>1
    <3> QED
      BY <1>0, <3>7, <3>8
  <2> QED
    BY <1>0, <2>1, <2>2
<1>5. ComputesAll(m, b, w, w, s, value, top)
  BY <1>0, <1>3, <1>4 DEF ComputesAll
<1>6. /\ Changes(m, m2, b .. b + Len(s) * w - 1) /\ IsMemory(m2, top)
      /\ \A i \in 1 .. Len(s) : Holds(m2, b + (i - 1) * w, w, value[i])
  BY <1>0, <1>2, <1>5, FillEffect
<1> QED
  BY <1>0, <1>3, <1>6

\* The numbers of a vector of type t lie one after the other from a on.
IsVectorAt(n, w, t, a, m, value) ==
  /\ n \in Nat \ {0} /\ w \in Widths /\ t = Vector(n, w) /\ a \in Nat
  /\ value = [i \in 1 .. n |-> value[i]]
  /\ \A i \in 1 .. n : value[i] # Junk /\ Holds(m, a + (i - 1) * w, w, value[i])

LEMMA VectorAtHolds ==
  ASSUME NEW n, NEW w, NEW t, NEW a, NEW m, NEW value, IsVectorAt(n, w, t, a, m, value)
  PROVE  /\ IsValueType(t) /\ t.kind = "vector" /\ IsValue(t, value) /\ Held(m, a, t, value)
         /\ Extent(a, t) = a .. a + n * w - 1
<1>1. /\ n \in Nat \ {0} /\ w \in Widths /\ t = Vector(n, w) /\ a \in Nat
      /\ value = [i \in 1 .. n |-> value[i]]
      /\ \A i \in 1 .. n : value[i] # Junk /\ Holds(m, a + (i - 1) * w, w, value[i])
  BY DEF IsVectorAt
<1>2. ASSUME NEW x, x = a PROVE
         /\ IsValueType(Vector(n, w)) /\ Vector(n, w).kind = "vector" /\ IsValue(Vector(n, w), value)
         /\ Held(m, x, Vector(n, w), value)
         /\ Extent(x, Vector(n, w)) = x .. x + n * w - 1
  BY <1>1, <1>2, VectorHeld
<1> QED
  BY <1>1, <1>2

\* The operands of a shuffle, as the action names them.
ShuffleStep(r, mask, v2, n, n2, w, both, value) ==
  /\ Execute
  /\ \A i \in DOMAIN mask : mask[i] < 2 * n
  /\ IF \A i \in DOMAIN mask : mask[i] = 0
     THEN /\ "zeroMask" \in Divergences \/ reg[r].value[1] \in {Undef, Zero}
          /\ VectorResult(w, w, [i \in DOMAIN mask |-> Copied(0)], value)
     ELSE LET size == (n + n2) * w
              inputs == Fill(memory, block, w, w, [i \in 1 .. n + n2 |->
                          Copied(IF i <= n THEN ElementAt(reg[r], i) ELSE ElementAt(v2, i - n))])
          IN /\ stack'  = Block2(size) + Len(mask) * w
             /\ blocks' = blocks \cup {block .. block + size - 1,
                                       Block2(size) .. Block2(size) + Len(mask) * w - 1}
             /\ memory' = Fill(inputs, Block2(size), w, w, [i \in DOMAIN mask |->
                            Copied(IF mask[i] = -1 THEN 0 ELSE block + mask[i] * w)])
             /\ reg' = Append([reg EXCEPT ![r].local = block],
                              Operand(Vector(Len(mask), w), Block2(size), value))
             /\ UNCHANGED objects

LEMMA MaskFacts ==
  ASSUME NEW mask \in Masks
  PROVE  /\ Len(mask) \in Nat \ {0} /\ DOMAIN mask = 1 .. Len(mask)
         /\ \A i \in DOMAIN mask : mask[i] \in Int /\ mask[i] >= -1
<1>1. mask \in Seq(Int) /\ mask # <<>> /\ \A i \in DOMAIN mask : mask[i] >= -1
  BY AggregatesAssumption DEF AggregatesAssumption
<1>2. Len(mask) \in Nat /\ DOMAIN mask = 1 .. Len(mask) /\ \A i \in DOMAIN mask : mask[i] \in Int
  BY <1>1
<1>3. Len(mask) # 0
  BY <1>1
<1> QED
  BY <1>1, <1>2, <1>3

LEMMA ShuffleOfRegisters ==
  ASSUME IInv, printShuffleVector
  PROVE  \E r \in Kind({"vector"}), mask \in Masks :
         \E v2 \in {reg[q] : q \in Of(reg[r].ty)} \cup {UndefOf(reg[r].ty)} :
         \E n, n2, w, both, value :
           /\ n = Len(reg[r].value) /\ n2 = (IF v2.local = 0 THEN 0 ELSE n) /\ w = Element(reg[r].ty)
           /\ both = reg[r].value \o v2.value
           /\ value = [i \in DOMAIN mask |-> IF mask[i] = -1 THEN Undef ELSE both[mask[i] + 1]]
           /\ ShuffleStep(r, mask, v2, n, n2, w, both, value)
<1> DEFINE N(r) == Len(reg[r].value)
           N2(r, v2) == IF v2.local = 0 THEN 0 ELSE N(r)
           W(r) == Element(reg[r].ty)
           B(r, v2) == reg[r].value \o v2.value
           V(r, mask, v2) == [i \in DOMAIN mask |-> IF mask[i] = -1 THEN Undef ELSE B(r, v2)[mask[i] + 1]]
<1>1. \E r \in Kind({"vector"}), mask \in Masks :
      \E v2 \in {reg[q] : q \in Of(reg[r].ty)} \cup {UndefOf(reg[r].ty)} :
        ShuffleStep(r, mask, v2, N(r), N2(r, v2), W(r), B(r, v2), V(r, mask, v2))
  BY DEF printShuffleVector, ShuffleStep, InputElements
<1>2. ASSUME NEW r, NEW mask, NEW v2, ShuffleStep(r, mask, v2, N(r), N2(r, v2), W(r), B(r, v2), V(r, mask, v2))
      PROVE  \E n, n2, w, both, value :
           /\ n = Len(reg[r].value) /\ n2 = (IF v2.local = 0 THEN 0 ELSE n) /\ w = Element(reg[r].ty)
           /\ both = reg[r].value \o v2.value
           /\ value = [i \in DOMAIN mask |-> IF mask[i] = -1 THEN Undef ELSE both[mask[i] + 1]]
           /\ ShuffleStep(r, mask, v2, n, n2, w, both, value)
  <2>1. PICK n, n2, w, both, value :
          n = N(r) /\ n2 = N2(r, v2) /\ w = W(r) /\ both = B(r, v2) /\ value = V(r, mask, v2)
    OBVIOUS
  <2>2. ShuffleStep(r, mask, v2, n, n2, w, both, value)
    BY <1>2, <2>1
  <2>3. /\ n = Len(reg[r].value) /\ n2 = (IF v2.local = 0 THEN 0 ELSE n) /\ w = Element(reg[r].ty)
        /\ both = reg[r].value \o v2.value
        /\ value = [i \in DOMAIN mask |-> IF mask[i] = -1 THEN Undef ELSE both[mask[i] + 1]]
    BY <2>1
  <2> QED
    BY <2>2, <2>3
<1> QED
  BY <1>1, <1>2

LEMMA ShuffleKeeps ==
  ASSUME IInv, AreRecords, printShuffleVector, "zeroMask" \notin Divergences
  PROVE  IInv' /\ WriteStays
<1>1. PICK r \in Kind({"vector"}), mask \in Masks :
         \E v2 \in {reg[q] : q \in Of(reg[r].ty)} \cup {UndefOf(reg[r].ty)} :
         \E n, n2, w, both, value :
           /\ n = Len(reg[r].value) /\ n2 = (IF v2.local = 0 THEN 0 ELSE n) /\ w = Element(reg[r].ty)
           /\ both = reg[r].value \o v2.value
           /\ value = [i \in DOMAIN mask |-> IF mask[i] = -1 THEN Undef ELSE both[mask[i] + 1]]
           /\ ShuffleStep(r, mask, v2, n, n2, w, both, value)
  BY ShuffleOfRegisters
<1>2. PICK v2 \in {reg[q] : q \in Of(reg[r].ty)} \cup {UndefOf(reg[r].ty)} :
         \E n, n2, w, both, value :
           /\ n = Len(reg[r].value) /\ n2 = (IF v2.local = 0 THEN 0 ELSE n) /\ w = Element(reg[r].ty)
           /\ both = reg[r].value \o v2.value
           /\ value = [i \in DOMAIN mask |-> IF mask[i] = -1 THEN Undef ELSE both[mask[i] + 1]]
           /\ ShuffleStep(r, mask, v2, n, n2, w, both, value)
  BY <1>1
<1>3. PICK n, n2, w, both, value :
           /\ n = Len(reg[r].value) /\ n2 = (IF v2.local = 0 THEN 0 ELSE n) /\ w = Element(reg[r].ty)
           /\ both = reg[r].value \o v2.value
           /\ value = [i \in DOMAIN mask |-> IF mask[i] = -1 THEN Undef ELSE both[mask[i] + 1]]
           /\ ShuffleStep(r, mask, v2, n, n2, w, both, value)
  BY <1>2
<1>4. PICK v1, t : v1 = reg[r] /\ t = v1.ty
  OBVIOUS
<1>5. /\ r \in DOMAIN reg /\ v1 \in Vectors
      /\ IsValueType(t) /\ t.kind = "vector" /\ IsComposite(v1, memory, Regions)
      /\ IsValue(t, v1.value) /\ v1.local \in Nat \ {0} /\ w \in Widths
      /\ n \in Nat \ {0} /\ n = Len(t.widths) /\ DOMAIN v1.value = 1 .. n
      /\ getTypeAllocSize(t) = n * w
      /\ \A i \in 1 .. n : t.widths[i] = w /\ LeafOffset(t, i) = (i - 1) * w
  <2>1. v1 \in Vectors /\ r \in DOMAIN reg
    BY <1>4 DEF Vectors, Kind
  <2>2. /\ IsValueType(t) /\ t.kind = "vector" /\ IsComposite(v1, memory, Regions)
        /\ IsValue(t, v1.value) /\ v1.local \in Nat \ {0} /\ Element(t) \in Widths
        /\ DOMAIN v1.value = 1 .. Len(t.widths) /\ Len(t.widths) \in Nat \ {0}
        /\ Len(v1.value) = Len(t.widths)
    BY <1>4, <2>1, VectorRegister
  <2> QED
    BY <1>3, <1>4, <2>1, <2>2, VectorFacts
<1>6. /\ Len(mask) \in Nat \ {0} /\ DOMAIN mask = 1 .. Len(mask)
      /\ \A i \in DOMAIN mask : mask[i] \in Int /\ mask[i] >= -1
  BY MaskFacts
<1>7. PICK c \in Nat \ {0} : c = Len(mask)
  BY <1>6
<1>8. /\ v2.ty = t /\ IsValue(t, v2.value) /\ n2 \in {0, n}
      /\ v2.local = 0 => n2 = 0 /\ \A i \in 1 .. n : v2.value[i] = Undef
      /\ v2.local # 0 => n2 = n
      /\ \A A : (\A b \in Regions : b \cap A = {}) => IsVectorOperand(v2, memory, A)
  <2>1. CASE v2 = UndefOf(t)
    <3>1. /\ v2.ty = t /\ v2.local = 0 /\ IsValue(t, v2.value)
          /\ \A i \in 1 .. Len(t.widths) : v2.value[i] = Undef
          /\ \A m, A : IsVectorOperand(v2, m, A)
      BY <1>5, <2>1, UndefOperand
    <3> QED
      BY <1>3, <1>5, <3>1
  <2>2. CASE v2 \in {reg[q] : q \in Of(t)}
    <3>1. PICK q \in DOMAIN reg : v2 = reg[q] /\ reg[q].ty = t
      BY <2>2 DEF Of
    <3>2. IsComposite(v2, memory, Regions) /\ v2.ty = t
      BY <1>5, <3>1, ValueRegister
    <3>3. v2.local # 0
      BY <3>2, CompositeNotNull
    <3>4. \A A : (\A b \in Regions : b \cap A = {}) => IsVectorOperand(v2, memory, A)
      BY <1>5, <3>2, VectorOperandFacts
    <3> QED
      BY <1>3, <3>2, <3>3, <3>4 DEF IsComposite
  <2> QED
    BY <1>4, <2>1, <2>2
<1>9. /\ \A i \in 1 .. n : both[i] = v1.value[i]
      /\ \A i \in n + 1 .. n + n : both[i] = v2.value[i - n]
      /\ \A i \in 1 .. n + n : both[i] # Junk
  <2>1. PICK p, q : p = v1.value /\ q = v2.value
    OBVIOUS
  <2>2. /\ IsSequence(p) /\ IsSequence(q) /\ Len(p) = n /\ Len(q) = n /\ both = p \o q
        /\ DOMAIN p = 1 .. n /\ DOMAIN q = 1 .. n
        /\ \A i \in 1 .. n : p[i] # Junk /\ q[i] # Junk
    BY <1>3, <1>4, <1>5, <1>8, <2>1, SequenceFacts DEF IsValue
  <2>3. /\ \A i \in 1 .. Len(p) : (p \o q)[i] = p[i]
        /\ \A i \in Len(p) + 1 .. Len(p) + Len(q) : (p \o q)[i] = q[i - Len(p)]
    BY <2>2, ConcatFacts
  <2>4. \A i \in n + 1 .. n + n : both[i] = q[i - n] /\ i - n \in 1 .. n
    BY <1>5, <2>2, <2>3
  <2>5. \A i \in 1 .. n + n : i \in 1 .. n \/ i \in n + 1 .. n + n
    BY <1>5
  <2>6. \A i \in 1 .. n : both[i] = p[i]
    BY <2>2, <2>3
  <2> QED
    BY <2>1, <2>2, <2>4, <2>5, <2>6
<1>10. /\ Execute
       /\ \A i \in 1 .. c : mask[i] \in Int /\ -1 <= mask[i] /\ mask[i] < 2 * n
  BY <1>3, <1>6, <1>7 DEF ShuffleStep
<1>11. /\ value = [i \in 1 .. c |-> value[i]]
       /\ \A i \in 1 .. c : value[i] = IF mask[i] = -1 THEN Undef ELSE both[mask[i] + 1]
  BY <1>3, <1>6, <1>7
<1>12. \A i \in 1 .. c : value[i] # Junk
  <2> SUFFICES ASSUME NEW i \in 1 .. c PROVE value[i] # Junk
    OBVIOUS
  <2>1. CASE mask[i] = -1
    BY <1>11, <2>1, Tokens
  <2>2. CASE mask[i] # -1
    <3>1. mask[i] + 1 \in 1 .. n + n
      BY <1>5, <1>10, <2>2
    <3> QED
      BY <1>9, <1>11, <2>2, <3>1
  <2> QED
    BY <2>1, <2>2
<1>13. CASE \A i \in DOMAIN mask : mask[i] = 0
  <2> DEFINE s == [i \in DOMAIN mask |-> Copied(0)]
  <2>1. VectorResult(w, w, s, value) /\ v1.value[1] \in {Undef, Zero}
    BY <1>3, <1>4, <1>13 DEF ShuffleStep
  <2>2. s = [i \in 1 .. c |-> s[i]] /\ \A i \in 1 .. c : s[i] = Copied(0)
    BY <1>6, <1>7
  <2> HIDE DEF s
  <2>3. Len(s) = c
    BY <2>2, FunctionIsSequence
  <2>4. ASSUME NEW i \in 1 .. c, NEW mi
        PROVE  Compute(mi, w, s[i]) # Undef /\ value[i] \in {Undef, Compute(mi, w, s[i])}
    <3>1. Compute(mi, w, s[i]) = Load(mi, 0, w)
      BY <2>2, CopiedLoads
    <3>2. Load(mi, 0, w) = Zero
      BY DEF Load
    <3>3. mask[i] = 0
      BY <1>6, <1>7, <1>13
    <3>4. value[i] = v1.value[1]
      <4>1. mask[i] + 1 = 1 /\ mask[i] # -1 /\ 1 \in 1 .. n
        BY <1>5, <3>3
      <4> QED
        BY <1>9, <1>11, <4>1
    <3> QED
      BY <2>1, <3>1, <3>2, <3>4, Tokens
  <2> QED
    BY <1>5, <1>10, <1>11, <1>12, <2>1, <2>3, <2>4, VectorResultKeeps
<1>14. CASE ~(\A i \in DOMAIN mask : mask[i] = 0)
  <2>1. PICK N \in Nat : N = n + n2
    BY <1>5, <1>8
  <2>2. PICK size \in Nat : size = N * w
    BY <1>5, <2>1, Products
  <2>3. PICK a, b2, inputs :
          /\ a = block /\ b2 = Block2(size)
          /\ inputs = Fill(memory, a, w, w, [i \in 1 .. n + n2 |->
                        Copied(IF i <= n THEN ElementAt(v1, i) ELSE ElementAt(v2, i - n))])
    OBVIOUS
  <2>4. /\ stack' = b2 + c * w
        /\ blocks' = blocks \cup {a .. a + size - 1, b2 .. b2 + c * w - 1}
        /\ memory' = Fill(inputs, b2, w, w, [i \in DOMAIN mask |->
                            Copied(IF mask[i] = -1 THEN 0 ELSE a + mask[i] * w)])
        /\ reg' = Append([reg EXCEPT ![r].local = a], Operand(Vector(c, w), b2, value))
        /\ objects' = objects
    BY <1>3, <1>4, <1>7, <1>14, <2>1, <2>2, <2>3 DEF ShuffleStep
  <2>5. /\ a \in Nat \ {0} /\ stack \in Nat \ {0} /\ stack <= a /\ IsMemory(memory, stack)
        /\ AreRegions(Regions, stack)
    BY <2>3, StateFacts
  <2>6. PICK top1 \in Nat : top1 = a + size
    BY <2>2, <2>5
  <2>7. b2 \in Nat /\ top1 <= b2
    <3>1. 8 \in Widths
      BY DEF Widths
    <3>2. AlignUp(top1, 8) \in Nat /\ top1 <= AlignUp(top1, 8)
      BY <3>1, AlignUpFacts
    <3> QED
      BY <2>3, <2>6, <3>2 DEF Block2
  <2>8. PICK size2 \in Nat : size2 = c * w
    BY <1>5, Products
  <2>9. PICK top2 \in Nat : top2 = b2 + size2
    BY <2>7
  <2> DEFINE A1 == a .. a + size - 1
             A2 == b2 .. b2 + size2 - 1
             R == Regions \cup {A1, A2}
  <2>10. /\ AreRegions(Regions \cup {A1}, top1) /\ \A b \in Regions : b \cap A1 = {}
    BY <2>5, <2>6, FreshBlock
  <2>11. AreRegions(R, top2) /\ \A b \in Regions \cup {A1} : b \cap A2 = {}
    <3>1. PICK S : S = Regions \cup {A1}
      OBVIOUS
    <3>2. top1 \in Nat \ {0} /\ AreRegions(S, top1)
      BY <2>5, <2>6, <2>10, <3>1
    <3>3. AreRegions(S \cup {b2 .. b2 + size2 - 1}, b2 + size2) /\ \A b \in S : b \cap (b2 .. b2 + size2 - 1) = {}
      BY <2>7, <3>2, FreshBlock
    <3>4. S \cup {A2} = R
      BY <3>1
    <3> HIDE DEF A1, R
    <3> QED
      BY <2>9, <3>1, <3>3, <3>4
  <2>12. IsMemory(memory, top1)
    <3>1. stack <= top1
      BY <2>5, <2>6
    <3> QED
      BY <2>5, <3>1, MemoryGrows
  <2>13. /\ Changes(memory, inputs, A1) /\ IsMemory(inputs, top1)
         /\ \A i \in 1 .. N : Holds(inputs, a + (i - 1) * w, w, both[i])
    <3>1. IsVectorOperand(v1, memory, A1)
      BY <1>4, <1>5, <2>10, VectorOperandFacts
    <3>2. IsVectorOperand(v2, memory, A1)
      BY <1>8, <2>10
    <3>3. A1 = a .. a + (n + n2) * w - 1 /\ a + (n + n2) * w <= top1
      BY <2>1, <2>2, <2>5, <2>6
    <3> HIDE DEF A1
    <3>4. AreInputs(v1, v2, memory, a, n, n2, w, A1, both, top1)
      BY <1>3, <1>4, <1>5, <1>8, <2>5, <2>12, <3>1, <3>2, <3>3 DEF AreInputs
    <3>6. /\ Changes(memory, inputs, A1) /\ IsMemory(inputs, top1)
          /\ \A i \in 1 .. n + n2 : Holds(inputs, a + (i - 1) * w, w, both[i])
      BY <2>3, <3>4, InputsCopied
    <3> QED
      BY <2>1, <3>6
  <2>14. IsMemory(inputs, top2)
    <3>1. top1 <= top2
      BY <2>7, <2>9
    <3> QED
      BY <2>13, <3>1, MemoryGrows
  <2>15. \A i \in 1 .. c : value[i] = IF mask[i] \in 0 .. N - 1 THEN both[mask[i] + 1] ELSE Undef
    <3> SUFFICES ASSUME NEW i \in 1 .. c
                 PROVE  value[i] = IF mask[i] \in 0 .. N - 1 THEN both[mask[i] + 1] ELSE Undef
      OBVIOUS
    <3>1. CASE mask[i] = -1
      BY <1>11, <3>1
    <3>2. CASE mask[i] # -1 /\ mask[i] \notin 0 .. N - 1
      <4>1. n2 = 0 /\ mask[i] >= n /\ mask[i] < 2 * n
        BY <1>5, <1>8, <1>10, <2>1, <3>2
      <4>2. v2.local = 0
        BY <1>5, <1>8, <4>1
      <4>3. PICK k \in 1 .. n : mask[i] + 1 = n + k
        <5>1. n \in Nat /\ mask[i] \in Int
          BY <1>5, <1>10
        <5> QED
          BY <4>1, <5>1, Beyond
      <4>4. PICK j : j = mask[i] + 1
        OBVIOUS
      <4>5. j \in n + 1 .. n + n /\ j - n = k
        BY <1>5, <4>3, <4>4
      <4>6. both[j] = v2.value[k] /\ v2.value[k] = Undef
        BY <1>8, <1>9, <4>2, <4>5
      <4> QED
        BY <1>11, <3>2, <4>4, <4>6
    <3>3. CASE mask[i] # -1 /\ mask[i] \in 0 .. N - 1
      BY <1>11, <3>3
    <3> QED
      BY <3>1, <3>2, <3>3
  <2>16. /\ Changes(inputs, memory', A2) /\ IsMemory(memory', top2)
         /\ \A i \in 1 .. c : Holds(memory', b2 + (i - 1) * w, w, value[i])
    <3>1. a + N * w <= b2 /\ b2 + c * w <= top2 /\ A2 = b2 .. b2 + c * w - 1
      BY <2>2, <2>6, <2>7, <2>8, <2>9
    <3>2. /\ Len(mask) = c /\ DOMAIN mask = 1 .. c /\ c \in Nat
          /\ \A i \in 1 .. c : mask[i] \in Int /\ mask[i] >= -1
      BY <1>6, <1>7
    <3>3. PICK m2 : m2 = memory'
      OBVIOUS
    <3>4. m2 = Fill(inputs, b2, w, w, [i \in DOMAIN mask |->
                            Copied(IF mask[i] = -1 THEN 0 ELSE a + mask[i] * w)])
      BY <2>4, <3>3
    <3> HIDE DEF A2, A1, R
    <3>5. IsPick(inputs, a, w, N, both, b2, mask, c, value, top2)
      BY <1>5, <2>5, <2>7, <2>13, <2>14, <2>15, <3>1, <3>2 DEF IsPick
    <3>6. /\ Changes(inputs, m2, b2 .. b2 + c * w - 1) /\ IsMemory(m2, top2)
          /\ \A i \in 1 .. c : Holds(m2, b2 + (i - 1) * w, w, value[i])
      BY <3>4, <3>5, MaskPicks
    <3> QED
      BY <3>1, <3>3, <3>6
  <2>17. Changes(memory, memory', A1 \cup A2)
    <3>1. A1 \subseteq A1 \cup A2 /\ A2 \subseteq A1 \cup A2
      OBVIOUS
    <3> HIDE DEF A1, A2
    <3> QED
      BY <2>13, <2>16, <3>1, ChangesCompose
  <2>18. \E b \in R : Extent(a, t) \subseteq b
    <3>1. n * w \in Nat /\ n * w <= size
      BY <1>5, <1>8, <2>1, <2>2 DEF Widths
    <3>2. a .. a + n * w - 1 \subseteq A1
      BY <2>5, <3>1
    <3> QED
      BY <1>5, <3>2 DEF Extent
  <2>19. Held(memory', a, t, v1.value)
    <3>1. ASSUME NEW i \in 1 .. n PROVE Holds(inputs, a + LeafOffset(t, i), t.widths[i], v1.value[i])
      <4>1. i \in 1 .. N
        BY <1>5, <1>8, <2>1
      <4> QED
        BY <1>5, <1>9, <2>13, <4>1
    <3>2. Held(inputs, a, t, v1.value)
      BY <1>5, <3>1, TypeFacts DEF Held
    <3>3. Extent(a, t) \cap A2 = {}
      <4>1. n * w \in Nat /\ n * w <= size
        BY <1>5, <1>8, <2>1, <2>2 DEF Widths
      <4>2. Extent(a, t) = a .. a + n * w - 1
        BY <1>5 DEF Extent
      <4>3. PICK s \in Nat : s = n * w /\ s <= size
        BY <4>1
      <4>4. (a .. a + s - 1) \cap (b2 .. b2 + size2 - 1) = {}
        <5> HIDE DEF A1, A2, R
        <5> QED
          BY <2>5, <2>6, <2>7, <4>3
      <4> QED
        BY <4>2, <4>3, <4>4
    <3> HIDE DEF A1, A2, R
    <3> QED
      BY <1>5, <2>5, <2>16, <3>2, <3>3, HeldKept
  <2>20. ASSUME AreRegisters(reg, memory', R, objects)
         PROVE  AreRegisters(reg', memory', R, objects)
    <3> DEFINE moved == [reg EXCEPT ![r].local = a]
               v == Operand(Vector(c, w), b2, value)
    <3> HIDE DEF A1, A2, R
    <3>1. AreRegisters(moved, memory', R, objects)
      <4>1. PICK m : m = memory'
        OBVIOUS
      <4>2. /\ AreRegisters(reg, m, R, objects) /\ Held(m, a, reg[r].ty, reg[r].value)
            /\ IsValueType(reg[r].ty) /\ reg[r].ty.kind # "scalar" /\ IsValue(reg[r].ty, reg[r].value)
            /\ \E b \in R : Extent(a, reg[r].ty) \subseteq b
            /\ a \in Nat /\ r \in DOMAIN reg
        BY <1>4, <1>5, <2>5, <2>18, <2>19, <2>20, <4>1
      <4>3. AreRegisters([reg EXCEPT ![r].local = a], m, R, objects)
        BY <4>2, RegisterMoved
      <4> QED
        BY <4>1, <4>3
    <3>2. v.ty = Vector(c, w) /\ v.local = b2 /\ v.value = value
      BY DEF Operand
    <3>3. reg' = Append(moved, v)
      BY <2>4
    <3> HIDE DEF moved, v
    <3>4. IsRegister(v, memory', R, objects)
      <4>1. PICK m, u : m = memory' /\ u = Vector(c, w)
        OBVIOUS
      <4>2. \A i \in 1 .. c : value[i] # Junk /\ Holds(m, b2 + (i - 1) * w, w, value[i])
        BY <1>12, <2>16, <4>1
      <4>3. /\ IsValueType(u) /\ u.kind = "vector" /\ IsValue(u, value) /\ Held(m, b2, u, value)
            /\ Extent(b2, u) = b2 .. b2 + c * w - 1
        <5>1. /\ c \in Nat \ {0} /\ w \in Widths /\ b2 \in Nat /\ u = Vector(c, w)
              /\ value = [i \in 1 .. c |-> value[i]]
          BY <1>5, <1>11, <2>7, <4>1
        <5> QED
          BY <4>2, <5>1, VectorAtHolds DEF IsVectorAt
      <4>4. Extent(b2, u) = A2 /\ A2 \in R
        BY <2>8, <4>3 DEF A2, R
      <4> QED
        BY <2>7, <3>2, <4>1, <4>3, <4>4 DEF IsRegister, IsComposite
    <3> QED
      BY <3>1, <3>3, <3>4, RegisterAppended
  <2>21. /\ blocks' = blocks \cup {A1, A2} /\ stack' = top2
         /\ \A b \in Regions : b \cap (A1 \cup A2) = {}
         /\ A1 \cup A2 \subseteq UNION {A1, A2}
    <3>1. blocks' = blocks \cup {A1, A2} /\ stack' = top2
      BY <2>4, <2>8, <2>9
    <3> HIDE DEF A1, A2
    <3> QED
      BY <2>10, <2>11, <3>1
  <2>22. stack <= stack' /\ stack' \in Nat
    BY <2>5, <2>6, <2>7, <2>9, <2>21
  <2>23. PICK fresh, A : fresh = {A1, A2} /\ A = A1 \cup A2
    OBVIOUS
  <2> HIDE DEF A1, A2
  <2>24. /\ blocks' = blocks \cup fresh /\ AreRegions(Regions \cup fresh, stack')
         /\ A \subseteq UNION fresh /\ \A b \in Regions : b \cap A = {}
         /\ Changes(memory, memory', A) /\ IsMemory(memory', stack') /\ objects' = objects
         /\ AreRegisters(reg, memory', Regions \cup fresh, objects)
              => AreRegisters(reg', memory', Regions \cup fresh, objects)
    BY <2>4, <2>11, <2>16, <2>17, <2>20, <2>21, <2>23
  <2> QED
    BY <1>10, <2>22, <2>24, AllocatingStep
<1> QED
  BY <1>13, <1>14

-----------------------------------------------------------------------------
(* Packed operands. *)

LEMMA PackEffect ==
  ASSUME NEW cursor, NEW m, cursor.memory = m, NEW a \in Nat, cursor.addr = a, NEW w \in Widths,
         NEW token, token # Undef, NEW packed, packed = pack(cursor, w, token),
         NEW top \in Nat, IsMemory(m, top), packed.addr <= top
  PROVE  \E at \in Nat :
           /\ at = AlignUp(a, w) /\ a <= at /\ packed.addr = at + w
           /\ Changes(m, packed.memory, at .. at + w - 1) /\ IsMemory(packed.memory, top)
           /\ Holds(packed.memory, at, w, token)
<1>1. PICK at \in Nat : at = AlignUp(a, w) /\ a <= at
  BY AlignUpFacts
<1>2. packed.memory = Write(m, at, w, token) /\ packed.addr = at + w
  BY <1>1 DEF pack
<1>3. /\ Changes(m, packed.memory, at .. at + w - 1) /\ IsMemory(packed.memory, top)
      /\ Holds(packed.memory, at, w, token)
  BY <1>2, WriteEffect
<1> QED
  BY <1>1, <1>2, <1>3

LEMMA PackAddress ==
  ASSUME NEW cursor, NEW a \in Nat, cursor.addr = a, NEW w \in Widths, NEW token
  PROVE  /\ pack(cursor, w, token).addr = AlignUp(a, w) + w
         /\ pack(cursor, w, token).addr \in Nat /\ a <= pack(cursor, w, token).addr
<1>1. pack(cursor, w, token).addr = AlignUp(a, w) + w
  BY DEF pack
<1>2. PICK at \in Nat : at = AlignUp(a, w) /\ a <= at
  BY AlignUpFacts
<1>3. w \in Nat
  BY DEF Widths
<1>4. at + w \in Nat /\ a <= at + w
  BY <1>2, <1>3
<1> QED
  BY <1>1, <1>2, <1>4

\* What a register is packed as.
LEMMA OperandIsPacked ==
  ASSUME IInv, NEW r \in DOMAIN reg
  PROVE  /\ Width(reg[r]) \in Widths /\ AllocSize(reg[r]) \in Nat
         /\ PackedToken(reg[r]) # Undef
<1>1. CASE reg[r].ty.kind = "pointer"
  <2>1. reg[r].ty.kind # "scalar"
    BY <1>1
  <2>2. Width(reg[r]) = 8 /\ AllocSize(reg[r]) = 8 /\ PackedToken(reg[r]) = <<Address, reg[r].local>>
    BY <1>1, <2>1 DEF Width, AllocSize, PackedToken
  <2> QED
    BY <2>2, Tokens DEF Widths
<1>2. CASE reg[r].ty.kind # "pointer"
  <2>1. /\ IsValueType(reg[r].ty)
        /\ reg[r].ty.kind = "scalar" => IsScalar(reg[r])
    BY <1>2, ValueRegister
  <2>2. AllocSize(reg[r]) \in Nat
    BY <1>2, <2>1, Layout DEF AllocSize
  <2>3. CASE reg[r].ty.kind = "scalar"
    <3>1. reg[r].ty.widths[1] \in Widths
      BY <2>1, <2>3, TypeFacts
    <3> QED
      BY <2>1, <2>2, <2>3, <3>1 DEF Width, PackedToken, Element, Leaves, IsScalar
  <2>4. CASE reg[r].ty.kind # "scalar"
    <3>1. Width(reg[r]) = 8 /\ PackedToken(reg[r]) = <<Address, reg[r].local>>
      BY <2>4 DEF Width, PackedToken
    <3> QED
      BY <2>2, <3>1, Tokens DEF Widths
  <2> QED
    BY <2>3, <2>4
<1> QED
  BY <1>1, <1>2

\* What is read where an operand was packed.
Unpacked(v, m, a) == LET x == Read(m, a, Width(v))
                     IN IF v.ty.kind = "scalar" THEN x ELSE AddressIn(x)

LEMMA UnpackedIsOperand ==
  ASSUME NEW v, Width(v) \in Widths, PackedToken(v) # Undef, NEW a \in Nat, NEW m,
         Holds(m, a, Width(v), PackedToken(v))
  PROVE  Unpacked(v, m, a) = v.local
<1>1. PICK w \in Widths : w = Width(v)
  OBVIOUS
<1>2. PackedToken(v) \in {Undef, Read(m, a, w)}
  BY <1>1, HoldsRead
<1>3. Read(m, a, Width(v)) = PackedToken(v)
  BY <1>1, <1>2
<1>4. CASE v.ty.kind = "scalar"
  BY <1>3, <1>4 DEF Unpacked, PackedToken
<1>5. CASE v.ty.kind # "scalar"
  <2>1. PICK x : x = <<Address, v.local>>
    OBVIOUS
  <2>2. Unpacked(v, m, a) = AddressIn(x)
    BY <1>3, <1>5, <2>1 DEF Unpacked, PackedToken
  <2>3. x[1] = Address /\ x[2] = v.local
    BY <2>1
  <2> QED
    BY <2>2, <2>3 DEF AddressIn
<1> QED
  BY <1>4, <1>5

LEMMA RegistersAppended ==
  ASSUME NEW rs, NEW m, NEW R, NEW os, AreRegisters(rs, m, R, os),
         NEW new, IsSequence(new), \A i \in DOMAIN new : IsRegister(new[i], m, R, os)
  PROVE  AreRegisters(rs \o new, m, R, os)
<1>1. /\ IsSequence(rs) /\ Len(rs) \in Nat /\ DOMAIN rs = 1 .. Len(rs)
      /\ Len(new) \in Nat /\ DOMAIN new = 1 .. Len(new)
      /\ \A r \in DOMAIN rs : IsRegister(rs[r], m, R, os)
  BY SequenceFacts DEF AreRegisters
<1>2. /\ IsSequence(rs \o new) /\ DOMAIN (rs \o new) = 1 .. Len(rs) + Len(new)
      /\ \A i \in 1 .. Len(rs) : (rs \o new)[i] = rs[i]
      /\ \A i \in Len(rs) + 1 .. Len(rs) + Len(new) : (rs \o new)[i] = new[i - Len(rs)]
  BY <1>1, ConcatFacts
<1>3. ASSUME NEW i \in 1 .. Len(rs) + Len(new) PROVE IsRegister((rs \o new)[i], m, R, os)
  <2>1. CASE i <= Len(rs)
    <3>1. i \in 1 .. Len(rs)
      BY <1>1, <2>1
    <3> QED
      BY <1>1, <1>2, <3>1
  <2>2. CASE ~(i <= Len(rs))
    <3>1. i \in Len(rs) + 1 .. Len(rs) + Len(new) /\ i - Len(rs) \in 1 .. Len(new)
      BY <1>1, <2>2
    <3> QED
      BY <1>1, <1>2, <3>1
  <2> QED
    BY <2>1, <2>2
<1> QED
  BY <1>2, <1>3 DEF AreRegisters

LEMMA OperandPackKeeps ==
  ASSUME IInv, printOperandPack, "mixedOperands" \notin Divergences
  PROVE  IInv' /\ WriteStays
<1>1. PICK r1 \in DOMAIN reg, r2 \in DOMAIN reg :
        LET vs == <<reg[r1], reg[r2]>>
            widths == [i \in 1..2 |-> Width(vs[i])]
            size == AllocSize(vs[1]) + AllocSize(vs[2])
            packed == pack(pack([memory |-> memory, addr |-> block], widths[1], PackedToken(vs[1])),
                           widths[2], PackedToken(vs[2]))
            unpacked(i) == LET x == Read(packed.memory, unpackAt(block, widths, i), widths[i])
                           IN IF vs[i].ty.kind = "scalar" THEN x ELSE AddressIn(x)
        IN
        /\ Execute
        /\ "mixedOperands" \in Divergences \/ packed.addr <= block + size
        /\ allocateStack(size)
        /\ memory' = packed.memory
        /\ reg' = reg \o [i \in 1..2 |-> Operand(vs[i].ty, unpacked(i), vs[i].value)]
        /\ UNCHANGED objects
  BY ZenonT(60) DEF printOperandPack
<1>2. PICK v1, v2 : v1 = reg[r1] /\ v2 = reg[r2]
  OBVIOUS
<1>3. PICK w1 \in Widths, w2 \in Widths : w1 = Width(v1) /\ w2 = Width(v2)
  BY <1>2, OperandIsPacked
<1>4. PICK x1, x2 : x1 = PackedToken(v1) /\ x2 = PackedToken(v2) /\ x1 # Undef /\ x2 # Undef
  BY <1>2, OperandIsPacked
<1>5. PICK size \in Nat : size = AllocSize(v1) + AllocSize(v2)
  <2>1. AllocSize(v1) \in Nat /\ AllocSize(v2) \in Nat
    BY <1>2, OperandIsPacked
  <2> QED
    BY <2>1
<1>6. PICK c0, c1, c2 : /\ c0 = [memory |-> memory, addr |-> block]
                        /\ c1 = pack(c0, w1, x1) /\ c2 = pack(c1, w2, x2)
  OBVIOUS
<1> DEFINE vs == <<reg[r1], reg[r2]>>
           widths == [i \in 1..2 |-> Width(vs[i])]
           unpacked(i) == LET x == Read(c2.memory, unpackAt(block, widths, i), widths[i])
                          IN IF vs[i].ty.kind = "scalar" THEN x ELSE AddressIn(x)
           new == [i \in 1..2 |-> Operand(vs[i].ty, unpacked(i), vs[i].value)]
<1>7. vs[1] = v1 /\ vs[2] = v2 /\ widths[1] = w1 /\ widths[2] = w2
  BY <1>2, <1>3
<1>8. /\ Execute /\ c2.addr <= block + size /\ allocateStack(size) /\ memory' = c2.memory
      /\ reg' = reg \o new /\ objects' = objects
  <2>1. c2 = pack(pack([memory |-> memory, addr |-> block], widths[1], PackedToken(vs[1])),
                  widths[2], PackedToken(vs[2]))
    BY <1>4, <1>6, <1>7
  <2>2. size = AllocSize(vs[1]) + AllocSize(vs[2])
    BY <1>5, <1>7
  <2> QED
    BY <1>1, <2>1, <2>2
<1>9. /\ block \in Nat \ {0} /\ stack \in Nat \ {0} /\ stack <= block
      /\ IsMemory(memory, stack) /\ AreRegions(Regions, stack)
      /\ AreRegisters(reg, memory, Regions, objects)
  BY StateFacts
<1>10. PICK a \in Nat, top \in Nat : a = block /\ top = block + size /\ stack <= top
  <2>1. block \in Nat /\ block + size \in Nat /\ stack <= block + size
    BY <1>9
  <2> QED
    BY <2>1
<1>11. IsMemory(memory, top)
  BY <1>9, <1>10, MemoryGrows
<1>12. c0.memory = memory /\ c0.addr = a
  BY <1>6, <1>10
<1>13. PICK e1 \in Nat, e2 \in Nat : c1.addr = e1 /\ c2.addr = e2 /\ e1 <= e2 /\ e2 <= top
  <2>1. c1.addr \in Nat
    BY <1>6, <1>12, PackAddress
  <2>2. PICK e1 \in Nat : c1.addr = e1
    BY <2>1
  <2>3. c2.addr \in Nat /\ e1 <= c2.addr
    BY <1>6, <2>2, PackAddress
  <2> QED
    BY <1>8, <1>10, <2>2, <2>3
<1>14. PICK m1, m2 : m1 = c1.memory /\ m2 = c2.memory
  OBVIOUS
<1>15. PICK a1 \in Nat :
         /\ a1 = AlignUp(a, w1) /\ a <= a1 /\ e1 = a1 + w1
         /\ Changes(memory, m1, a1 .. a1 + w1 - 1) /\ IsMemory(m1, top) /\ Holds(m1, a1, w1, x1)
  <2>1. c1.addr <= top
    BY <1>13
  <2>2. PICK at \in Nat :
           /\ at = AlignUp(a, w1) /\ a <= at /\ c1.addr = at + w1
           /\ Changes(memory, c1.memory, at .. at + w1 - 1) /\ IsMemory(c1.memory, top)
           /\ Holds(c1.memory, at, w1, x1)
    BY <1>4, <1>6, <1>11, <1>12, <2>1, PackEffect
  <2> QED
    BY <1>13, <1>14, <2>2
<1>16. PICK a2 \in Nat :
         /\ a2 = AlignUp(e1, w2) /\ e1 <= a2 /\ e2 = a2 + w2
         /\ Changes(m1, m2, a2 .. a2 + w2 - 1) /\ IsMemory(m2, top) /\ Holds(m2, a2, w2, x2)
  <2>1. c2.addr <= top
    BY <1>13
  <2>2. PICK at \in Nat :
           /\ at = AlignUp(e1, w2) /\ e1 <= at /\ c2.addr = at + w2
           /\ Changes(m1, c2.memory, at .. at + w2 - 1) /\ IsMemory(c2.memory, top)
           /\ Holds(c2.memory, at, w2, x2)
    BY <1>4, <1>6, <1>13, <1>14, <1>15, <2>1, PackEffect
  <2> QED
    BY <1>13, <1>14, <2>2
<1>17. w1 \in Nat \ {0} /\ w2 \in Nat \ {0}
  BY DEF Widths
<1>18. Holds(m2, a1, w1, x1)
  <2>1. (a1 .. a1 + w1 - 1) \cap (a2 .. a2 + w2 - 1) = {}
    BY <1>15, <1>16, <1>17
  <2> QED
    BY <1>15, <1>16, <2>1, HoldsKept
<1> DEFINE A == block .. block + size - 1
           R == Regions \cup {A}
<1>19. Changes(memory, m2, A)
  <2>1. a1 .. a1 + w1 - 1 \subseteq A
    BY <1>10, <1>13, <1>15, <1>17
  <2>2. a2 .. a2 + w2 - 1 \subseteq A
    <3>1. a <= a2 /\ a2 + w2 <= top
      BY <1>13, <1>15, <1>16, <1>17
    <3> QED
      BY <1>10, <1>17, <3>1
  <2>3. PICK A1, A2 : A1 = a1 .. a1 + w1 - 1 /\ A2 = a2 .. a2 + w2 - 1
    OBVIOUS
  <2>4. /\ Changes(memory, m1, A1) /\ Changes(m1, m2, A2) /\ A1 \subseteq A /\ A2 \subseteq A
    BY <1>15, <1>16, <2>1, <2>2, <2>3
  <2> HIDE DEF A
  <2> QED
    BY <2>4, ChangesCompose
<1>20. AreRegions(R, top) /\ \A b \in Regions : b \cap A = {}
  BY <1>9, <1>10, FreshBlock
<1>21. unpacked(1) = v1.local /\ unpacked(2) = v2.local
  <2>1. /\ unpackAt(block, widths, 1) = a1 /\ unpackAt(block, widths, 2) = a2
    <3> HIDE DEF widths
    <3>1. unpackAt(block, widths, 1) = AlignUp(block, widths[1])
      BY DEF unpackAt
    <3>2. unpackAt(block, widths, 2) = AlignUp(AlignUp(block, widths[1]) + widths[1], widths[2])
      BY DEF unpackAt
    <3> QED
      BY <1>7, <1>10, <1>15, <1>16, <3>1, <3>2
  <2>2. unpacked(1) = Unpacked(v1, m2, a1) /\ unpacked(2) = Unpacked(v2, m2, a2)
    <3> HIDE DEF widths, vs
    <3> QED
      BY <1>3, <1>7, <1>14, <2>1 DEF Unpacked
  <2>3. Unpacked(v1, m2, a1) = v1.local
    BY <1>3, <1>4, <1>18, UnpackedIsOperand
  <2>4. Unpacked(v2, m2, a2) = v2.local
    BY <1>3, <1>4, <1>16, UnpackedIsOperand
  <2> QED
    BY <2>2, <2>3, <2>4
<1>22. /\ new = [i \in 1 .. 2 |-> new[i]]
       /\ new[1] = Operand(v1.ty, v1.local, v1.value) /\ new[2] = Operand(v2.ty, v2.local, v2.value)
  <2> HIDE DEF vs, unpacked
  <2> QED
    BY <1>7, <1>21
<1> HIDE DEF new, R, A
<1>23. ASSUME AreRegisters(reg, memory', R, objects)
       PROVE  AreRegisters(reg', memory', R, objects)
  <2>1. ASSUME NEW v, IsRegister(v, m2, R, objects)
        PROVE  IsRegister(Operand(v.ty, v.local, v.value), m2, R, objects)
    <3>1. PICK q : q = Operand(v.ty, v.local, v.value)
      OBVIOUS
    <3>2. q.ty = v.ty /\ q.local = v.local /\ q.value = v.value
      BY <3>1 DEF Operand
    <3> QED
      BY <2>1, <3>1, <3>2 DEF IsRegister, IsPointer, IsScalar, IsComposite
  <2>2. IsRegister(v1, m2, R, objects) /\ IsRegister(v2, m2, R, objects)
    BY <1>2, <1>8, <1>14, <1>23 DEF AreRegisters
  <2>3. IsSequence(new) /\ DOMAIN new = 1 .. 2
    BY <1>22, FunctionIsSequence
  <2>4. \A i \in 1 .. 2 : i = 1 \/ i = 2
    OBVIOUS
  <2>5. \A i \in DOMAIN new : IsRegister(new[i], m2, R, objects)
    BY <1>22, <2>1, <2>2, <2>3, <2>4
  <2> QED
    BY <1>8, <1>14, <1>23, <2>3, <2>5, RegistersAppended
<1>24. PICK fresh : fresh = {A}
  OBVIOUS
<1>25. /\ stack' = top /\ blocks' = blocks \cup fresh /\ A \subseteq UNION fresh
       /\ AreRegions(Regions \cup fresh, stack') /\ memory' = m2
       /\ AreRegisters(reg, memory', Regions \cup fresh, objects)
            => AreRegisters(reg', memory', Regions \cup fresh, objects)
  BY <1>8, <1>10, <1>14, <1>20, <1>23, <1>24 DEF allocateStack, A, R
<1>26. /\ Changes(memory, memory', A) /\ IsMemory(memory', stack') /\ stack <= stack' /\ stack' \in Nat
       /\ \A b \in Regions : b \cap A = {}
  BY <1>10, <1>16, <1>19, <1>20, <1>25
<1> QED
  BY <1>8, <1>25, <1>26, AllocatingStep

-----------------------------------------------------------------------------
(* Stores. *)

\* A store of v to an object which no register that is a composite value shares.
StoreStep(p, v, t, o, k) ==
  /\ Execute
  /\ "aggregateStore" \in Divergences \/ t.kind \in {"vector", "scalar"}
  /\ "storeAfterLoad" \in Divergences \/ ~Shared(objects[o])
  /\ memory' = CASE t.kind = "scalar" -> Write(memory, p.local, Leaves(t)[1], v.local)
                 [] t.kind = "vector" -> Fill(memory, p.local, Leaves(t)[1], Leaves(t)[1],
                                              [i \in DOMAIN Leaves(t) |-> Copied(ElementAt(v, i))])
                 [] OTHER -> Write(memory, p.local, 8, <<Address, v.local>>)
  /\ objects' = [objects EXCEPT ![o].value = [i \in DOMAIN @ |->
                   IF i \in k .. k + Len(v.value) - 1 THEN v.value[i - k + 1] ELSE @[i]]]
  /\ UNCHANGED <<stack, blocks, reg>>

\* Composite values lie apart from an object that is not shared.
LEMMA ApartFromObject ==
  ASSUME IInv, NEW o \in DOMAIN objects, ~Shared(objects[o]),
         NEW r \in DOMAIN reg, IsComposite(reg[r], memory, Regions)
  PROVE  Extent(reg[r].local, reg[r].ty) \cap Extent(objects[o].at, objects[o].ty) = {}
<1>1. Extent(objects[o].at, objects[o].ty) \in Regions
  BY StateFacts DEF AreObjects, IsObject
<1>2. PICK b \in Regions : Extent(reg[r].local, reg[r].ty) \subseteq b
  BY DEF IsComposite
<1>3. IsValueType(reg[r].ty) /\ reg[r].local \in Nat /\ reg[r].ty.kind # "scalar"
  BY DEF IsComposite
<1>4. reg[r].local \in b
  BY <1>2, <1>3, ExtentFacts
<1>5. reg[r].local \notin Extent(objects[o].at, objects[o].ty)
  <2>1. reg[r].ty.kind \in {"vector", "struct", "array"}
    BY <1>3 DEF IsValueType
  <2> QED
    BY <2>1 DEF Shared, Kind, Extent
<1> QED
  BY <1>1, <1>2, <1>4, <1>5, StateFacts DEF AreRegions

\* Different objects lie in different regions.
LEMMA ObjectsAreApart ==
  ASSUME IInv, NEW o \in DOMAIN objects, NEW q \in DOMAIN objects, o # q
  PROVE  Extent(objects[o].at, objects[o].ty) \cap Extent(objects[q].at, objects[q].ty) = {}
<1> DEFINE a == objects[o].at  t == objects[o].ty  b == objects[q].at  u == objects[q].ty
<1>1. /\ a \in Nat /\ b \in Nat /\ IsValueType(t) /\ IsValueType(u) /\ a # b
      /\ Extent(a, t) \in Regions /\ Extent(b, u) \in Regions
  BY StateFacts DEF AreObjects, IsObject
<1>2. Extent(a, t) # Extent(b, u)
  <2>1. a \in Extent(a, t) /\ b \in Extent(b, u)
    BY <1>1, ExtentFacts
  <2>2. (\A x \in Extent(a, t) : a <= x) /\ \A x \in Extent(b, u) : b <= x
    BY <1>1 DEF Extent
  <2>3. ASSUME Extent(a, t) = Extent(b, u) PROVE FALSE
    <3>1. a <= b /\ b <= a
      BY <2>1, <2>2, <2>3
    <3> HIDE DEF a, b
    <3> QED
      BY <1>1, <3>1
  <2> QED
    BY <2>3
<1> HIDE DEF a, b, t, u
<1>3. Extent(a, t) \cap Extent(b, u) = {}
  BY <1>1, <1>2, StateFacts DEF AreRegions
<1> QED
  BY <1>3 DEF a, b, t, u

\* What is stored lies there afterwards.
LEMMA StoredEffect ==
  ASSUME IInv, NEW p, NEW v, NEW t, NEW o, NEW k, StoreStep(p, v, t, o, k), o \in DOMAIN objects,
         ~Shared(objects[o]), t.kind \in {"vector", "scalar"}, IsValueType(t), v \in Operands(t),
         p.local \in Nat, Extent(p.local, t) \subseteq Extent(objects[o].at, objects[o].ty)
  PROVE  /\ Changes(memory, memory', Extent(p.local, t)) /\ IsMemory(memory', stack)
         /\ Held(memory', p.local, t, v.value) /\ IsValue(t, v.value)
<1>1. PICK a \in Nat : a = p.local
  OBVIOUS
<1>2. PICK top \in Nat : top = stack /\ IsMemory(memory, top)
  BY StateFacts
<1>3. a + getTypeAllocSize(t) <= top
  <2>1. PICK n \in Nat \ {0} : n = getTypeAllocSize(t)
    BY Layout
  <2>2. a + n - 1 \in Extent(p.local, t)
    BY <1>1, <2>1 DEF Extent
  <2>3. Extent(objects[o].at, objects[o].ty) \subseteq 1 .. stack - 1
    BY StateFacts DEF AreObjects, IsObject, AreRegions
  <2>4. a + n - 1 \in 1 .. top - 1
    BY <1>2, <2>2, <2>3
  <2> QED
    BY <2>1, <2>4
<1>4. /\ v.ty = t
      /\ t.kind = "scalar" => IsScalar(v)
      /\ t.kind # "scalar" => IsComposite(v, memory, Regions)
  BY OperandFacts
<1>5. PICK m2 : m2 = memory'
  OBVIOUS
<1>6. CASE t.kind = "scalar"
  <2>1. m2 = Store(memory, a, v)
    BY <1>1, <1>4, <1>5, <1>6 DEF Store, StoreStep
  <2>2. IsValueType(v.ty) /\ a + getTypeAllocSize(v.ty) <= top /\ v.ty.kind = "scalar" /\ IsScalar(v)
    BY <1>3, <1>4, <1>6
  <2>3. /\ Changes(memory, m2, Extent(a, v.ty)) /\ IsMemory(m2, top) /\ Held(m2, a, v.ty, v.value)
        /\ IsValue(v.ty, v.value)
    BY <1>2, <2>1, <2>2, StoreEffect
  <2> QED
    BY <1>1, <1>2, <1>4, <1>5, <2>3
<1>7. CASE t.kind = "vector"
  <2>1. PICK w : w = Leaves(t)[1]
    OBVIOUS
  <2>2. m2 = Fill(memory, a, w, w, [i \in DOMAIN Leaves(v.ty) |-> Copied(ElementAt(v, i))])
    BY <1>1, <1>4, <1>5, <1>7, <2>1 DEF StoreStep
  <2>3. t.kind # "scalar"
    BY <1>7
  <2>4. PICK r \in DOMAIN reg : v = reg[r]
    BY <2>3 DEF Operands, Of
  <2>5. IsComposite(v, memory, Regions) /\ v.local \in Nat \ {0} /\ IsValue(t, v.value)
    BY <1>4, <2>3, CompositeNotNull DEF IsComposite
  <2>6. Extent(v.local, v.ty) \cap Extent(objects[o].at, objects[o].ty) = {}
    BY <2>4, <2>5, ApartFromObject
  <2>7. Extent(v.local, v.ty) \cap Extent(a, v.ty) = {}
    BY <1>1, <1>4, <2>6
  <2>8. IsVectorOperand(v, memory, Extent(a, v.ty))
    BY <1>4, <1>7, <2>5, <2>7 DEF IsVectorOperand, IsComposite
  <2>9. a + getTypeAllocSize(v.ty) <= top /\ w = Element(v.ty)
    BY <1>3, <1>4, <2>1 DEF Element
  <2>10. /\ Changes(memory, m2, Extent(a, v.ty)) /\ IsMemory(m2, top) /\ Held(m2, a, v.ty, v.value)
    BY <1>2, <2>2, <2>8, <2>9, VectorCopied
  <2> QED
    BY <1>1, <1>2, <1>4, <1>5, <2>5, <2>10
<1> QED
  BY <1>6, <1>7

LEMMA StoreKeeps ==
  ASSUME IInv, AreRecords, printIndirectStore,
         "aggregateStore" \notin Divergences, "storeAfterLoad" \notin Divergences
  PROVE  IInv' /\ WriteStays
<1>1. PICK p \in {reg[r] : r \in Pointers} : \E v \in Operands(p.ty.to) :
        StoreStep(p, v, p.ty.to, p.value.object, p.value.first)
  BY DEF printIndirectStore, StoreStep
<1>2. PICK v \in Operands(p.ty.to) : StoreStep(p, v, p.ty.to, p.value.object, p.value.first)
  BY <1>1
<1>3. PICK t, o, first : t = p.ty.to /\ o = p.value.object /\ first = p.value.first
  OBVIOUS
<1>4. StoreStep(p, v, t, o, first) /\ v \in Operands(t)
  BY <1>2, <1>3
<1>5. /\ t.kind \in {"vector", "scalar"} /\ ~Shared(objects[o]) /\ Execute
      /\ stack' = stack /\ blocks' = blocks /\ reg' = reg
  BY <1>4 DEF StoreStep
<1>6. /\ IsMemory(memory, stack) /\ AreRegions(Regions, stack) /\ AreObjects(objects, memory, Regions)
      /\ AreRegisters(reg, memory, Regions, objects) /\ IsSequence(objects)
      /\ DOMAIN objects = 1 .. Len(objects) /\ Len(objects) \in Nat
  BY StateFacts
<1>7. IsPointer(p, objects) /\ o \in DOMAIN objects /\ first \in Nat \ {0}
  BY <1>3, PointerFacts DEF IsPointer
<1> DEFINE obj == objects[o]
           A == Extent(p.local, t)
           B == Extent(obj.at, obj.ty)
<1>8. /\ IsValueType(t) /\ p.local \in Nat /\ p.local = obj.at + LeafOffset(obj.ty, first)
      /\ IsPart(t, obj.ty, first - 1) /\ first - 1 \in Nat /\ A \subseteq B
  BY <1>3, <1>6, <1>7, PointedTo
<1>9. /\ IsValueType(obj.ty) /\ obj.at \in Nat /\ IsValue(obj.ty, obj.value) /\ B \in Regions
      /\ Held(memory, obj.at, obj.ty, obj.value)
  BY <1>6, <1>7 DEF AreObjects, IsObject
<1>10. /\ Changes(memory, memory', A) /\ IsMemory(memory', stack)
       /\ Held(memory', p.local, t, v.value) /\ IsValue(t, v.value)
  BY <1>4, <1>5, <1>7, <1>8, StoredEffect
<1> DEFINE value2 == [i \in DOMAIN obj.value |->
                        IF i \in first .. first + Len(v.value) - 1 THEN v.value[i - first + 1]
                        ELSE obj.value[i]]
<1>11. /\ DOMAIN objects' = 1 .. Len(objects) /\ objects' = [q \in 1 .. Len(objects) |-> objects'[q]]
       /\ \A q \in 1 .. Len(objects) : q # o => objects'[q] = objects[q]
       /\ objects'[o].ty = obj.ty /\ objects'[o].at = obj.at /\ objects'[o].value = value2
  <2>1. objects' = [objects EXCEPT ![o].value = value2]
    BY <1>4 DEF StoreStep
  <2>2. obj = [ty |-> obj.ty, at |-> obj.at, value |-> obj.value]
    BY <1>7 DEF AreRecords
  <2> HIDE DEF value2
  <2> QED
    BY <1>6, <1>7, <2>1, <2>2
<1>12. PICK k \in Nat : k = first - 1 /\ first = k + 1
  <2>1. first - 1 \in Nat /\ first = (first - 1) + 1
    BY <1>7
  <2> QED
    BY <2>1
<1>13. Replacing(obj.ty, obj.value, t, k, v.value, value2)
  <2>1. DOMAIN v.value = 1 .. Len(t.widths) /\ Len(v.value) = Len(t.widths) /\ Len(v.value) \in Nat
    BY <1>10, SequenceFacts DEF IsValue
  <2>2. DOMAIN obj.value = 1 .. Len(obj.ty.widths)
    BY <1>9, SequenceFacts DEF IsValue
  <2>3. value2 = [i \in DOMAIN obj.value |-> value2[i]]
    OBVIOUS
  <2>4. \A i \in 1 .. Len(obj.ty.widths) :
          value2[i] = IF i - k \in 1 .. Len(t.widths) THEN v.value[i - k] ELSE obj.value[i]
    <3> SUFFICES ASSUME NEW i \in 1 .. Len(obj.ty.widths)
        PROVE value2[i] = IF i - k \in 1 .. Len(t.widths) THEN v.value[i - k] ELSE obj.value[i]
      OBVIOUS
    <3>1. i \in first .. first + Len(v.value) - 1 <=> i - k \in 1 .. Len(t.widths)
      BY <1>12, <2>1
    <3>2. i - first + 1 = i - k
      BY <1>12
    <3>3. value2[i] = IF i \in first .. first + Len(v.value) - 1 THEN v.value[i - first + 1] ELSE obj.value[i]
      BY <2>2
    <3> HIDE DEF value2, obj
    <3> QED
      BY <3>1, <3>2, <3>3
  <2> HIDE DEF value2, obj
  <2> QED
    BY <1>8, <1>9, <1>10, <1>12, <2>3, <2>4 DEF Replacing
<1>14. PICK m2 : m2 = memory'
  OBVIOUS
<1> HIDE DEF value2, obj, A, B
<1>15. IsValue(obj.ty, value2) /\ Held(m2, obj.at, obj.ty, value2)
  <2>1. /\ Changes(memory, m2, Extent(obj.at + LeafOffset(obj.ty, k + 1), t))
        /\ Held(m2, obj.at + LeafOffset(obj.ty, k + 1), t, v.value)
    BY <1>8, <1>10, <1>12, <1>14 DEF A
  <2> QED
    BY <1>9, <1>13, <2>1, ReplacedIsHeld
<1>16. AreObjects(objects', memory', Regions)
  <2>1. IsObject(objects'[o], m2, Regions)
    BY <1>9, <1>11, <1>15 DEF IsObject, B
  <2>2. ASSUME NEW q \in 1 .. Len(objects), q # o PROVE IsObject(objects[q], m2, Regions)
    <3>1. /\ IsValueType(objects[q].ty) /\ objects[q].at \in Nat /\ IsValue(objects[q].ty, objects[q].value)
          /\ Extent(objects[q].at, objects[q].ty) \in Regions
          /\ Held(memory, objects[q].at, objects[q].ty, objects[q].value)
      BY <1>6, <2>2 DEF AreObjects, IsObject
    <3>2. Extent(objects[q].at, objects[q].ty) \cap B = {}
      BY <1>6, <1>7, <2>2, ObjectsAreApart DEF B, obj
    <3>3. Extent(objects[q].at, objects[q].ty) \cap A = {}
      BY <1>8, <3>2
    <3>4. Held(m2, objects[q].at, objects[q].ty, objects[q].value)
      BY <1>10, <1>14, <3>1, <3>3, HeldKept
    <3> QED
      BY <3>1, <3>4 DEF IsObject
  <2>3. IsSequence(objects')
    BY <1>6, <1>11, FunctionIsSequence
  <2>4. \A q \in 1 .. Len(objects) : objects'[q].at = objects[q].at
    BY <1>11 DEF obj
  <2>5. \A q, j \in 1 .. Len(objects) : q # j => objects'[q].at # objects'[j].at
    BY <1>6, <2>4 DEF AreObjects
  <2>6. \A q \in 1 .. Len(objects) : IsObject(objects'[q], m2, Regions)
    BY <1>11, <2>1, <2>2
  <2> QED
    BY <1>11, <1>14, <2>3, <2>5, <2>6 DEF AreObjects
<1>17. AreRegisters(reg, memory', Regions, objects')
  <2>1. Extends(objects', objects) /\ Regions \subseteq Regions
    BY <1>6, <1>11 DEF Extends, obj
  <2>2. ASSUME NEW r \in DOMAIN reg, IsComposite(reg[r], memory, Regions)
        PROVE  Extent(reg[r].local, reg[r].ty) \cap A = {}
    <3>1. Extent(reg[r].local, reg[r].ty) \cap B = {}
      BY <1>5, <1>7, <2>2, ApartFromObject DEF B, obj
    <3> QED
      BY <1>8, <3>1
  <2>3. \A r \in DOMAIN reg : IsComposite(reg[r], memory, Regions) => Extent(reg[r].local, reg[r].ty) \cap A = {}
    BY <2>2
  <2>4. PICK os2 : os2 = objects'
    OBVIOUS
  <2>5. AreRegisters(reg, m2, Regions, os2)
    <3>1. Changes(memory, m2, A) /\ Extends(os2, objects)
      BY <1>10, <1>14, <2>1, <2>4
    <3> QED
      BY <1>6, <2>1, <2>3, <3>1, RegistersKept
  <2> QED
    BY <1>14, <2>4, <2>5
<1>18. WriteStays
  <2>1. \A a \in DOMAIN memory' : a \notin DOMAIN memory \/ memory'[a] # memory[a] => a \in B
    BY <1>8, <1>10 DEF Changes
  <2> QED
    BY <1>5, <1>7, <2>1 DEF WriteStays, B, obj, Extent
<1>19. executed' \in -1 .. MaxInstructions /\ executed' # -1
  <2>1. MaxInstructions \in Nat
    BY AggregatesAssumption DEF AggregatesAssumption
  <2>2. executed \in -1 .. MaxInstructions
    BY DEF IInv
  <2> QED
    BY <1>5, <2>1, <2>2 DEF Execute
<1>20. stack \in Nat /\ stack >= StackBase /\ Regions' = Regions
  BY <1>5 DEF IInv, Regions
<1> QED
  BY <1>5, <1>6, <1>10, <1>16, <1>17, <1>18, <1>19, <1>20 DEF IInv

-----------------------------------------------------------------------------
(* The static initialiser. *)

\* Tokens of type u, not a struct, that need no padding at the cursor.
IsFieldAt(cursor, m, a, u, tokens, top) ==
  /\ IsValueType(u) /\ u.kind # "struct" /\ IsValue(u, tokens)
  /\ \A i \in DOMAIN tokens : tokens[i] # Undef
  /\ AllZero(tokens) \/ Len(u.widths) = 1 \/ u.widths[1] = 1
  /\ AllZero(tokens) \/ a % u.widths[1] = 0
  /\ a \in Nat /\ cursor.addr = a /\ cursor.memory = m
  /\ top \in Nat /\ IsMemory(m, top) /\ a + getTypeAllocSize(u) <= top

\* A field of a constant that needs no padding is stored at the cursor.
LEMMA FieldEffect ==
  ASSUME NEW cursor, NEW m, NEW a, NEW u, NEW tokens, NEW top,
         IsFieldAt(cursor, m, a, u, tokens, top),
         NEW r, r = FieldConstant(cursor, u.widths, tokens)
  PROVE  /\ r.addr = a + getTypeAllocSize(u)
         /\ Changes(m, r.memory, Extent(a, u)) /\ IsMemory(r.memory, top)
         /\ Held(r.memory, a, u, tokens)
<1>0. /\ IsValueType(u) /\ u.kind # "struct" /\ IsValue(u, tokens)
      /\ \A i \in DOMAIN tokens : tokens[i] # Undef
      /\ AllZero(tokens) \/ Len(u.widths) = 1 \/ u.widths[1] = 1
      /\ AllZero(tokens) \/ a % u.widths[1] = 0
      /\ a \in Nat /\ cursor.addr = a /\ cursor.memory = m
      /\ top \in Nat /\ IsMemory(m, top) /\ a + getTypeAllocSize(u) <= top
  BY DEF IsFieldAt
<1>1. PICK n \in Nat \ {0} : /\ n = Len(u.widths) /\ DOMAIN u.widths = 1 .. n
                             /\ DOMAIN tokens = 1 .. n /\ Len(tokens) = n
  BY <1>0, TypeFacts, SequenceFacts DEF IsValue
<1>2. PICK w \in Widths : w = u.widths[1] /\ \A i \in 1 .. n : u.widths[i] = w
  <2>1. u.widths[1] \in Widths /\ \A i \in 1 .. n : u.widths[i] = u.widths[1]
    BY <1>0, <1>1, TypeFacts DEF IsValueType
  <2> QED
    BY <1>0, <2>1
<1>3. /\ getTypeAllocSize(u) = n * w /\ \A i \in 1 .. n : LeafOffset(u, i) = (i - 1) * w
  <2>1. PICK x \in Nat : x = w
    BY <1>0 DEF Widths
  <2>2. \A i \in 1 .. Len(u.widths) : u.widths[i] = x
    BY <1>0, <1>1, <1>2, <2>1
  <2>3. /\ \A i \in 1 .. Len(u.widths) : LeafOffset(u, i) = (i - 1) * x
        /\ getTypeAllocSize(u) = Len(u.widths) * x
    BY <1>0, <2>2, EqualLayout
  <2> QED
    BY <1>0, <1>1, <2>1, <2>3
<1>4. PICK size \in Nat : size = getTypeAllocSize(u) /\ size = n * w /\ a + size <= top /\ Total(u.widths) = size
  BY <1>0, <1>3, Layout DEF getTypeAllocSize, Leaves
<1>5. Extent(a, u) = a .. a + size - 1
  BY <1>0, <1>4 DEF Extent
<1>6. CASE AllZero(tokens)
  <2>1. r = [memory |-> zero(m, a, size), addr |-> a + size]
    BY <1>0, <1>4, <1>6 DEF FieldConstant
  <2>2. r.memory = zero(m, a, size) /\ r.addr = a + size
    BY <1>0, <2>1
  <2>3. /\ Changes(m, r.memory, a .. a + size - 1) /\ IsMemory(r.memory, top)
        /\ \A c \in Nat, x \in Nat : a <= c /\ c + x <= a + size => Holds(r.memory, c, x, Zero)
    BY <1>0, <1>4, <2>2, ZeroEffect
  <2>4. ASSUME NEW i \in 1 .. n PROVE Holds(r.memory, a + LeafOffset(u, i), u.widths[i], tokens[i])
    <3>1. tokens[i] = Zero
      BY <1>0, <1>1, <1>6 DEF AllZero
    <3>2. /\ LeafOffset(u, i) \in Nat /\ LeafOffset(u, i) + u.widths[i] <= size
      BY <1>0, <1>1, <1>4, Layout
    <3>3. PICK c \in Nat, x \in Nat : c = LeafOffset(u, i) /\ x = u.widths[i] /\ c + x <= size
      BY <1>0, <1>2, <3>2 DEF Widths
    <3>4. a + c \in Nat /\ a <= a + c /\ a + c + x <= a + size
      BY <1>0, <3>3
    <3> QED
      BY <1>0, <2>3, <3>1, <3>3, <3>4
  <2> QED
    BY <1>0, <1>1, <1>4, <1>5, <2>2, <2>3, <2>4 DEF Held
<1>7. CASE ~AllZero(tokens) /\ n = 1
  <2>1. r = pack(cursor, w, tokens[1])
    BY <1>0, <1>1, <1>2, <1>7 DEF FieldConstant
  <2>2. AlignUp(a, w) = a
    BY <1>0, <1>2, <1>7, AlignUpFacts
  <2>3. size = w
    BY <1>0, <1>2, <1>4, <1>7 DEF Widths
  <2>4. r.addr = a + w
    BY <1>0, <2>1, <2>2 DEF pack
  <2>5. r.addr <= top /\ tokens[1] # Undef
    BY <1>0, <1>1, <1>4, <1>7, <2>3, <2>4
  <2>6. cursor.memory = m /\ cursor.addr = a /\ a \in Nat /\ top \in Nat /\ IsMemory(m, top)
    BY <1>0
  <2>8. PICK at \in Nat :
           /\ at = AlignUp(a, w) /\ a <= at /\ r.addr = at + w
           /\ Changes(m, r.memory, at .. at + w - 1) /\ IsMemory(r.memory, top)
           /\ Holds(r.memory, at, w, tokens[1])
    BY <2>1, <2>5, <2>6, PackEffect
  <2>7. Held(r.memory, a, u, tokens)
    <3>1. \A i \in 1 .. n : i = 1
      BY <1>0, <1>7
    <3>2. LeafOffset(u, 1) = 0 /\ a + 0 = a
      BY <1>0, Layout
    <3> QED
      BY <1>0, <1>1, <1>2, <2>2, <2>8, <3>1, <3>2 DEF Held
  <2> QED
    BY <1>0, <1>4, <1>5, <2>2, <2>3, <2>4, <2>8, <2>7
<1>8. CASE ~AllZero(tokens) /\ n # 1
  <2>1. w = 1
    BY <1>0, <1>1, <1>2, <1>8
  <2>2. r = [memory |-> packString(m, a, tokens), addr |-> a + n]
    BY <1>0, <1>1, <1>2, <1>8, <2>1 DEF FieldConstant
  <2>3. r.memory = packString(m, a, tokens) /\ r.addr = a + n /\ size = n
    BY <1>0, <1>4, <2>1, <2>2
  <2>4. /\ Changes(m, r.memory, a .. a + n - 1) /\ IsMemory(r.memory, top)
        /\ \A i \in 1 .. n : Holds(r.memory, a + (i - 1), 1, tokens[i])
    <3>1. Len(tokens) = n /\ Len(tokens) \in Nat /\ a + Len(tokens) <= top
      BY <1>0, <1>1, <1>4, <2>3
    <3>2. \A i \in 1 .. Len(tokens) : tokens[i] # Undef
      BY <1>0, <1>1
    <3>3. /\ Changes(m, r.memory, a .. a + Len(tokens) - 1) /\ IsMemory(r.memory, top)
          /\ \A i \in 1 .. Len(tokens) : Holds(r.memory, a + (i - 1), 1, tokens[i])
      BY <1>0, <1>4, <2>3, <3>1, <3>2, StringEffect
    <3> QED
      BY <1>0, <3>1, <3>3
  <2>5. \A i \in 1 .. n : LeafOffset(u, i) = i - 1 /\ u.widths[i] = 1
    BY <1>0, <1>2, <1>3, <2>1
  <2> QED
    BY <1>0, <1>1, <1>4, <1>5, <2>3, <2>4, <2>5 DEF Held
<1> QED
  BY <1>0, <1>6, <1>7, <1>8

\* The memories while a struct, and while all globals, are initialised.
LEMMA StructChoice ==
  ASSUME NEW m, NEW a, NEW t, NEW value, NEW len \in Nat
  PROVE  \E f : f = [i \in 0 .. len |->
                       IF i = 0 THEN [memory |-> m, addr |-> a]
                       ELSE FieldConstant(f[i - 1], OfField(t, i, Leaves(t)), OfField(t, i, value))]
<1> DEFINE m0 == [memory |-> m, addr |-> a]
           Next1(x, i) == FieldConstant(x, OfField(t, i, Leaves(t)), OfField(t, i, value))
           Fills(f, n) == f = [i \in 0 .. n |-> IF i = 0 THEN m0 ELSE Next1(f[i - 1], i)]
           T == {n \in Nat : \E f : Fills(f, n)}
<1> HIDE DEF Next1, m0
<1>1. 0 \in T
  <2> DEFINE f == [i \in 0 .. 0 |-> m0]
  <2>1. f = [i \in 0 .. 0 |-> IF i = 0 THEN m0 ELSE Next1(f[i - 1], i)]
    OBVIOUS
  <2> HIDE DEF f
  <2> QED
    BY <2>1
<1>2. ASSUME NEW n \in Nat, n \in T PROVE n + 1 \in T
  <2>1. PICK f : f = [i \in 0 .. n |-> IF i = 0 THEN m0 ELSE Next1(f[i - 1], i)]
    BY <1>2
  <2> DEFINE g == [i \in 0 .. n + 1 |-> IF i \in 0 .. n THEN f[i] ELSE Next1(f[i - 1], i)]
             h == [i \in 0 .. n + 1 |-> IF i = 0 THEN m0 ELSE Next1(g[i - 1], i)]
  <2>2. ASSUME NEW i \in 0 .. n + 1 PROVE g[i] = h[i]
    <3>1. CASE i = 0
      BY <2>1, <3>1
    <3>2. CASE i # 0
      <4>1. i - 1 \in 0 .. n /\ i - 1 \in 0 .. n + 1
        BY <3>2
      <4>2. g[i - 1] = f[i - 1]
        BY <4>1
      <4>3. g[i] = Next1(f[i - 1], i)
        BY <2>1, <3>2
      <4>4. h[i] = Next1(g[i - 1], i)
        BY <3>2
      <4> QED
        BY <4>2, <4>3, <4>4
    <3> QED
      BY <3>1, <3>2
  <2>3. g = h
    <3>1. g = [i \in 0 .. n + 1 |-> g[i]] /\ h = [i \in 0 .. n + 1 |-> h[i]]
      OBVIOUS
    <3> HIDE DEF g, h
    <3> QED
      BY <2>2, <3>1
  <2>4. Fills(g, n + 1)
    <3> HIDE DEF g
    <3> QED
      BY <2>3
  <2> HIDE DEF g, Fills
  <2> QED
    BY <2>4
<1> HIDE DEF T
<1>3. len \in T
  BY <1>1, <1>2, SetInduction
<1> QED
  BY <1>3 DEF T, Next1, m0

LEMMA StructUnfold ==
  ASSUME NEW m, NEW a, NEW g, Len(g.ty.counts) \in Nat
  PROVE  \E f : /\ f[0] = [memory |-> m, addr |-> a] /\ StructConstant(m, a, g) = f[Len(g.ty.counts)].memory
                /\ \A i \in 1 .. Len(g.ty.counts) :
                     f[i] = FieldConstant(f[i - 1], OfField(g.ty, i, Leaves(g.ty)), OfField(g.ty, i, g.value))
<1> DEFINE t == g.ty
           f == CHOOSE f : f = [i \in 0 .. Len(t.counts) |->
                  IF i = 0 THEN [memory |-> m, addr |-> a]
                  ELSE FieldConstant(f[i - 1], OfField(t, i, Leaves(t)), OfField(t, i, g.value))]
<1>1. f = [i \in 0 .. Len(t.counts) |->
             IF i = 0 THEN [memory |-> m, addr |-> a]
             ELSE FieldConstant(f[i - 1], OfField(t, i, Leaves(t)), OfField(t, i, g.value))]
  BY StructChoice
<1>2. StructConstant(m, a, g) = f[Len(t.counts)].memory
  BY DEF StructConstant
<1> HIDE DEF f
<1>3. f[0] = [memory |-> m, addr |-> a]
  BY <1>1
<1>4. ASSUME NEW i \in 1 .. Len(t.counts)
      PROVE  f[i] = FieldConstant(f[i - 1], OfField(t, i, Leaves(t)), OfField(t, i, g.value))
  <2>1. i \in 0 .. Len(t.counts) /\ i # 0
    OBVIOUS
  <2> HIDE DEF t
  <2> QED
    BY <1>1, <2>1
<1> QED
  BY <1>2, <1>3, <1>4

Initializes(f, m, gs, len) ==
  f = [i \in 0 .. len |-> IF i = 0 THEN m
                          ELSE printStaticConstant(f[i - 1], GlobalAddress(gs)[i], gs[i])]

LEMMA GlobalsChoice ==
  ASSUME NEW m, NEW gs, NEW len \in Nat
  PROVE  \E f : Initializes(f, m, gs, len)
<1> DEFINE m0 == m
           Next1(x, i) == printStaticConstant(x, GlobalAddress(gs)[i], gs[i])
           Fills(f, n) == f = [i \in 0 .. n |-> IF i = 0 THEN m0 ELSE Next1(f[i - 1], i)]
           T == {n \in Nat : \E f : Fills(f, n)}
<1> HIDE DEF Next1, m0
<1>1. 0 \in T
  <2> DEFINE f == [i \in 0 .. 0 |-> m0]
  <2>1. f = [i \in 0 .. 0 |-> IF i = 0 THEN m0 ELSE Next1(f[i - 1], i)]
    OBVIOUS
  <2> HIDE DEF f
  <2> QED
    BY <2>1
<1>2. ASSUME NEW n \in Nat, n \in T PROVE n + 1 \in T
  <2>1. PICK f : f = [i \in 0 .. n |-> IF i = 0 THEN m0 ELSE Next1(f[i - 1], i)]
    BY <1>2
  <2> DEFINE g == [i \in 0 .. n + 1 |-> IF i \in 0 .. n THEN f[i] ELSE Next1(f[i - 1], i)]
             h == [i \in 0 .. n + 1 |-> IF i = 0 THEN m0 ELSE Next1(g[i - 1], i)]
  <2>2. ASSUME NEW i \in 0 .. n + 1 PROVE g[i] = h[i]
    <3>1. CASE i = 0
      BY <2>1, <3>1
    <3>2. CASE i # 0
      <4>1. i - 1 \in 0 .. n /\ i - 1 \in 0 .. n + 1
        BY <3>2
      <4>2. g[i - 1] = f[i - 1]
        BY <4>1
      <4>3. g[i] = Next1(f[i - 1], i)
        BY <2>1, <3>2
      <4>4. h[i] = Next1(g[i - 1], i)
        BY <3>2
      <4> QED
        BY <4>2, <4>3, <4>4
    <3> QED
      BY <3>1, <3>2
  <2>3. g = h
    <3>1. g = [i \in 0 .. n + 1 |-> g[i]] /\ h = [i \in 0 .. n + 1 |-> h[i]]
      OBVIOUS
    <3> HIDE DEF g, h
    <3> QED
      BY <2>2, <3>1
  <2>4. Fills(g, n + 1)
    <3> HIDE DEF g
    <3> QED
      BY <2>3
  <2> HIDE DEF g, Fills
  <2> QED
    BY <2>4
<1> HIDE DEF T
<1>3. len \in T
  BY <1>1, <1>2, SetInduction
<1> QED
  BY <1>3 DEF T, Next1, m0, Initializes

Initialized(f, m, gs) ==
  /\ f[0] = m /\ InitializeGlobals(m, gs) = f[Len(gs)]
  /\ \A i \in 1 .. Len(gs) : f[i] = printStaticConstant(f[i - 1], GlobalAddress(gs)[i], gs[i])

LEMMA GlobalsUnfold ==
  ASSUME NEW m, NEW gs, Len(gs) \in Nat
  PROVE  \E f : Initialized(f, m, gs)
<1> DEFINE f == CHOOSE f : f = [i \in 0 .. Len(gs) |->
                  IF i = 0 THEN m
                  ELSE printStaticConstant(f[i - 1], GlobalAddress(gs)[i], gs[i])]
<1>1. f = [i \in 0 .. Len(gs) |->
             IF i = 0 THEN m
             ELSE printStaticConstant(f[i - 1], GlobalAddress(gs)[i], gs[i])]
  <2>1. \E h : Initializes(h, m, gs, Len(gs))
    BY GlobalsChoice
  <2> QED
    BY <2>1 DEF Initializes
<1>2. InitializeGlobals(m, gs) = f[Len(gs)]
  BY DEF InitializeGlobals
<1> HIDE DEF f
<1>3. f[0] = m
  BY <1>1
<1>4. ASSUME NEW i \in 1 .. Len(gs)
      PROVE  f[i] = printStaticConstant(f[i - 1], GlobalAddress(gs)[i], gs[i])
  <2>1. i \in 0 .. Len(gs) /\ i # 0
    OBVIOUS
  <2> QED
    BY <1>1, <2>1
<1> QED
  BY <1>2, <1>3, <1>4 DEF Initialized

\* Offsets from a multiple of 8 are as aligned as the sum.
LEMMA AlignedSum ==
  ASSUME NEW a \in Nat, a % 8 = 0, NEW x \in Nat, NEW w \in Widths, x % w = 0
  PROVE  (a + x) % w = 0
<1>1. CASE w = 1
  BY <1>1
<1>2. CASE w = 2
  BY <1>2
<1>3. CASE w = 4
  BY <1>3
<1>4. CASE w = 8
  BY <1>4
<1> QED
  BY <1>1, <1>2, <1>3, <1>4 DEF Widths

\* Numbers that end before x are apart from what begins there.
LEMMA BytesApart ==
  ASSUME NEW c \in Nat, NEW y \in Nat, NEW w \in Nat, NEW x \in Nat, NEW size \in Nat, y + w <= x
  PROVE  (c + y .. c + y + w - 1) \cap (c + x .. c + x + size - 1) = {}
<1>1. \A b \in Int : b <= c + y + w - 1 => ~(c + x <= b)
  OBVIOUS
<1> QED
  BY <1>1

\* What a part of a type adds to the offsets.
LEMMA PartSum ==
  ASSUME NEW t, IsValueType(t), NEW u, IsValueType(u), NEW k \in Nat, IsPart(u, t, k)
  PROVE  Sums(t.widths)[k + Len(u.widths)] = Sums(t.widths)[k] + getTypeAllocSize(u)
<1>1. PICK ws, us : ws = t.widths /\ us = u.widths
  OBVIOUS
<1>2. /\ Len(ws) \in Nat /\ Len(us) \in Nat /\ k + Len(us) <= Len(ws)
      /\ \A i \in 1 .. Len(ws) : ws[i] \in Widths
      /\ \A i \in 1 .. Len(us) : us[i] = ws[k + i]
  BY <1>1, TypeFacts DEF IsPart
<1>3. \A i \in 1 .. Len(ws) : ws[i] \in Nat
  BY <1>2 DEF Widths
<1>4. \A i \in 0 .. Len(us) : Sums(ws)[k + i] = Sums(ws)[k] + Sums(us)[i]
  BY <1>2, <1>3, SumsOfPart
<1>5. Len(us) \in 0 .. Len(us)
  BY <1>2
<1> QED
  BY <1>1, <1>4, <1>5 DEF getTypeAllocSize, Total, Leaves

\* The first k numbers of a constant are in memory, the cursor is behind them.
IsPacked(r, m, a, t, value, k, top) ==
  /\ r.addr = a + Sums(t.widths)[k]
  /\ Changes(m, r.memory, Extent(a, t)) /\ IsMemory(r.memory, top)
  /\ \A i \in 1 .. k : Holds(r.memory, a + LeafOffset(t, i), t.widths[i], value[i])

\* A constant of the supported kinds, to be put at a.
IsSupported(g, a, top) ==
  /\ IsConstant(g) /\ NumbersAreOperands(g) /\ NeedsNoPadding(g)
  /\ a \in Nat /\ a % 8 = 0 /\ top \in Nat /\ a + getTypeAllocSize(g.ty) <= top

\* One field of a struct after those before it.
LEMMA FieldPacked ==
  ASSUME NEW g, NEW a, NEW top, IsSupported(g, a, top), g.ty.kind = "struct",
         NEW m, NEW f \in 1 .. Len(g.ty.counts), NEW r,
         IsPacked(r, m, a, g.ty, g.value, LeavesBefore(g.ty, f), top),
         NEW r2, r2 = FieldConstant(r, OfField(g.ty, f, Leaves(g.ty)), OfField(g.ty, f, g.value))
  PROVE  IsPacked(r2, m, a, g.ty, g.value, LeavesBefore(g.ty, f) + g.ty.counts[f], top)
<1> DEFINE t == g.ty
           value == g.value
<1>1. /\ IsValueType(t) /\ IsValue(t, value) /\ a \in Nat /\ a % 8 = 0 /\ top \in Nat
      /\ \A i \in DOMAIN value : value[i] # Undef
  BY DEF IsSupported, IsConstant, IsValue
<1>2. PICK k \in Nat, n \in Nat : n # 0 /\ k = LeavesBefore(t, f) /\ n = t.counts[f]
  BY <1>1, FieldFacts, TypeFacts
<1>3. PICK u : /\ u = FieldType(t, f) /\ IsValueType(u) /\ u.kind # "struct"
               /\ Len(u.widths) = n /\ IsPart(u, t, k) /\ (u.kind = "scalar" <=> n = 1)
  BY <1>1, <1>2, FieldTypeFacts
<1>4. /\ Len(t.widths) \in Nat /\ DOMAIN t.widths = 1 .. Len(t.widths) /\ IsSequence(t.widths)
      /\ DOMAIN t.counts = 1 .. Len(t.counts)
      /\ k + n <= Len(t.widths) /\ IsSequence(value) /\ Len(value) = Len(t.widths)
      /\ DOMAIN value = 1 .. Len(t.widths) /\ DOMAIN u.widths = 1 .. n /\ IsSequence(u.widths)
      /\ \A i \in 1 .. n : u.widths[i] = t.widths[k + i] /\ u.widths[i] \in Widths
  <2>1. /\ Len(t.widths) \in Nat /\ DOMAIN t.widths = 1 .. Len(t.widths) /\ IsSequence(t.widths)
        /\ DOMAIN t.counts = 1 .. Len(t.counts)
    BY <1>1, TypeFacts
  <2>2. k + n <= Len(t.widths)
    BY <1>1, <1>2, FieldFacts
  <2>3. /\ IsSequence(value) /\ Len(value) = Len(t.widths)
        /\ DOMAIN value = 1 .. Len(t.widths)
    BY <1>1, SequenceFacts DEF IsValue
  <2>4. /\ DOMAIN u.widths = 1 .. n /\ IsSequence(u.widths)
        /\ \A i \in 1 .. n : u.widths[i] \in Widths
    BY <1>3, TypeFacts
  <2>5. \A i \in 1 .. n : u.widths[i] = t.widths[k + i]
    BY <1>3 DEF IsPart
  <2> QED
    BY <2>1, <2>2, <2>3, <2>4, <2>5
<1>5. PICK tokens : /\ tokens = OfField(t, f, value) /\ IsSequence(tokens) /\ Len(tokens) = n
                    /\ DOMAIN tokens = 1 .. n /\ \A i \in 1 .. n : tokens[i] = value[k + i]
  <2>1. OfField(t, f, value) = SubSeq(value, k + 1, k + n)
    BY <1>2 DEF OfField
  <2>2. /\ IsSequence(SubSeq(value, k + 1, k + n)) /\ Len(SubSeq(value, k + 1, k + n)) = n
        /\ DOMAIN SubSeq(value, k + 1, k + n) = 1 .. n
        /\ \A i \in 1 .. n : SubSeq(value, k + 1, k + n)[i] = value[k + i]
    <3>1. IsSequence(value) /\ k + n <= Len(value) /\ n \in Nat
      BY <1>4
    <3> HIDE DEF value
    <3> QED
      BY <3>1, SubSeqFacts
  <2> QED
    BY <2>1, <2>2
<1>6. OfField(t, f, Leaves(t)) = u.widths
  <2>1. PICK s : s = SubSeq(t.widths, k + 1, k + n)
    OBVIOUS
  <2>2. OfField(t, f, Leaves(t)) = s
    BY <1>2, <2>1 DEF OfField, Leaves
  <2>3. IsSequence(s) /\ Len(s) = n /\ \A i \in 1 .. n : s[i] = t.widths[k + i]
    <3>1. PICK ws : ws = t.widths /\ IsSequence(ws) /\ k + n <= Len(ws) /\ n \in Nat
      BY <1>4
    <3>2. s = SubSeq(ws, k + 1, k + n)
      BY <2>1, <3>1
    <3>3. IsSequence(s) /\ Len(s) = n /\ \A i \in 1 .. n : s[i] = ws[k + i]
      BY <3>1, <3>2, SubSeqFacts
    <3> QED
      BY <3>1, <3>3
  <2>4. \A i \in 1 .. n : s[i] = u.widths[i]
    BY <1>4, <2>3
  <2>5. s = [i \in 1 .. n |-> s[i]] /\ u.widths = [i \in 1 .. n |-> u.widths[i]]
    BY <1>3, <1>4, <2>3 DEF IsSequence
  <2> QED
    BY <2>2, <2>4, <2>5
<1>7. \A i \in 1 .. n : k + i \in DOMAIN value
  BY <1>4
<1>8. IsValue(u, tokens) /\ \A i \in DOMAIN tokens : tokens[i] # Undef
  BY <1>1, <1>3, <1>5, <1>7 DEF IsValue
<1>9. PICK x \in Nat : /\ x = LeafOffset(t, k + 1) /\ x = Sums(t.widths)[k]
                       /\ x + getTypeAllocSize(u) <= getTypeAllocSize(t)
                       /\ \A i \in 1 .. n : LeafOffset(t, k + i) = x + LeafOffset(u, i)
                       /\ \A j \in 1 .. k : LeafOffset(t, j) + t.widths[j] <= x
  <2>1. k + 1 - 1 = k
    OBVIOUS
  <2>2. LeafOffset(t, k + 1) = Sums(t.widths)[k]
    BY <2>1 DEF LeafOffset, Leaves
  <2>3. \A j \in 1 .. k : j \in 1 .. Len(t.widths) /\ j <= k
    BY <1>4
  <2>4. /\ LeafOffset(t, k + 1) \in Nat
        /\ LeafOffset(t, k + 1) + getTypeAllocSize(u) <= getTypeAllocSize(t)
        /\ \A i \in 1 .. n : LeafOffset(t, k + i) = LeafOffset(t, k + 1) + LeafOffset(u, i)
        /\ \A j \in 1 .. Len(t.widths) :
             j <= k => LeafOffset(t, j) + t.widths[j] <= LeafOffset(t, k + 1)
    <3> HIDE DEF t
    <3> QED
      BY <1>1, <1>3, PartLayout
  <2> QED
    BY <2>2, <2>3, <2>4
<1>10. PICK size \in Nat, sizes \in Nat :
          /\ size = getTypeAllocSize(u) /\ sizes = getTypeAllocSize(t)
          /\ x + size <= sizes /\ a + sizes <= top
  BY <1>1, <1>3, <1>9, Layout DEF IsSupported
<1>11. Sums(t.widths)[k + n] = x + size
  <2>1. Sums(t.widths)[k + Len(u.widths)] = Sums(t.widths)[k] + getTypeAllocSize(u)
    <3> HIDE DEF t
    <3> QED
      BY <1>1, <1>3, PartSum
  <2> QED
    BY <1>3, <1>9, <1>10, <2>1
<1>12. AllZero(tokens) \/ Len(u.widths) = 1 \/ u.widths[1] = 1
  <2>1. NumbersAreOperands(g) /\ f \in DOMAIN g.ty.counts
    BY <1>4 DEF IsSupported
  <2> QED
    BY <1>2, <1>3, <1>5, <1>6, <2>1 DEF NumbersAreOperands
<1>13. AllZero(tokens) \/ (a + x) % u.widths[1] = 0
  <2> SUFFICES ASSUME ~AllZero(tokens) PROVE (a + x) % u.widths[1] = 0
    OBVIOUS
  <2>1. CASE n = 1
    <3>1. \A i \in 1 .. n : i = 1
      BY <2>1
    <3>2. value[k + 1] # Zero
      BY <1>5, <3>1 DEF AllZero
    <3>3. k + 1 \in DOMAIN value /\ u.widths[1] = t.widths[k + 1] /\ u.widths[1] \in Widths
      BY <1>4, <1>7, <2>1
    <3>4. x % u.widths[1] = 0
      BY <1>9, <3>2, <3>3 DEF IsSupported, NeedsNoPadding, Leaves
    <3> QED
      BY <1>1, <3>3, <3>4, AlignedSum
  <2>2. CASE n # 1
    <3>1. u.widths[1] = 1
      BY <1>3, <1>12, <2>2
    <3> QED
      BY <1>1, <3>1
  <2> QED
    BY <2>1, <2>2
<1>14. PICK m1, m2 : m1 = r.memory /\ m2 = r2.memory
  OBVIOUS
<1>15. /\ r.addr = a + x /\ Changes(m, m1, Extent(a, t)) /\ IsMemory(m1, top)
       /\ \A i \in 1 .. k : Holds(m1, a + LeafOffset(t, i), t.widths[i], value[i])
  BY <1>2, <1>9, <1>14 DEF IsPacked
<1>16. /\ r2.addr = a + x + size
       /\ Changes(m1, m2, Extent(a + x, u)) /\ IsMemory(m2, top)
       /\ Held(m2, a + x, u, tokens)
  <2>1. r2 = FieldConstant(r, u.widths, tokens)
    BY <1>5, <1>6
  <2>2. a + x \in Nat /\ a + x + getTypeAllocSize(u) <= top
    BY <1>1, <1>10
  <2>3. PICK c \in Nat : c = a + x
    BY <2>2
  <2>4. /\ r2.addr = c + getTypeAllocSize(u)
        /\ Changes(m1, r2.memory, Extent(c, u)) /\ IsMemory(r2.memory, top)
        /\ Held(r2.memory, c, u, tokens)
    <3>1. IsFieldAt(r, m1, c, u, tokens, top)
      <4>1. /\ r.addr = c /\ c + getTypeAllocSize(u) <= top /\ top \in Nat
            /\ r.memory = m1 /\ IsMemory(m1, top)
        BY <1>1, <1>14, <1>15, <2>2, <2>3
      <4>2. AllZero(tokens) \/ c % u.widths[1] = 0
        BY <1>13, <2>3
      <4> QED
        BY <1>3, <1>8, <1>12, <4>1, <4>2 DEF IsFieldAt
    <3> QED
      BY <2>1, <3>1, FieldEffect
  <2> QED
    BY <1>10, <1>14, <2>3, <2>4
<1>17. Extent(a + x, u) = a + x .. a + x + size - 1 /\ Extent(a, t) = a .. a + sizes - 1
  BY <1>10 DEF Extent
<1>18. Changes(m, m2, Extent(a, t))
  <2>1. Extent(a + x, u) \subseteq Extent(a, t) /\ Extent(a, t) \subseteq Extent(a, t)
    <3>1. PICK c \in Nat : c = a
      BY <1>1
    <3>2. c + x .. c + x + size - 1 \subseteq c .. c + sizes - 1
      BY <1>10
    <3> QED
      BY <1>17, <3>1, <3>2
  <2> QED
    BY <1>15, <1>16, <2>1, ChangesCompose
<1>19. ASSUME NEW i \in 1 .. k PROVE Holds(m2, a + LeafOffset(t, i), t.widths[i], value[i])
  <2>1. PICK y \in Nat, w \in Nat : y = LeafOffset(t, i) /\ w = t.widths[i] /\ y + w <= x
    <3>1. i \in 1 .. Len(t.widths)
      BY <1>4
    <3> QED
      <4>1. LeafOffset(t, i) \in Nat /\ t.widths[i] \in Widths
        BY <1>1, <3>1, Layout, TypeFacts
      <4> QED
        BY <1>9, <4>1 DEF Widths
  <2>2. (a + y .. a + y + w - 1) \cap Extent(a + x, u) = {}
    <3>1. PICK c \in Nat : c = a
      BY <1>1
    <3>2. (c + y .. c + y + w - 1) \cap (c + x .. c + x + size - 1) = {}
      BY <2>1, BytesApart
    <3> QED
      BY <1>17, <3>1, <3>2
  <2>3. Holds(m1, a + y, w, value[i])
    BY <1>15, <2>1
  <2>4. Holds(m2, a + y, w, value[i])
    BY <1>16, <2>2, <2>3, HoldsKept
  <2> QED
    BY <2>1, <2>4
<1>20. ASSUME NEW i \in 1 .. n PROVE Holds(m2, a + LeafOffset(t, k + i), t.widths[k + i], value[k + i])
  <2>1. Holds(m2, a + x + LeafOffset(u, i), u.widths[i], tokens[i])
    BY <1>4, <1>16 DEF Held
  <2>2. PICK y \in Nat : y = LeafOffset(u, i)
    BY <1>3, Layout
  <2>3. LeafOffset(t, k + i) = x + y
    BY <1>9, <2>2
  <2>4. a + (x + y) = a + x + y
    BY <1>1
  <2> QED
    BY <1>4, <1>5, <2>1, <2>2, <2>3, <2>4
<1>21. ASSUME NEW i \in 1 .. k + n PROVE Holds(m2, a + LeafOffset(t, i), t.widths[i], value[i])
  <2>1. CASE i \in 1 .. k
    BY <1>19, <2>1
  <2>2. CASE i \notin 1 .. k
    <3>1. i - k \in 1 .. n /\ k + (i - k) = i
      BY <2>2
    <3> HIDE DEF t, value
    <3>2. PICK j \in 1 .. n : k + j = i
      BY <3>1
    <3>3. Holds(m2, a + LeafOffset(t, k + j), t.widths[k + j], value[k + j])
      BY <1>20
    <3> QED
      BY <3>2, <3>3
  <2> QED
    BY <2>1, <2>2
<1>22. r2.addr = a + Sums(t.widths)[k + n]
  <2>1. a + x + size = a + (x + size)
    BY <1>1
  <2> QED
    BY <1>11, <1>16, <2>1
<1> QED
  BY <1>2, <1>14, <1>16, <1>18, <1>21, <1>22 DEF IsPacked

\* A constant is stored from a on.
IsStored(m, m2, a, t, value, top) ==
  Changes(m, m2, Extent(a, t)) /\ IsMemory(m2, top) /\ Held(m2, a, t, value)

LEMMA StructEffect ==
  ASSUME NEW g, NEW a, NEW top, IsSupported(g, a, top), g.ty.kind = "struct",
         NEW m, IsMemory(m, top)
  PROVE  IsStored(m, StructConstant(m, a, g), a, g.ty, g.value, top)
<1>1. PICK t, value : t = g.ty /\ value = g.value
  OBVIOUS
<1>2. IsValueType(t) /\ a \in Nat /\ top \in Nat
  BY <1>1 DEF IsSupported, IsConstant
<1>3. PICK n \in Nat : n = Len(t.counts) /\ DOMAIN t.widths = 1 .. Len(t.widths)
  BY <1>2, TypeFacts
<1>4. PICK p : /\ p[0] = [memory |-> m, addr |-> a] /\ StructConstant(m, a, g) = p[n].memory
               /\ \A f \in 1 .. n : p[f] = FieldConstant(p[f - 1], OfField(g.ty, f, Leaves(g.ty)), OfField(g.ty, f, g.value))
  <2>1. Len(g.ty.counts) = n /\ Len(g.ty.counts) \in Nat
    BY <1>1, <1>3
  <2>2. PICK p : /\ p[0] = [memory |-> m, addr |-> a] /\ StructConstant(m, a, g) = p[Len(g.ty.counts)].memory
                 /\ \A i \in 1 .. Len(g.ty.counts) :
                      p[i] = FieldConstant(p[i - 1], OfField(g.ty, i, Leaves(g.ty)), OfField(g.ty, i, g.value))
    BY <2>1, StructUnfold
  <2> QED
    BY <2>1, <2>2
<1>5. PICK C : C = Sums(t.counts)
  OBVIOUS
<1>6. C[0] = 0 /\ \A f \in 1 .. n : C[f] = C[f - 1] + t.counts[f]
  BY <1>3, <1>5, SumsUnfold
<1>7. \A f \in 1 .. n : LeavesBefore(t, f) = C[f - 1]
  BY <1>5 DEF LeavesBefore
<1> DEFINE T == {j \in Nat : j <= n => IsPacked(p[j], m, a, t, value, C[j], top)}
<1>8. 0 \in T
  <2>1. p[0].memory = m /\ p[0].addr = a
    BY <1>4
  <2>2. Sums(t.widths)[0] = 0
    BY <1>2, TypeFacts, SumsUnfold
  <2>3. a + Sums(t.widths)[0] = a
    BY <1>2, <2>2
  <2>4. Changes(m, m, Extent(a, t))
    BY ChangesNothing
  <2>5. IsPacked(p[0], m, a, t, value, 0, top)
    BY <2>1, <2>3, <2>4 DEF IsPacked
  <2> QED
    BY <1>6, <2>5
<1>9. ASSUME NEW j \in Nat, j \in T PROVE j + 1 \in T
  <2> SUFFICES ASSUME j + 1 <= n PROVE IsPacked(p[j + 1], m, a, t, value, C[j + 1], top)
    OBVIOUS
  <2>1. IsPacked(p[j], m, a, t, value, C[j], top)
    BY <1>9
  <2>2. PICK f \in 1 .. n : f = j + 1 /\ f - 1 = j
    OBVIOUS
  <2> HIDE DEF T
  <2>3. IsPacked(p[j], m, a, g.ty, g.value, LeavesBefore(g.ty, f), top)
    BY <1>1, <1>7, <2>1, <2>2
  <2>4. p[f] = FieldConstant(p[j], OfField(g.ty, f, Leaves(g.ty)), OfField(g.ty, f, g.value))
    BY <1>4, <2>2
  <2>5. f \in 1 .. Len(g.ty.counts)
    BY <1>1, <1>3
  <2>6. IsPacked(p[f], m, a, g.ty, g.value, LeavesBefore(g.ty, f) + g.ty.counts[f], top)
    BY <2>3, <2>4, <2>5, FieldPacked
  <2>7. LeavesBefore(g.ty, f) + g.ty.counts[f] = C[f]
    BY <1>1, <1>6, <1>7
  <2> QED
    BY <1>1, <2>2, <2>6, <2>7
<1> HIDE DEF T
<1>10. n \in T
  BY <1>8, <1>9, SetInduction
<1>11. IsPacked(p[n], m, a, t, value, C[n], top)
  BY <1>10 DEF T
<1>12. C[n] = Len(t.widths)
  BY <1>2, <1>3, <1>5 DEF IsValueType, Total
<1> QED
  BY <1>1, <1>3, <1>4, <1>11, <1>12 DEF IsPacked, IsStored, Held

\* The initialiser stores a global variable, whatever its type.
LEMMA ConstantEffect ==
  ASSUME NEW g, NEW a, NEW top, IsSupported(g, a, top), NEW m, IsMemory(m, top)
  PROVE  IsStored(m, printStaticConstant(m, a, g), a, g.ty, g.value, top)
<1>1. PICK t, value, m2 : t = g.ty /\ value = g.value /\ m2 = printStaticConstant(m, a, g)
  OBVIOUS
<1>2. /\ IsValueType(t) /\ IsValue(t, value) /\ a \in Nat /\ a % 8 = 0 /\ top \in Nat
      /\ a + getTypeAllocSize(t) <= top /\ NumbersAreOperands(g)
      /\ \A i \in DOMAIN value : value[i] # Undef
  BY <1>1 DEF IsSupported, IsConstant, IsValue
<1>3. /\ DOMAIN t.widths = 1 .. Len(t.widths) /\ DOMAIN value = 1 .. Len(t.widths)
      /\ Len(t.widths) \in Nat \ {0} /\ \A i \in 1 .. Len(t.widths) : t.widths[i] \in Widths
  BY <1>2, TypeFacts, SequenceFacts DEF IsValue
<1>4. CASE AllZero(value)
  <2>1. PICK size \in Nat : size = getTypeAllocSize(t) /\ a + size <= top
    BY <1>2, Layout
  <2>2. m2 = zero(m, a, size)
    BY <1>1, <1>4, <2>1 DEF printStaticConstant
  <2>3. /\ Changes(m, m2, a .. a + size - 1) /\ IsMemory(m2, top)
        /\ \A c \in Nat, w \in Nat : a <= c /\ c + w <= a + size => Holds(m2, c, w, Zero)
    BY <1>2, <2>1, <2>2, ZeroEffect
  <2>4. ASSUME NEW i \in 1 .. Len(t.widths) PROVE Holds(m2, a + LeafOffset(t, i), t.widths[i], value[i])
    <3>1. value[i] = Zero
      BY <1>3, <1>4 DEF AllZero
    <3>2. /\ LeafOffset(t, i) \in Nat /\ LeafOffset(t, i) + t.widths[i] <= size /\ t.widths[i] \in Widths
      BY <1>2, <1>3, <2>1, Layout
    <3>3. PICK c \in Nat, x \in Nat : c = LeafOffset(t, i) /\ x = t.widths[i] /\ c + x <= size
      BY <3>2 DEF Widths
    <3>4. PICK d \in Nat : d = a
      BY <1>2
    <3>5. d + c \in Nat /\ d <= d + c /\ d + c + x <= d + size
      BY <3>3
    <3> QED
      BY <2>3, <3>1, <3>3, <3>4, <3>5
  <2> QED
    BY <1>1, <1>3, <2>1, <2>3, <2>4 DEF IsStored, Held, Extent
<1>5. CASE ~AllZero(value) /\ t.kind = "struct"
  <2>1. m2 = StructConstant(m, a, g)
    BY <1>1, <1>5 DEF printStaticConstant
  <2> QED
    BY <1>1, <1>5, <2>1, StructEffect
<1>6. CASE ~AllZero(value) /\ t.kind # "struct"
  <2>1. t.kind # "vector" /\ t.kind \in {"scalar", "array"}
    BY <1>1, <1>2, <1>6 DEF NumbersAreOperands, IsValueType
  <2>2. PICK cursor : cursor = [memory |-> m, addr |-> a]
    OBVIOUS
  <2>3. m2 = FieldConstant(cursor, t.widths, value).memory
    BY <1>1, <1>6, <2>1, <2>2 DEF printStaticConstant, Leaves
  <2>4. Len(t.widths) = 1 \/ t.widths[1] = 1
    <3>1. CASE t.kind = "array"
      BY <1>1, <1>2, <1>6, <3>1 DEF NumbersAreOperands, Leaves
    <3>2. CASE t.kind = "scalar"
      BY <1>2, <3>2, ScalarHeld
    <3> QED
      BY <2>1, <3>1, <3>2
  <2>5. a % t.widths[1] = 0
    <3>1. 0 % t.widths[1] = 0 /\ t.widths[1] \in Widths
      BY <1>3 DEF Widths
    <3>2. (a + 0) % t.widths[1] = 0 /\ a + 0 = a
      BY <1>2, <3>1, AlignedSum
    <3> QED
      BY <3>2
  <2>6. cursor.memory = m /\ cursor.addr = a
    BY <2>2
  <2>7. IsFieldAt(cursor, m, a, t, value, top)
    BY <1>2, <1>6, <2>4, <2>5, <2>6 DEF IsFieldAt
  <2>8. /\ Changes(m, m2, Extent(a, t)) /\ IsMemory(m2, top) /\ Held(m2, a, t, value)
    BY <2>3, <2>7, FieldEffect
  <2> QED
    BY <1>1, <2>8 DEF IsStored
<1> QED
  BY <1>4, <1>5, <1>6

\* A sum of multiples of 8 is one.
LEMMA SumsAligned ==
  ASSUME NEW s, Len(s) \in Nat, \A i \in 1 .. Len(s) : s[i] \in Nat /\ s[i] % 8 = 0
  PROVE  \A n \in 0 .. Len(s) : Sums(s)[n] % 8 = 0
<1>1. PICK f : f = Sums(s)
  OBVIOUS
<1>2. /\ f[0] = 0 /\ \A n \in 1 .. Len(s) : f[n] = f[n - 1] + s[n]
      /\ \A n \in 0 .. Len(s) : f[n] \in Nat
  BY <1>1, SumsUnfold, SumsGrow
<1> DEFINE T == {n \in Nat : n <= Len(s) => f[n] % 8 = 0}
<1>3. 0 \in T
  BY <1>2
<1>4. ASSUME NEW n \in Nat, n \in T PROVE n + 1 \in T
  <2> SUFFICES ASSUME n + 1 <= Len(s) PROVE f[n + 1] % 8 = 0
    OBVIOUS
  <2>1. n <= Len(s) /\ n \in 0 .. Len(s) /\ n + 1 \in 1 .. Len(s) /\ (n + 1) - 1 = n
    OBVIOUS
  <2>2. f[n] % 8 = 0
    BY <1>4, <2>1
  <2> HIDE DEF T
  <2>3. f[n + 1] = f[n] + s[n + 1] /\ f[n] \in Nat /\ s[n + 1] \in Nat /\ s[n + 1] % 8 = 0
    BY <1>2, <2>1
  <2>4. PICK x \in Nat, y \in Nat : x = f[n] /\ y = s[n + 1] /\ x % 8 = 0 /\ y % 8 = 0
    BY <2>2, <2>3
  <2>5. (x + y) % 8 = 0
    <3>1. 8 \in Widths
      BY DEF Widths
    <3> QED
      BY <2>4, <3>1, AlignedSum
  <2> QED
    BY <2>3, <2>4, <2>5
<1> HIDE DEF T
<1>5. Nat \subseteq T
  BY <1>3, <1>4, SetInduction
<1>6. ASSUME NEW n \in 0 .. Len(s) PROVE f[n] % 8 = 0
  <2>1. n \in T /\ n <= Len(s)
    BY <1>5
  <2> QED
    BY <2>1 DEF T
<1> QED
  BY <1>1, <1>6

\* The globals of a module lie apart on the heap.
LEMMA GlobalPlaces ==
  ASSUME NEW gs \in GlobalLists
  PROVE  /\ IsSequence(gs) /\ Len(gs) \in Nat /\ DOMAIN gs = 1 .. Len(gs)
         /\ \A g \in 1 .. Len(gs) :
              /\ IsConstant(gs[g]) /\ GlobalAddress(gs)[g] \in Nat /\ GlobalAddress(gs)[g] % 8 = 0
              /\ HeapBase <= GlobalAddress(gs)[g]
              /\ GlobalAddress(gs)[g] + getTypeAllocSize(gs[g].ty) <= StackBase
         /\ \A g, h \in 1 .. Len(gs) : h < g =>
              GlobalAddress(gs)[h] + getTypeAllocSize(gs[h].ty) <= GlobalAddress(gs)[g]
<1>1. /\ IsSequence(gs) /\ \A g \in DOMAIN gs : IsConstant(gs[g])
      /\ \A g \in DOMAIN gs : GlobalAddress(gs)[g] + getTypeAllocSize(gs[g].ty) <= StackBase
  BY AggregatesAssumption DEF AggregatesAssumption
<1>2. PICK n \in Nat : n = Len(gs) /\ DOMAIN gs = 1 .. n
  BY <1>1, SequenceFacts
<1> DEFINE sizes == [g \in DOMAIN gs |-> AlignUp(getTypeAllocSize(gs[g].ty), 8)]
<1>3. PICK s : s = sizes
  OBVIOUS
<1>4. /\ \A g \in 1 .. n : GlobalAddress(gs)[g] = HeapBase + Sums(s)[g - 1]
      /\ s = [g \in 1 .. n |-> AlignUp(getTypeAllocSize(gs[g].ty), 8)]
  BY <1>2, <1>3 DEF GlobalAddress
<1> HIDE DEF sizes
<1>5. Len(s) = n /\ \A g \in 1 .. n : s[g] = AlignUp(getTypeAllocSize(gs[g].ty), 8)
  <2>1. s = [g \in 1 .. n |-> s[g]]
    BY <1>4
  <2> QED
    BY <1>4, <2>1, FunctionIsSequence
<1>6. ASSUME NEW g \in 1 .. n
      PROVE  /\ s[g] \in Nat /\ s[g] % 8 = 0
             /\ getTypeAllocSize(gs[g].ty) \in Nat /\ getTypeAllocSize(gs[g].ty) <= s[g]
  <2>1. getTypeAllocSize(gs[g].ty) \in Nat
    BY <1>1, <1>2, Layout DEF IsConstant
  <2>2. PICK x \in Nat : x = getTypeAllocSize(gs[g].ty)
    BY <2>1
  <2>3. 8 \in Widths
    BY DEF Widths
  <2>4. AlignUp(x, 8) \in Nat /\ x <= AlignUp(x, 8) /\ AlignUp(x, 8) % 8 = 0
    BY <2>3, AlignUpFacts
  <2> QED
    BY <1>5, <2>2, <2>4
<1>7. PICK F : F = Sums(s)
  OBVIOUS
<1>8. /\ \A g \in 1 .. n : F[g] = F[g - 1] + s[g]
      /\ \A g \in 0 .. n : F[g] \in Nat
      /\ \A g, h \in 0 .. n : h <= g => F[h] <= F[g]
  BY <1>5, <1>6, <1>7, SumsUnfold, SumsGrow
<1>9. \A g \in 0 .. n : F[g] % 8 = 0
  BY <1>5, <1>6, <1>7, SumsAligned
<1>10. PICK base \in Nat : base = HeapBase /\ base % 8 = 0
  BY BaseFacts
<1>11. ASSUME NEW g \in 1 .. n
       PROVE  /\ GlobalAddress(gs)[g] \in Nat /\ GlobalAddress(gs)[g] % 8 = 0
              /\ HeapBase <= GlobalAddress(gs)[g]
  <2>1. g - 1 \in 0 .. n
    OBVIOUS
  <2>2. PICK x \in Nat : x = F[g - 1] /\ x % 8 = 0
    BY <1>8, <1>9, <2>1
  <2>3. GlobalAddress(gs)[g] = base + x
    BY <1>4, <1>7, <1>10, <2>2
  <2>4. (base + x) % 8 = 0
    BY <1>10, <2>2
  <2> QED
    BY <1>10, <2>3, <2>4
<1>12. ASSUME NEW g \in 1 .. n, NEW h \in 1 .. n, h < g
       PROVE  GlobalAddress(gs)[h] + getTypeAllocSize(gs[h].ty) <= GlobalAddress(gs)[g]
  <2>1. g - 1 \in 0 .. n /\ h - 1 \in 0 .. n /\ h \in 0 .. n /\ h <= g - 1
    BY <1>12
  <2>2. F[h] <= F[g - 1] /\ F[h] = F[h - 1] + s[h] /\ F[h - 1] \in Nat /\ F[g - 1] \in Nat
    BY <1>8, <2>1
  <2>3. PICK x \in Nat, y \in Nat, z \in Nat, w \in Nat :
          x = F[h - 1] /\ y = F[g - 1] /\ z = s[h] /\ w = getTypeAllocSize(gs[h].ty) /\ x + z <= y /\ w <= z
    BY <1>6, <2>2
  <2>4. GlobalAddress(gs)[h] = base + x /\ GlobalAddress(gs)[g] = base + y
    BY <1>4, <1>7, <1>10, <2>3
  <2>5. base + x + w <= base + y
    BY <2>3
  <2> QED
    BY <2>3, <2>4, <2>5
<1> QED
  BY <1>1, <1>2, <1>11, <1>12

\* The globals are stored one after the other, and none harms those before.
LEMMA GlobalsEffect ==
  ASSUME NEW gs \in GlobalLists, \A g \in DOMAIN gs : NumbersAreOperands(gs[g]) /\ NeedsNoPadding(gs[g]),
         NEW m, IsMemory(m, StackBase),
         NEW A, \A g \in DOMAIN gs : Extent(GlobalAddress(gs)[g], gs[g].ty) \subseteq A
  PROVE  /\ Changes(m, InitializeGlobals(m, gs), A) /\ IsMemory(InitializeGlobals(m, gs), StackBase)
         /\ \A g \in DOMAIN gs :
              Held(InitializeGlobals(m, gs), GlobalAddress(gs)[g], gs[g].ty, gs[g].value)
<1>1. PICK at : at = GlobalAddress(gs)
  OBVIOUS
<1>2. PICK n \in Nat : n = Len(gs) /\ DOMAIN gs = 1 .. n
  BY GlobalPlaces
<1>3. /\ \A g \in 1 .. n : /\ IsConstant(gs[g]) /\ at[g] \in Nat /\ at[g] % 8 = 0
                           /\ at[g] + getTypeAllocSize(gs[g].ty) <= StackBase
                           /\ IsValueType(gs[g].ty) /\ getTypeAllocSize(gs[g].ty) \in Nat
      /\ \A g, h \in 1 .. n : h < g => at[h] + getTypeAllocSize(gs[h].ty) <= at[g]
  BY <1>1, <1>2, GlobalPlaces, Layout DEF IsConstant
<1>4. PICK p : /\ p[0] = m /\ InitializeGlobals(m, gs) = p[n]
               /\ \A g \in 1 .. n : p[g] = printStaticConstant(p[g - 1], at[g], gs[g])
  <2>1. Len(gs) \in Nat
    BY <1>2
  <2>2. PICK p : Initialized(p, m, gs)
    BY <2>1, GlobalsUnfold
  <2> QED
    BY <1>1, <1>2, <2>2 DEF Initialized
<1> DEFINE Done(j) == /\ Changes(m, p[j], A) /\ IsMemory(p[j], StackBase)
                      /\ \A g \in 1 .. j : Held(p[j], at[g], gs[g].ty, gs[g].value)
           T == {j \in Nat : j <= n => Done(j)}
<1>5. 0 \in T
  BY <1>4, ChangesNothing
<1>6. ASSUME NEW j \in Nat, j \in T PROVE j + 1 \in T
  <2> SUFFICES ASSUME j + 1 <= n PROVE Done(j + 1)
    OBVIOUS
  <2>1. Done(j)
    BY <1>6
  <2> HIDE DEF T
  <2>2. PICK g \in 1 .. n : g = j + 1 /\ g - 1 = j
    OBVIOUS
  <2>3. PICK m1, m2 : m1 = p[j] /\ m2 = p[g]
    OBVIOUS
  <2>4. IsSupported(gs[g], at[g], StackBase)
    BY <1>2, <1>3, BaseFacts DEF IsSupported
  <2>5. m2 = printStaticConstant(m1, at[g], gs[g])
    BY <1>4, <2>2, <2>3
  <2>6. IsStored(m1, m2, at[g], gs[g].ty, gs[g].value, StackBase)
    BY <2>1, <2>3, <2>4, <2>5, ConstantEffect
  <2>7. /\ Changes(m1, m2, Extent(at[g], gs[g].ty)) /\ IsMemory(m2, StackBase)
        /\ Held(m2, at[g], gs[g].ty, gs[g].value)
    BY <2>6 DEF IsStored
  <2>8. Changes(m, m2, A)
    <3>1. Extent(at[g], gs[g].ty) \subseteq A /\ A \subseteq A
      BY <1>1, <1>2
    <3> QED
      BY <2>1, <2>3, <2>7, <3>1, ChangesCompose
  <2>9. ASSUME NEW h \in 1 .. j PROVE Held(m2, at[h], gs[h].ty, gs[h].value)
    <3>1. Held(m1, at[h], gs[h].ty, gs[h].value)
      BY <2>1, <2>3
    <3>2. h \in 1 .. n /\ h < g
      BY <2>2
    <3>3. PICK x \in Nat, y \in Nat, z \in Nat, w \in Nat :
             /\ x = at[h] /\ y = at[g] /\ z = getTypeAllocSize(gs[h].ty) /\ w = getTypeAllocSize(gs[g].ty)
             /\ x + z <= y
      BY <1>3, <3>2
    <3>4. (x .. x + z - 1) \cap (y .. y + w - 1) = {}
      BY <3>3
    <3>5. Extent(at[h], gs[h].ty) \cap Extent(at[g], gs[g].ty) = {}
      BY <3>3, <3>4 DEF Extent
    <3>6. IsValueType(gs[h].ty) /\ at[h] \in Nat
      BY <1>3, <3>2
    <3> QED
      BY <2>7, <3>1, <3>5, <3>6, HeldKept
  <2>10. \A h \in 1 .. j + 1 : Held(m2, at[h], gs[h].ty, gs[h].value)
    <3>1. \A h \in 1 .. j + 1 : h \in 1 .. j \/ h = g
      BY <2>2
    <3> QED
      BY <2>7, <2>9, <3>1
  <2> QED
    BY <2>2, <2>3, <2>7, <2>8, <2>10
<1> HIDE DEF T
<1>7. n \in T
  BY <1>5, <1>6, SetInduction
<1>8. Done(n)
  BY <1>7 DEF T
<1> QED
  BY <1>1, <1>2, <1>4, <1>8

\* New objects behind the others.
LEMMA ObjectsAppended ==
  ASSUME NEW os, NEW m, NEW R, AreObjects(os, m, R), NEW new, IsSequence(new),
         \A o \in DOMAIN new : IsObject(new[o], m, R),
         \A o, q \in DOMAIN new : o # q => new[o].at # new[q].at,
         \A o \in DOMAIN os : \A q \in DOMAIN new : os[o].at # new[q].at
  PROVE  AreObjects(os \o new, m, R) /\ Extends(os \o new, os)
<1>1. /\ IsSequence(os) /\ Len(os) \in Nat /\ DOMAIN os = 1 .. Len(os)
      /\ Len(new) \in Nat /\ DOMAIN new = 1 .. Len(new)
      /\ \A o \in DOMAIN os : IsObject(os[o], m, R)
      /\ \A o, q \in DOMAIN os : o # q => os[o].at # os[q].at
  BY SequenceFacts DEF AreObjects
<1>2. PICK all : all = os \o new
  OBVIOUS
<1>3. /\ IsSequence(all) /\ DOMAIN all = 1 .. Len(os) + Len(new)
      /\ \A i \in 1 .. Len(os) : all[i] = os[i]
      /\ \A i \in Len(os) + 1 .. Len(os) + Len(new) : all[i] = new[i - Len(os)]
  BY <1>1, <1>2, ConcatFacts
<1>4. ASSUME NEW i \in DOMAIN all
      PROVE  \/ i \in DOMAIN os /\ all[i] = os[i]
             \/ i \notin DOMAIN os /\ i - Len(os) \in DOMAIN new /\ all[i] = new[i - Len(os)]
  <2>1. CASE i <= Len(os)
    <3>1. i \in 1 .. Len(os)
      BY <1>1, <1>3, <2>1
    <3> QED
      BY <1>1, <1>3, <3>1
  <2>2. CASE ~(i <= Len(os))
    <3>1. i \in Len(os) + 1 .. Len(os) + Len(new) /\ i - Len(os) \in 1 .. Len(new) /\ i \notin 1 .. Len(os)
      BY <1>1, <1>3, <2>2
    <3> QED
      BY <1>1, <1>3, <3>1
  <2> QED
    BY <2>1, <2>2
<1>5. \A i \in DOMAIN all : IsObject(all[i], m, R)
  BY <1>1, <1>4
<1>6. ASSUME NEW i \in DOMAIN all, NEW j \in DOMAIN all, i # j PROVE all[i].at # all[j].at
  <2>1. CASE i \in DOMAIN os /\ j \in DOMAIN os
    BY <1>1, <1>4, <1>6, <2>1
  <2>2. CASE i \in DOMAIN os /\ j \notin DOMAIN os
    BY <1>4, <2>2
  <2>3. CASE i \notin DOMAIN os /\ j \in DOMAIN os
    BY <1>4, <2>3
  <2>4. CASE i \notin DOMAIN os /\ j \notin DOMAIN os
    <3>1. i - Len(os) # j - Len(os)
      BY <1>1, <1>3, <1>6
    <3> QED
      BY <1>4, <2>4, <3>1
  <2> QED
    BY <2>1, <2>2, <2>3, <2>4
<1>7. \A i \in DOMAIN os : i \in DOMAIN all /\ all[i] = os[i]
  BY <1>1, <1>3
<1> QED
  BY <1>2, <1>3, <1>5, <1>6, <1>7 DEF AreObjects, Extends

\* The globals become objects, and the pointers to them registers.
GlobalObject(gs, at, g)    == [ty |-> gs[g].ty, at |-> at[g], value |-> gs[g].value]
GlobalPointer(gs, at, n, g) == [ty |-> PointerTo(gs[g].ty), local |-> at[g],
                                value |-> [object |-> n + g, first |-> 1]]

LEMMA ClInitKeeps ==
  ASSUME IInv, printClInit, "dataArray" \notin Divergences, "padding" \notin Divergences
  PROVE  IInv' /\ WriteStays
<1>1. PICK gs, at :
        /\ gs \in GlobalLists /\ at = GlobalAddress(gs) /\ executed = -1
        /\ \A g \in DOMAIN gs : NumbersAreOperands(gs[g]) /\ NeedsNoPadding(gs[g])
        /\ memory' = InitializeGlobals(memory, gs)
        /\ blocks' = {at[g] .. at[g] + getTypeAllocSize(gs[g].ty) - 1 : g \in DOMAIN gs}
        /\ objects' = objects \o [g \in DOMAIN gs |-> GlobalObject(gs, at, g)]
        /\ reg' = reg \o [g \in DOMAIN gs |-> GlobalPointer(gs, at, Len(objects), g)]
        /\ executed' = 0 /\ stack' = stack
  BY DEF printClInit, GlobalObject, GlobalPointer
<1> DEFINE fresh == {Extent(at[g], gs[g].ty) : g \in DOMAIN gs}
           A == UNION fresh
           R2 == Regions \cup fresh
<1>2. PICK n \in Nat : n = Len(gs) /\ DOMAIN gs = 1 .. n
  BY <1>1, GlobalPlaces
<1>3. /\ \A g \in 1 .. n : /\ IsConstant(gs[g]) /\ IsValueType(gs[g].ty)
                           /\ at[g] \in Nat /\ HeapBase <= at[g]
                           /\ getTypeAllocSize(gs[g].ty) \in Nat \ {0}
                           /\ at[g] + getTypeAllocSize(gs[g].ty) <= StackBase
      /\ \A g, h \in 1 .. n : h < g => at[h] + getTypeAllocSize(gs[h].ty) <= at[g]
  BY <1>1, <1>2, GlobalPlaces, Layout DEF IsConstant
<1>4. blocks = {} /\ stack = StackBase /\ Regions = Passed /\ IsMemory(memory, StackBase)
  BY <1>1 DEF IInv, Regions
<1>5. blocks' = fresh /\ Regions' = R2
  <2>1. blocks' = fresh
    BY <1>1 DEF Extent
  <2> QED
    BY <1>4, <2>1 DEF Regions
<1>6. ASSUME NEW g \in 1 .. n PROVE Extent(at[g], gs[g].ty) \in fresh /\ Extent(at[g], gs[g].ty) \subseteq A
  BY <1>2
<1>7. /\ Changes(memory, memory', A) /\ IsMemory(memory', StackBase)
      /\ \A g \in 1 .. n : Held(memory', at[g], gs[g].ty, gs[g].value)
  <2>1. \A g \in DOMAIN gs : Extent(GlobalAddress(gs)[g], gs[g].ty) \subseteq A
    BY <1>1, <1>2, <1>6
  <2> HIDE DEF A
  <2>2. PICK m, m2 : m = memory /\ m2 = InitializeGlobals(memory, gs)
    OBVIOUS
  <2>3. /\ Changes(m, InitializeGlobals(m, gs), A) /\ IsMemory(InitializeGlobals(m, gs), StackBase)
        /\ \A g \in DOMAIN gs :
              Held(InitializeGlobals(m, gs), GlobalAddress(gs)[g], gs[g].ty, gs[g].value)
    BY <1>1, <1>4, <2>1, <2>2, GlobalsEffect
  <2> QED
    BY <1>1, <1>2, <2>2, <2>3
<1>8. ASSUME NEW g \in 1 .. n
      PROVE  /\ Extent(at[g], gs[g].ty) \subseteq 1 .. StackBase - 1
             /\ \A b \in Extent(at[g], gs[g].ty) : HeapBase <= b
  <2>1. PICK x \in Nat, y \in Nat : x = at[g] /\ y = getTypeAllocSize(gs[g].ty) /\ HeapBase <= x /\ x + y <= StackBase
    BY <1>3
  <2>2. HeapBase \in Nat \ {0} /\ StackBase \in Nat \ {0}
    BY BaseFacts
  <2>3. x .. x + y - 1 \subseteq 1 .. StackBase - 1 /\ \A b \in x .. x + y - 1 : HeapBase <= b
    BY <2>1, <2>2
  <2> QED
    BY <2>1, <2>3 DEF Extent
<1>9. ASSUME NEW b \in Regions PROVE b \subseteq 1 .. StackBase - 1 /\ \A c \in b : ~(HeapBase <= c)
  <2>1. b \subseteq 1 .. HeapBase - 1
    BY <1>4, PassedFacts
  <2>2. HeapBase \in Nat /\ StackBase \in Nat /\ HeapBase <= StackBase
    BY BaseFacts
  <2>3. 1 .. HeapBase - 1 \subseteq 1 .. StackBase - 1 /\ \A c \in 1 .. HeapBase - 1 : ~(HeapBase <= c)
    BY <2>2
  <2> QED
    BY <2>1, <2>3
<1>10. \A b \in Regions : b \cap A = {}
  BY <1>2, <1>8, <1>9
<1>11. AreRegions(R2, StackBase)
  <2>1. \A b \in R2 : b \subseteq 1 .. StackBase - 1
    BY <1>2, <1>8, <1>9
  <2>2. \A b, c \in Regions : b # c => b \cap c = {}
    BY <1>4, PassedFacts
  <2>3. \A b \in Regions, c \in fresh : b \cap c = {}
    BY <1>10
  <2>4. ASSUME NEW g \in 1 .. n, NEW h \in 1 .. n, h < g
        PROVE  Extent(at[g], gs[g].ty) \cap Extent(at[h], gs[h].ty) = {}
    <3>1. PICK x \in Nat, y \in Nat, z \in Nat, w \in Nat :
             /\ x = at[h] /\ y = at[g] /\ z = getTypeAllocSize(gs[h].ty) /\ w = getTypeAllocSize(gs[g].ty)
             /\ x + z <= y
      BY <1>3, <2>4
    <3>2. (x .. x + z - 1) \cap (y .. y + w - 1) = {}
      BY <3>1
    <3> QED
      BY <3>1, <3>2 DEF Extent
  <2>5. \A b, c \in fresh : b # c => b \cap c = {}
    <3> SUFFICES ASSUME NEW g \in 1 .. n, NEW h \in 1 .. n, g # h
                 PROVE  Extent(at[g], gs[g].ty) \cap Extent(at[h], gs[h].ty) = {}
      BY <1>2
    <3>1. h < g \/ g < h
      OBVIOUS
    <3> QED
      BY <2>4, <3>1
  <2> HIDE DEF fresh
  <2> QED
    BY <2>1, <2>2, <2>3, <2>5 DEF AreRegions
<1> HIDE DEF fresh, A
<1>12. /\ AreObjects(objects, memory', R2) /\ AreRegisters(reg, memory', R2, objects)
  <2>1. PICK m2 : m2 = memory'
    OBVIOUS
  <2>2. Changes(memory, m2, A)
    BY <1>7, <2>1
  <2>3. AreObjects(objects, m2, Regions \cup fresh) /\ AreRegisters(reg, m2, Regions \cup fresh, objects)
    BY <1>10, <2>2, FreshKept
  <2> QED
    BY <2>1, <2>3
<1> DEFINE os == [g \in DOMAIN gs |-> GlobalObject(gs, at, g)]
           rs == [g \in DOMAIN gs |-> GlobalPointer(gs, at, Len(objects), g)]
<1>27. PICK k \in Nat : k = Len(objects) /\ DOMAIN objects = 1 .. k /\ IsSequence(objects)
  <2>1. Len(objects) \in Nat /\ DOMAIN objects = 1 .. Len(objects) /\ IsSequence(objects)
    BY StateFacts
  <2> QED
    BY <2>1
<1>13. PICK os1, rs1 :
         /\ os1 = os /\ rs1 = rs
         /\ IsSequence(os1) /\ IsSequence(rs1) /\ Len(os1) = n /\ DOMAIN os1 = 1 .. n /\ DOMAIN rs1 = 1 .. n
         /\ \A g \in 1 .. n : os1[g] = GlobalObject(gs, at, g) /\ rs1[g] = GlobalPointer(gs, at, k, g)
  <2>2. os = [g \in 1 .. n |-> os[g]] /\ rs = [g \in 1 .. n |-> rs[g]]
    BY <1>2
  <2>3. \A g \in 1 .. n : os[g] = GlobalObject(gs, at, g) /\ rs[g] = GlobalPointer(gs, at, k, g)
    BY <1>2, <1>27
  <2> HIDE DEF os, rs
  <2>4. IsSequence(os) /\ Len(os) = n /\ DOMAIN os = 1 .. n
    BY <2>2, FunctionIsSequence
  <2>5. IsSequence(rs) /\ Len(rs) = n /\ DOMAIN rs = 1 .. n
    BY <2>2, FunctionIsSequence
  <2> QED
    BY <2>3, <2>4, <2>5
<1>14. objects' = objects \o os1 /\ reg' = reg \o rs1
  BY <1>1, <1>13
<1> HIDE DEF os, rs
<1>15. ASSUME NEW g \in 1 .. n
       PROVE  /\ os1[g].ty = gs[g].ty /\ os1[g].at = at[g] /\ os1[g].value = gs[g].value
              /\ rs1[g].ty = PointerTo(gs[g].ty) /\ rs1[g].local = at[g]
              /\ rs1[g].value.object = k + g /\ rs1[g].value.first = 1
  <2>1. os1[g] = [ty |-> gs[g].ty, at |-> at[g], value |-> gs[g].value]
    BY <1>13 DEF GlobalObject
  <2>2. rs1[g] = [ty |-> PointerTo(gs[g].ty), local |-> at[g], value |-> [object |-> k + g, first |-> 1]]
    BY <1>13 DEF GlobalPointer
  <2>3. os1[g].ty = gs[g].ty /\ os1[g].at = at[g] /\ os1[g].value = gs[g].value
    BY <2>1
  <2>4. /\ rs1[g].ty = PointerTo(gs[g].ty) /\ rs1[g].local = at[g]
        /\ rs1[g].value = [object |-> k + g, first |-> 1]
    BY <2>2
  <2> QED
    BY <2>3, <2>4
<1>16. \A g \in 1 .. n : IsObject(os1[g], memory', R2)
  <2> SUFFICES ASSUME NEW g \in 1 .. n PROVE IsObject(os1[g], memory', R2)
    OBVIOUS
  <2>1. IsValueType(gs[g].ty) /\ at[g] \in Nat /\ IsValue(gs[g].ty, gs[g].value)
    BY <1>3 DEF IsConstant, IsValue
  <2>2. Extent(at[g], gs[g].ty) \in R2 /\ Held(memory', at[g], gs[g].ty, gs[g].value)
    BY <1>6, <1>7
  <2> QED
    BY <1>15, <2>1, <2>2 DEF IsObject
<1>17. \A g, h \in 1 .. n : g # h => os1[g].at # os1[h].at
  <2> SUFFICES ASSUME NEW g \in 1 .. n, NEW h \in 1 .. n, h < g PROVE at[g] # at[h]
    BY <1>15
  <2>1. PICK x \in Nat, y \in Nat, z \in Nat \ {0} :
           x = at[h] /\ y = at[g] /\ z = getTypeAllocSize(gs[h].ty) /\ x + z <= y
    BY <1>3
  <2> QED
    BY <2>1
<1>18. \A o \in DOMAIN objects : \A g \in 1 .. n : objects[o].at # os1[g].at
  <2> SUFFICES ASSUME NEW o \in DOMAIN objects, NEW g \in 1 .. n PROVE objects[o].at # at[g]
    BY <1>15
  <2>1. /\ Extent(objects[o].at, objects[o].ty) \in Regions
        /\ objects[o].at \in Extent(objects[o].at, objects[o].ty)
    BY StateFacts, ExtentFacts DEF AreObjects, IsObject
  <2>2. ~(HeapBase <= objects[o].at) /\ HeapBase <= at[g]
    BY <1>3, <1>9, <2>1
  <2> QED
    BY <2>2
<1>19. AreObjects(objects', memory', R2) /\ Extends(objects', objects)
  <2>1. PICK m2 : m2 = memory'
    OBVIOUS
  <2>2. /\ AreObjects(objects, m2, R2) /\ IsSequence(os1)
        /\ \A o \in DOMAIN os1 : IsObject(os1[o], m2, R2)
        /\ \A o, q \in DOMAIN os1 : o # q => os1[o].at # os1[q].at
        /\ \A o \in DOMAIN objects : \A q \in DOMAIN os1 : objects[o].at # os1[q].at
    <3> HIDE DEF R2
    <3>1. DOMAIN os1 = 1 .. n
      BY <1>13
    <3>2. AreObjects(objects, m2, R2) /\ IsSequence(os1)
      BY <1>12, <1>13, <2>1
    <3>3. \A o \in DOMAIN os1 : IsObject(os1[o], m2, R2)
      BY <1>16, <2>1, <3>1
    <3> QED
      BY <1>17, <1>18, <3>1, <3>2, <3>3
  <2> HIDE DEF R2
  <2>3. AreObjects(objects \o os1, m2, R2) /\ Extends(objects \o os1, objects)
    BY <2>2, ObjectsAppended
  <2> QED
    BY <1>14, <2>1, <2>3
<1>20. \A g \in 1 .. n : k + g \in DOMAIN objects' /\ objects'[k + g] = os1[g]
  <2>1. /\ DOMAIN (objects \o os1) = 1 .. k + n
        /\ \A i \in k + 1 .. k + n : (objects \o os1)[i] = os1[i - k]
    BY <1>13, <1>27, ConcatFacts
  <2>2. ASSUME NEW g \in 1 .. n PROVE k + g \in 1 .. k + n /\ k + g \in k + 1 .. k + n /\ (k + g) - k = g
    OBVIOUS
  <2> QED
    BY <1>14, <2>1, <2>2
<1>21. \A g \in DOMAIN rs1 : IsRegister(rs1[g], memory', R2, objects')
  <2> SUFFICES ASSUME NEW g \in 1 .. n PROVE IsPointer(rs1[g], objects')
    BY <1>13 DEF IsRegister
  <2>1. PICK t, p, o : t = gs[g].ty /\ p = rs1[g] /\ o = os1[g]
    OBVIOUS
  <2>2. /\ p.ty = PointerTo(t) /\ p.local = at[g] /\ p.value.object = k + g /\ p.value.first = 1
        /\ o.ty = t /\ o.at = at[g] /\ objects'[p.value.object] = o /\ p.value.object \in DOMAIN objects'
        /\ IsValueType(t) /\ at[g] \in Nat
    BY <1>3, <1>15, <1>20, <2>1
  <2>3. p.ty.kind = "pointer" /\ p.ty.to = t
    BY <2>2 DEF PointerTo
  <2>4. /\ Len(t.widths) \in Nat /\ DOMAIN t.widths = 1 .. Len(t.widths) /\ LeafOffset(t, 1) = 0
    BY <2>2, TypeFacts, Layout
  <2>5. 1 + Len(t.widths) - 1 <= Len(t.widths) /\ \A i \in 1 .. Len(t.widths) : 1 + i - 1 = i
    BY <2>4
  <2>6. at[g] + LeafOffset(t, 1) = at[g]
    BY <2>2, <2>4
  <2>7. \A i \in DOMAIN t.widths : t.widths[1 + i - 1] = t.widths[i]
    BY <2>4, <2>5
  <2>8. IsPointer(p, objects')
    BY <2>2, <2>3, <2>5, <2>6, <2>7 DEF IsPointer
  <2> QED
    BY <2>1, <2>8
<1>22. AreRegisters(reg', memory', R2, objects')
  <2>1. PICK m2, os2 : m2 = memory' /\ os2 = objects'
    OBVIOUS
  <2> HIDE DEF R2
  <2>2. AreRegisters(reg, m2, R2, objects) /\ Extends(os2, objects)
    BY <1>12, <1>19, <2>1
  <2>3. AreRegisters(reg, m2, R2, os2)
    <3>1. Changes(m2, m2, {}) /\ R2 \subseteq R2
      BY ChangesNothing
    <3>2. \A r \in DOMAIN reg : IsComposite(reg[r], m2, R2) => Extent(reg[r].local, reg[r].ty) \cap {} = {}
      OBVIOUS
    <3> QED
      BY <2>2, <3>1, <3>2, RegistersKept
  <2>4. AreRegisters(reg \o rs1, m2, R2, os2)
    BY <1>13, <1>21, <2>1, <2>3, RegistersAppended
  <2> QED
    BY <1>14, <2>1, <2>4
<1>23. WriteStays
  <2>1. \A a \in DOMAIN memory' : a \notin DOMAIN memory \/ memory'[a] # memory[a] => a \in A
    BY <1>7 DEF Changes
  <2>2. \A a \in A : \E b \in blocks' \ blocks : a \in b
    BY <1>4, <1>5 DEF A
  <2> QED
    BY <2>1, <2>2 DEF WriteStays
<1>24. executed' \in -1 .. MaxInstructions /\ executed' # -1
  <2>1. MaxInstructions \in Nat
    BY AggregatesAssumption DEF AggregatesAssumption
  <2> QED
    BY <1>1, <2>1
<1>25. stack' = StackBase /\ StackBase \in Nat
  BY <1>1, <1>4, BaseFacts
<1> QED
  BY <1>5, <1>7, <1>11, <1>19, <1>22, <1>23, <1>24, <1>25 DEF IInv

-----------------------------------------------------------------------------
(* Registers and objects stay records. *)

LEMMA ConcatElements ==
  ASSUME NEW s, NEW t, IsSequence(s), IsSequence(t), NEW i \in DOMAIN (s \o t)
  PROVE  \/ \E j \in DOMAIN s : (s \o t)[i] = s[j]
         \/ \E j \in DOMAIN t : (s \o t)[i] = t[j]
<1>1. /\ Len(s) \in Nat /\ DOMAIN s = 1 .. Len(s) /\ Len(t) \in Nat /\ DOMAIN t = 1 .. Len(t)
      /\ DOMAIN (s \o t) = 1 .. Len(s) + Len(t)
      /\ \A k \in 1 .. Len(s) : (s \o t)[k] = s[k]
      /\ \A k \in Len(s) + 1 .. Len(s) + Len(t) : (s \o t)[k] = t[k - Len(s)]
  BY SequenceFacts, ConcatFacts
<1>2. CASE i \in 1 .. Len(s)
  BY <1>1, <1>2
<1>3. CASE i \notin 1 .. Len(s)
  <2>1. i \in Len(s) + 1 .. Len(s) + Len(t) /\ i - Len(s) \in 1 .. Len(t)
    BY <1>1, <1>3
  <2> QED
    BY <1>1, <2>1
<1> QED
  BY <1>2, <1>3

LEMMA AppendElements ==
  ASSUME NEW s, IsSequence(s), NEW v, NEW i \in DOMAIN Append(s, v)
  PROVE  Append(s, v)[i] = v \/ \E j \in DOMAIN s : Append(s, v)[i] = s[j]
<1>1. /\ Len(s) \in Nat /\ DOMAIN s = 1 .. Len(s) /\ DOMAIN Append(s, v) = 1 .. Len(s) + 1
      /\ \A k \in 1 .. Len(s) : Append(s, v)[k] = s[k]
      /\ Append(s, v)[Len(s) + 1] = v
  BY SequenceFacts, AppendFacts
<1>2. i = Len(s) + 1 \/ i \in 1 .. Len(s)
  BY <1>1
<1> QED
  BY <1>1, <1>2

IsOperand(v)      == v = Operand(v.ty, v.local, v.value)
IsObjectRecord(o) == o = [ty |-> o.ty, at |-> o.at, value |-> o.value]

LEMMA OperandIsRecord ==
  ASSUME NEW t, NEW local, NEW value
  PROVE  IsOperand(Operand(t, local, value))
BY DEF IsOperand, Operand

\* Every new register is an operand.
AppendsOperand == \E t, local, value : reg' = Append(reg, Operand(t, local, value))

LEMMA OperandAppended ==
  ASSUME IInv, AreRecords, objects' = objects, AppendsOperand
  PROVE  AreRecords'
<1>1. PICK v : IsOperand(v) /\ reg' = Append(reg, v)
  BY OperandIsRecord DEF AppendsOperand
<1>2. \A r \in DOMAIN reg : IsOperand(reg[r])
  BY DEF AreRecords, IsOperand
<1>3. IsSequence(reg)
  BY StateFacts
<1>4. ASSUME NEW r \in DOMAIN reg' PROVE IsOperand(reg'[r])
  <2>1. r \in DOMAIN Append(reg, v) /\ reg'[r] = Append(reg, v)[r]
    BY <1>1
  <2>2. Append(reg, v)[r] = v \/ \E j \in DOMAIN reg : Append(reg, v)[r] = reg[j]
    BY <1>3, <2>1, AppendElements
  <2> QED
    BY <1>1, <1>2, <2>1, <2>2
<1> QED
  BY <1>4 DEF AreRecords, IsOperand

LEMMA ReadingRecords ==
  ASSUME IInv, AreRecords,
         printLoadInstruction \/ printGepInstruction \/ printExtractValue \/ printExtractElement
  PROVE  AreRecords'
<1>1. objects' = objects
  BY DEF printLoadInstruction, printGepInstruction, printExtractValue, printExtractElement, UnchangedMemory
<1>2. CASE printLoadInstruction
  <2>1. AppendsOperand
    BY <1>2 DEF printLoadInstruction, NewRegister, AppendsOperand
  <2> QED
    BY <1>1, <2>1, OperandAppended
<1>3. CASE printGepInstruction
  <2>1. AppendsOperand
    BY <1>3 DEF printGepInstruction, NewRegister, AppendsOperand
  <2> QED
    BY <1>1, <2>1, OperandAppended
<1>4. CASE printExtractValue
  <2>1. AppendsOperand
    BY <1>4 DEF printExtractValue, NewRegister, AppendsOperand
  <2> QED
    BY <1>1, <2>1, OperandAppended
<1>5. CASE printExtractElement
  <2>1. AppendsOperand
    BY <1>5 DEF printExtractElement, NewRegister, AppendsOperand
  <2> QED
    BY <1>1, <2>1, OperandAppended
<1> QED
  BY <1>2, <1>3, <1>4, <1>5

LEMMA ComputingRecords ==
  ASSUME IInv, AreRecords,
         \/ printInsertValue \/ printInsertElement
         \/ printArithmeticInstruction \/ printCmpInstruction \/ printCastInstruction
  PROVE  AreRecords'
<1>1. ASSUME NEW w, NEW from, NEW sources, NEW value, VectorResult(w, from, sources, value)
      PROVE  objects' = objects /\ AppendsOperand
  BY <1>1 DEF VectorResult, NewRegister, AppendsOperand
<1>2. CASE printInsertValue
  <2>1. objects' = objects /\ AppendsOperand
    BY <1>2 DEF printInsertValue, NewRegister, AppendsOperand
  <2> QED
    BY <2>1, OperandAppended
<1>3. CASE printInsertElement
  <2>1. objects' = objects /\ AppendsOperand
    BY <1>3 DEF printInsertElement, NewRegister, AppendsOperand
  <2> QED
    BY <2>1, OperandAppended
<1>4. CASE printArithmeticInstruction
  <2>1. objects' = objects /\ AppendsOperand
    BY <1>1, <1>4 DEF printArithmeticInstruction, Elementwise
  <2> QED
    BY <2>1, OperandAppended
<1>5. CASE printCmpInstruction
  <2>1. objects' = objects /\ AppendsOperand
    BY <1>1, <1>5 DEF printCmpInstruction, Elementwise
  <2> QED
    BY <2>1, OperandAppended
<1>6. CASE printCastInstruction
  <2>1. objects' = objects /\ AppendsOperand
    BY <1>1, <1>6 DEF printCastInstruction
  <2> QED
    BY <2>1, OperandAppended
<1> QED
  BY <1>2, <1>3, <1>4, <1>5, <1>6

LEMMA AllocaRecords ==
  ASSUME IInv, AreRecords, printAllocaInstruction
  PROVE  AreRecords'
<1>1. PICK t \in Allocated :
        /\ objects' = Append(objects, [ty |-> t, at |-> block, value |-> [i \in DOMAIN Leaves(t) |-> Undef]])
        /\ NewRegister(PointerTo(t), block, [object |-> Len(objects) + 1, first |-> 1])
  BY DEF printAllocaInstruction
<1>2. PICK v, o : IsOperand(v) /\ reg' = Append(reg, v) /\ IsObjectRecord(o) /\ objects' = Append(objects, o)
  <2>1. PICK o : o = [ty |-> t, at |-> block, value |-> [i \in DOMAIN Leaves(t) |-> Undef]]
    OBVIOUS
  <2>2. IsObjectRecord(o)
    <3>1. PICK a, value : o = [ty |-> t, at |-> a, value |-> value]
      BY <2>1
    <3> QED
      BY <3>1 DEF IsObjectRecord
  <2> QED
    BY <1>1, <2>1, <2>2, OperandIsRecord DEF NewRegister
<1>3. /\ \A r \in DOMAIN reg : IsOperand(reg[r])
      /\ \A r \in DOMAIN objects : IsObjectRecord(objects[r])
  BY DEF AreRecords, IsOperand, IsObjectRecord
<1>4. IsSequence(reg) /\ IsSequence(objects)
  BY StateFacts
<1>5. \A r \in DOMAIN Append(reg, v) : IsOperand(Append(reg, v)[r])
  BY <1>2, <1>3, <1>4, AppendElements
<1>6. \A r \in DOMAIN Append(objects, o) : IsObjectRecord(Append(objects, o)[r])
  BY <1>2, <1>3, <1>4, AppendElements
<1> QED
  BY <1>2, <1>5, <1>6 DEF AreRecords, IsOperand, IsObjectRecord

LEMMA StoreRecords ==
  ASSUME IInv, AreRecords, printIndirectStore
  PROVE  AreRecords'
<1>1. PICK o, value : reg' = reg /\ objects' = [objects EXCEPT ![o].value = value]
  <2>1. PICK p \in {reg[r] : r \in Pointers} : \E v \in Operands(p.ty.to) :
          /\ UNCHANGED <<stack, blocks, reg>>
          /\ objects' = [objects EXCEPT ![p.value.object].value = [i \in DOMAIN @ |->
               IF i \in p.value.first .. p.value.first + Len(v.value) - 1
               THEN v.value[i - p.value.first + 1] ELSE @[i]]]
    BY DEF printIndirectStore
  <2>2. PICK v : objects' = [objects EXCEPT ![p.value.object].value = [i \in DOMAIN @ |->
               IF i \in p.value.first .. p.value.first + Len(v.value) - 1
               THEN v.value[i - p.value.first + 1] ELSE @[i]]]
    BY <2>1
  <2> QED
    BY <2>1, <2>2
<1>2. /\ \A r \in DOMAIN reg : IsOperand(reg[r])
      /\ \A q \in DOMAIN objects : IsObjectRecord(objects[q])
  BY DEF AreRecords, IsOperand, IsObjectRecord
<1>3. ASSUME NEW q \in DOMAIN objects' PROVE IsObjectRecord(objects'[q])
  <2>1. q \in DOMAIN objects /\ (q # o => objects'[q] = objects[q])
        /\ (q = o => objects'[q] = [objects[q] EXCEPT !.value = value])
    BY <1>1
  <2>2. CASE q = o
    <3>1. PICK t, a, x : objects[q] = [ty |-> t, at |-> a, value |-> x]
      BY <1>2, <2>1 DEF IsObjectRecord
    <3>2. objects'[q] = [ty |-> t, at |-> a, value |-> value]
      BY <2>1, <2>2, <3>1
    <3> QED
      BY <3>2 DEF IsObjectRecord
  <2> QED
    BY <1>2, <2>1, <2>2
<1> QED
  BY <1>1, <1>2, <1>3 DEF AreRecords, IsOperand, IsObjectRecord

LEMMA ShuffleRecords ==
  ASSUME IInv, AreRecords, printShuffleVector
  PROVE  AreRecords'
<1>1. PICK r, mask, v2, n, n2, w, both, value : ShuffleStep(r, mask, v2, n, n2, w, both, value)
  <2>1. PICK r \in Kind({"vector"}), mask \in Masks :
         \E v2 \in {reg[q] : q \in Of(reg[r].ty)} \cup {UndefOf(reg[r].ty)} :
         \E n, n2, w, both, value :
           /\ n = Len(reg[r].value) /\ n2 = (IF v2.local = 0 THEN 0 ELSE n) /\ w = Element(reg[r].ty)
           /\ both = reg[r].value \o v2.value
           /\ value = [i \in DOMAIN mask |-> IF mask[i] = -1 THEN Undef ELSE both[mask[i] + 1]]
           /\ ShuffleStep(r, mask, v2, n, n2, w, both, value)
    BY ShuffleOfRegisters
  <2>2. \E v2, n, n2, w, both, value : ShuffleStep(r, mask, v2, n, n2, w, both, value)
    BY <2>1
  <2> QED
    BY <2>2
<1>2. CASE \A i \in DOMAIN mask : mask[i] = 0
  <2>1. objects' = objects /\ AppendsOperand
    BY <1>1, <1>2 DEF ShuffleStep, VectorResult, NewRegister, AppendsOperand
  <2> QED
    BY <2>1, OperandAppended
<1>3. CASE ~\A i \in DOMAIN mask : mask[i] = 0
  <2>1. PICK v, rs : /\ objects' = objects /\ IsOperand(v)
                     /\ rs = [reg EXCEPT ![r].local = block] /\ reg' = Append(rs, v)
    <3>1. /\ objects' = objects
          /\ reg' = Append([reg EXCEPT ![r].local = block],
                           Operand(Vector(Len(mask), w), Block2((n + n2) * w), value))
      BY <1>1, <1>3 DEF ShuffleStep
    <3> QED
      BY <3>1, OperandIsRecord
  <2>2. /\ \A q \in DOMAIN reg : IsOperand(reg[q])
        /\ \A q \in DOMAIN objects : IsObjectRecord(objects[q])
    BY DEF AreRecords, IsOperand, IsObjectRecord
  <2>3. DOMAIN rs = DOMAIN reg /\ \A q \in DOMAIN reg : q # r => rs[q] = reg[q]
    BY <2>1
  <2>4. ASSUME NEW q \in DOMAIN rs PROVE IsOperand(rs[q])
    <3>1. CASE q = r
      <4>1. PICK t, a, x : reg[q] = [ty |-> t, local |-> a, value |-> x]
        BY <2>2, <2>3 DEF IsOperand, Operand
      <4>2. rs[q] = [ty |-> t, local |-> block, value |-> x]
        BY <2>1, <2>3, <3>1, <4>1
      <4>3. rs[q] = Operand(t, block, x)
        BY <4>2 DEF Operand
      <4> QED
        BY <4>3, OperandIsRecord
    <3> QED
      BY <2>2, <2>3, <3>1
  <2>5. IsSequence(rs)
    <3>1. Len(reg) \in Nat /\ DOMAIN reg = 1 .. Len(reg)
      BY StateFacts
    <3>2. rs = [q \in 1 .. Len(reg) |-> rs[q]]
      BY <2>1, <3>1
    <3> QED
      BY <3>1, <3>2, FunctionIsSequence
  <2>6. \A q \in DOMAIN Append(rs, v) : IsOperand(Append(rs, v)[q])
    BY <2>1, <2>4, <2>5, AppendElements
  <2> QED
    BY <2>1, <2>2, <2>6 DEF AreRecords, IsOperand, IsObjectRecord
<1> QED
  BY <1>2, <1>3

LEMMA OperandPackRecords ==
  ASSUME IInv, AreRecords, printOperandPack
  PROVE  AreRecords'
<1>1. PICK r1, r2, locals : /\ objects' = objects
                            /\ reg' = reg \o [i \in 1..2 |-> Operand(<<reg[r1], reg[r2]>>[i].ty, locals[i],
                                                                    <<reg[r1], reg[r2]>>[i].value)]
  <2>1. PICK r1, r2 : \E packed :
        LET vs == <<reg[r1], reg[r2]>>
            widths == [i \in 1..2 |-> Width(vs[i])]
            unpacked(i) == LET x == Read(packed.memory, unpackAt(block, widths, i), widths[i])
                           IN IF vs[i].ty.kind = "scalar" THEN x ELSE AddressIn(x)
        IN
        /\ reg' = reg \o [i \in 1..2 |-> Operand(vs[i].ty, unpacked(i), vs[i].value)]
        /\ UNCHANGED objects
    BY ZenonT(60) DEF printOperandPack
  <2> DEFINE vs == <<reg[r1], reg[r2]>>
             widths == [i \in 1..2 |-> Width(vs[i])]
             unpacked(packed, i) == LET x == Read(packed.memory, unpackAt(block, widths, i), widths[i])
                                    IN IF vs[i].ty.kind = "scalar" THEN x ELSE AddressIn(x)
  <2>2. PICK packed : /\ reg' = reg \o [i \in 1..2 |-> Operand(vs[i].ty, unpacked(packed, i), vs[i].value)]
                      /\ UNCHANGED objects
    BY <2>1
  <2> HIDE DEF unpacked
  <2>3. PICK locals : locals = [i \in 1 .. 2 |-> unpacked(packed, i)]
    OBVIOUS
  <2>4. [i \in 1..2 |-> Operand(vs[i].ty, unpacked(packed, i), vs[i].value)]
          = [i \in 1..2 |-> Operand(vs[i].ty, locals[i], vs[i].value)]
    BY <2>3
  <2> QED
    BY <2>2, <2>4
<1> DEFINE vs == <<reg[r1], reg[r2]>>
           new == [i \in 1..2 |-> Operand(vs[i].ty, locals[i], vs[i].value)]
<1>2. new = [i \in 1 .. 2 |-> new[i]] /\ \A i \in 1 .. 2 : IsOperand(new[i])
  BY OperandIsRecord
<1>3. reg' = reg \o new
  BY <1>1
<1> HIDE DEF vs, new
<1>4. IsSequence(new) /\ DOMAIN new = 1 .. 2
  BY <1>2, FunctionIsSequence
<1>5. /\ \A r \in DOMAIN reg : IsOperand(reg[r])
      /\ \A r \in DOMAIN objects : IsObjectRecord(objects[r])
  BY DEF AreRecords, IsOperand, IsObjectRecord
<1>6. IsSequence(reg)
  BY StateFacts
<1>7. \A r \in DOMAIN (reg \o new) : IsOperand((reg \o new)[r])
  BY <1>2, <1>4, <1>5, <1>6, ConcatElements
<1> QED
  BY <1>1, <1>3, <1>5, <1>7 DEF AreRecords, IsOperand, IsObjectRecord

LEMMA ClInitRecords ==
  ASSUME IInv, AreRecords, printClInit
  PROVE  AreRecords'
<1>1. PICK gs, at, k :
        /\ gs \in GlobalLists /\ objects' = objects \o [g \in DOMAIN gs |-> GlobalObject(gs, at, g)]
        /\ reg' = reg \o [g \in DOMAIN gs |-> GlobalPointer(gs, at, k, g)]
  BY DEF printClInit, GlobalObject, GlobalPointer
<1> DEFINE os == [g \in DOMAIN gs |-> GlobalObject(gs, at, g)]
           rs == [g \in DOMAIN gs |-> GlobalPointer(gs, at, k, g)]
<1>2. PICK n \in Nat : n = Len(gs) /\ DOMAIN gs = 1 .. n
  BY <1>1, GlobalPlaces
<1>3. os = [g \in 1 .. n |-> os[g]] /\ rs = [g \in 1 .. n |-> rs[g]]
  BY <1>2
<1>4. /\ \A g \in 1 .. n : IsObjectRecord(os[g])
      /\ \A g \in 1 .. n : IsOperand(rs[g])
  BY <1>2 DEF GlobalObject, GlobalPointer, IsObjectRecord, IsOperand, Operand
<1>5. objects' = objects \o os /\ reg' = reg \o rs
  BY <1>1
<1> HIDE DEF os, rs
<1>6. IsSequence(os) /\ DOMAIN os = 1 .. n
  BY <1>3, FunctionIsSequence
<1>7. IsSequence(rs) /\ DOMAIN rs = 1 .. n
  BY <1>3, FunctionIsSequence
<1>8. /\ \A r \in DOMAIN reg : IsOperand(reg[r])
      /\ \A r \in DOMAIN objects : IsObjectRecord(objects[r])
  BY DEF AreRecords, IsOperand, IsObjectRecord
<1>9. IsSequence(reg) /\ IsSequence(objects)
  BY StateFacts
<1>10. \A r \in DOMAIN (reg \o rs) : IsOperand((reg \o rs)[r])
  BY <1>4, <1>7, <1>8, <1>9, ConcatElements
<1>11. \A r \in DOMAIN (objects \o os) : IsObjectRecord((objects \o os)[r])
  BY <1>4, <1>6, <1>8, <1>9, ConcatElements
<1> QED
  BY <1>5, <1>10, <1>11 DEF AreRecords, IsOperand, IsObjectRecord

-----------------------------------------------------------------------------
(* The theorems. *)

\* Every step keeps the invariant and writes where it may.
LEMMA StepKeeps ==
  ASSUME Divergences = {}, IInv, AreRecords, Next
  PROVE  IInv' /\ AreRecords' /\ WriteStays
<1>1. CASE printClInit
  BY <1>1, ClInitKeeps, ClInitRecords
<1>2. CASE printAllocaInstruction
  BY <1>2, AllocaKeeps, AllocaRecords
<1>3. CASE printLoadInstruction
  BY <1>3, LoadKeeps, ReadingRecords
<1>4. CASE printIndirectStore
  BY <1>4, StoreKeeps, StoreRecords
<1>5. CASE printGepInstruction
  BY <1>5, GepKeeps, ReadingRecords
<1>6. CASE printInsertValue
  BY <1>6, InsertValueKeeps, ComputingRecords
<1>7. CASE printExtractValue
  BY <1>7, ExtractValueKeeps, ReadingRecords
<1>8. CASE printArithmeticInstruction
  BY <1>8, ArithmeticKeeps, ComputingRecords
<1>9. CASE printCmpInstruction
  BY <1>9, CmpKeeps, ComputingRecords
<1>10. CASE printCastInstruction
  BY <1>10, CastKeeps, ComputingRecords
<1>11. CASE printInsertElement
  BY <1>11, InsertElementKeeps, ComputingRecords
<1>12. CASE printExtractElement
  BY <1>12, ExtractElementKeeps, ReadingRecords
<1>13. CASE printShuffleVector
  BY <1>13, ShuffleKeeps, ShuffleRecords
<1>14. CASE printOperandPack
  BY <1>14, OperandPackKeeps, OperandPackRecords
<1> QED
  BY <1>1, <1>2, <1>3, <1>4, <1>5, <1>6, <1>7, <1>8, <1>9, <1>10, <1>11, <1>12, <1>13, <1>14 DEF Next

\* The registers and objects of the first state are records.
LEMMA InitAreRecords ==
  ASSUME Init
  PROVE  AreRecords
<1>1. ASSUME NEW a \in DOMAIN reg PROVE IsOperand(reg[a])
  <2>1. \E t, local, value : reg[a] = Operand(t, local, value)
    <3>1. reg[a] = IF a \in DOMAIN Arguments
                   THEN [ty |-> Arguments[a], local |-> ArgumentAddress[a], value |-> ArgumentValue(a)]
                   ELSE [ty |-> PointerTo(Pointee), local |-> ArgumentAddress[a],
                         value |-> [object |-> 1, first |-> 1]]
      BY DEF Init
    <3>2. CASE a \in DOMAIN Arguments
      <4>1. reg[a] = Operand(Arguments[a], ArgumentAddress[a], ArgumentValue(a))
        BY <3>1, <3>2 DEF Operand
      <4> QED
        BY <4>1
    <3>3. CASE a \notin DOMAIN Arguments
      <4>1. reg[a] = Operand(PointerTo(Pointee), ArgumentAddress[a], [object |-> 1, first |-> 1])
        BY <3>1, <3>3 DEF Operand
      <4> QED
        BY <4>1
    <3> QED
      BY <3>2, <3>3
  <2> QED
    BY <2>1, OperandIsRecord
<1>2. ASSUME NEW o \in DOMAIN objects PROVE IsObjectRecord(objects[o])
  <2>1. PICK t, a, x : objects = <<[ty |-> t, at |-> a, value |-> x]>>
    BY DEF Init
  <2>2. o = 1
    BY <2>1
  <2>3. objects[o] = [ty |-> t, at |-> a, value |-> x]
    BY <2>1, <2>2
  <2> QED
    BY <2>3 DEF IsObjectRecord
<1> QED
  BY <1>1, <1>2 DEF AreRecords, IsOperand, IsObjectRecord

LEMMA StutteringKeeps ==
  ASSUME IInv, AreRecords, UNCHANGED vars
  PROVE  IInv' /\ AreRecords'
<1>1. /\ memory' = memory /\ stack' = stack /\ blocks' = blocks /\ reg' = reg
      /\ objects' = objects /\ executed' = executed /\ Regions' = Regions
  BY DEF vars, Regions
<1>2. IInv'
  BY <1>1 DEF IInv
<1>3. AreRecords'
  BY <1>1 DEF AreRecords
<1> QED
  BY <1>2, <1>3

\* The inductive invariant: what registers and objects hold lies in regions
\* apart from each other, where LLVM's values are, number by number.
THEOREM Invariance ==
  ASSUME Divergences = {}
  PROVE  Spec => [](IInv /\ AreRecords)
<1>1. Init => IInv /\ AreRecords
  BY InitIsInvariant, InitAreRecords
<1>2. IInv /\ AreRecords /\ [Next]_vars => IInv' /\ AreRecords'
  BY StepKeeps, StutteringKeeps
<1> QED
  BY <1>1, <1>2, PTL DEF Spec

\* What the invariant says of one register.
LEMMA RegisterFacts ==
  ASSUME IInv, NEW r \in DOMAIN reg
  PROVE  /\ reg[r].ty.kind = "pointer" => IsPointer(reg[r], objects)
         /\ reg[r].ty.kind = "scalar" => IsScalar(reg[r])
         /\ reg[r].ty.kind \notin {"pointer", "scalar"} => IsComposite(reg[r], memory, Regions)
<1>1. IsPointer(reg[r], objects) \/ IsScalar(reg[r]) \/ IsComposite(reg[r], memory, Regions)
  BY StateFacts DEF IsRegister
<1>2. IsPointer(reg[r], objects) => reg[r].ty.kind = "pointer"
  BY DEF IsPointer
<1>3. IsScalar(reg[r]) => reg[r].ty.kind = "scalar"
  BY DEF IsScalar
<1>4. IsComposite(reg[r], memory, Regions) => reg[r].ty.kind \notin {"pointer", "scalar"}
  BY DEF IsComposite, IsValueType
<1> QED
  BY <1>1, <1>2, <1>3, <1>4

\* The local variable of every register of composite or pointer type is an
\* address in allocated memory or the caller's: no handler of a vector, struct
\* or array leaves the contents where the address belongs.
THEOREM TypeCorrect ==
  ASSUME Divergences = {}
  PROVE  Spec => []TypeOK
<1>1. ASSUME IInv PROVE TypeOK
  <2>1. executed \in -1 .. MaxInstructions /\ stack >= StackBase
    BY <1>1 DEF IInv
  <2>2. \A a \in DOMAIN memory : memory[a][2] \in {0, 1, 2, 4, 8} /\ memory[a][1] # Undef
    BY <1>1 DEF IInv, IsMemory
  <2>3. ASSUME NEW r \in DOMAIN reg, reg[r].ty.kind # "scalar"
        PROVE  \E b \in blocks \cup {1 .. HeapBase - 1} : reg[r].local \in b
    <3>1. \E b \in Regions : reg[r].local \in b
      <4>1. CASE reg[r].ty.kind = "pointer"
        <5>1. IsPointer(reg[r], objects) /\ AreObjects(objects, memory, Regions)
          BY <1>1, <4>1, RegisterFacts, StateFacts
        <5>2. PICK o : /\ o = objects[reg[r].value.object] /\ IsValueType(reg[r].ty.to) /\ reg[r].local \in Nat
                       /\ Extent(reg[r].local, reg[r].ty.to) \subseteq Extent(o.at, o.ty)
                       /\ Extent(o.at, o.ty) \in Regions
          BY <5>1, PointedTo
        <5>3. reg[r].local \in Extent(reg[r].local, reg[r].ty.to)
          BY <5>2, ExtentFacts
        <5> QED
          BY <5>2, <5>3
      <4>2. CASE reg[r].ty.kind # "pointer"
        <5>1. IsComposite(reg[r], memory, Regions)
          BY <1>1, <2>3, <4>2, RegisterFacts
        <5>2. PICK b \in Regions : Extent(reg[r].local, reg[r].ty) \subseteq b
          BY <5>1 DEF IsComposite
        <5>3. reg[r].local \in Extent(reg[r].local, reg[r].ty)
          BY <5>1, ExtentFacts DEF IsComposite
        <5> QED
          BY <5>2, <5>3
      <4> QED
        BY <4>1, <4>2
    <3>2. PICK b \in Regions : reg[r].local \in b
      BY <3>1
    <3>3. CASE b \in blocks
      BY <3>2, <3>3
    <3>4. CASE b \in Passed
      <4>1. reg[r].local \in 1 .. HeapBase - 1
        BY <3>2, <3>4, PassedFacts
      <4> QED
        BY <4>1
    <3> QED
      BY <3>3, <3>4 DEF Regions
  <2> QED
    BY <2>1, <2>2, <2>3 DEF TypeOK
<1> QED
  BY <1>1, Invariance, PTL

\* Whatever instructions follow, every register of a vector, struct, array or
\* number keeps the value LLVM computed for it when it was assigned.
THEOREM RegistersKeepTheirValues ==
  ASSUME Divergences = {}
  PROVE  Spec => []RegistersHoldLlvmValues
<1>1. ASSUME IInv PROVE RegistersHoldLlvmValues
  <2>1. ASSUME NEW r \in DOMAIN reg, reg[r].ty.kind = "scalar"
        PROVE  Agree(<<reg[r].local>>, reg[r].value)
    <3>1. /\ IsValueType(reg[r].ty) /\ IsValue(reg[r].ty, reg[r].value)
          /\ reg[r].value[1] \in {Undef, reg[r].local}
      BY <1>1, <2>1, RegisterFacts DEF IsScalar
    <3>2. Len(reg[r].ty.widths) = 1
      <4>1. 0 \in Nat
        OBVIOUS
      <4> QED
        BY <2>1, <3>1, <4>1, ScalarHeld
    <3>3. \A i \in DOMAIN reg[r].value : i = 1
      BY <3>1, <3>2, SequenceFacts DEF IsValue
    <3> QED
      BY <3>1, <3>3 DEF Agree
  <2>2. ASSUME NEW r \in DOMAIN reg, reg[r].ty.kind \notin {"pointer", "scalar"}
        PROVE  Agree(ReadAll(memory, reg[r].local, reg[r].ty), reg[r].value)
    <3>1. /\ IsValueType(reg[r].ty) /\ IsValue(reg[r].ty, reg[r].value) /\ reg[r].local \in Nat
          /\ Held(memory, reg[r].local, reg[r].ty, reg[r].value)
      BY <1>1, <2>2, RegisterFacts DEF IsComposite
    <3> QED
      BY <3>1, HeldAgrees
  <2> QED
    BY <2>1, <2>2 DEF RegistersHoldLlvmValues
<1> QED
  BY <1>1, Invariance, PTL

\* By whatever path of getelementptr a pointer was computed, the memory it
\* points to has what was stored there last or what the initialiser says.
THEOREM PointersFindTheirObjects ==
  ASSUME Divergences = {}
  PROVE  Spec => []PointersReachTheirObjects
<1>1. ASSUME IInv PROVE PointersReachTheirObjects
  <2> SUFFICES ASSUME NEW r \in Pointers
               PROVE  Agree(ReadAll(memory, reg[r].local, reg[r].ty.to), Contents(reg[r]))
    BY DEF PointersReachTheirObjects
  <2>1. r \in DOMAIN reg /\ reg[r].ty.kind = "pointer"
    BY DEF Pointers
  <2>2. IsPointer(reg[r], objects) /\ AreObjects(objects, memory, Regions)
    BY <1>1, <2>1, RegisterFacts, StateFacts
  <2>3. PICK t, a, value :
          /\ t = reg[r].ty.to /\ a = reg[r].local
          /\ value = SubSeq(objects[reg[r].value.object].value, reg[r].value.first,
                            reg[r].value.first + Len(t.widths) - 1)
    OBVIOUS
  <2>4. IsValueType(t) /\ a \in Nat /\ IsValue(t, value) /\ Held(memory, a, t, value)
    BY <2>2, <2>3, PointedTo
  <2>5. value = Contents(reg[r])
    BY <2>3 DEF Contents, Leaves
  <2>6. Agree(ReadAll(memory, a, t), value)
    BY <2>4, HeldAgrees
  <2> QED
    BY <2>3, <2>5, <2>6
<1> QED
  BY <1>1, Invariance, PTL

\* Every instruction writes to the blocks it allocates and nowhere else, except
\* a store, which defines no register and writes to an object.
THEOREM WritesStay ==
  ASSUME Divergences = {}
  PROVE  Spec => WritesStayInBlocks
<1>1. ASSUME IInv, AreRecords, [Next]_vars
      PROVE  [WriteStays]_vars
  BY <1>1, StepKeeps
<1>2. [WriteStays]_vars =>
        [\A a \in DOMAIN memory' : a \notin DOMAIN memory \/ memory'[a] # memory[a] =>
           \/ \E b \in blocks' \ blocks : a \in b
           \/ \E o \in DOMAIN objects :
                /\ reg' = reg
                /\ a \in objects[o].at .. objects[o].at + getTypeAllocSize(objects[o].ty) - 1]_vars
  BY DEF WriteStays
<1> QED
  BY <1>1, <1>2, Invariance, PTL DEF Spec, WritesStayInBlocks
=============================================================================
