------------------------- MODULE RuntimeLoadingProofs -------------------------
(***************************************************************************)
(* Proofs about RuntimeLoading, for any threads, providers, names, classes *)
(* and calls.                                                              *)
(*                                                                         *)
(* A thread's stack has at most three activities: the call it made, below  *)
(* the static initialiser the call needs, below the loader of the library  *)
(* this needs.  The proof reads them as three functions of the thread, and *)
(* says what each operation on the stack does to them; from there on no    *)
(* sequence is mentioned.  The invariant has a part about the libraries    *)
(* and static initialisers, Loading, and one about the calls, Calling.     *)
(***************************************************************************)
EXTENDS RuntimeLoading, SequenceTheorems, TLAPS

None    == Activity("none", NumbaRuntime, "check", {}, {})
Bottoms == {"initialize", "loadClass", "read", "address"}

WellFormed(s) ==
  /\ Len(s) \in 0 .. 3
  /\ Len(s) > 0 => s[Len(s)].op \in Bottoms
  /\ Len(s) = 2 => s[1].op = "clinit" \/ (s[1].op = "load" /\ s[2].op = "loadClass")
  /\ Len(s) = 3 => s[1].op = "load" /\ s[2].op = "clinit"

LoaderOf(s) == IF s # <<>> /\ s[1].op = "load" THEN s[1] ELSE None
ClinitOf(s) == IF s # <<>> /\ s[1].op = "clinit" THEN s[1]
               ELSE IF Len(s) = 3 THEN s[2] ELSE None
CallOf(s)   == IF s # <<>> THEN s[Len(s)] ELSE None

\* The three activities a thread may have.
Loader == [t \in Threads |-> LoaderOf(stack[t])]
Clinit == [t \in Threads |-> ClinitOf(stack[t])]
Call   == [t \in Threads |-> CallOf(stack[t])]

Structure == /\ stack \in [Threads -> Seq(ActivityType)]
             /\ \A t \in Threads : WellFormed(stack[t])

-----------------------------------------------------------------------------
(* Sequences of activities. *)

LEMMA ReplaceHead ==
  ASSUME NEW S, NEW s \in Seq(S), s # <<>>, NEW a \in S
  PROVE  /\ <<a>> \o Tail(s) \in Seq(S)
         /\ Len(s) \in Nat \ {0} /\ Len(<<a>> \o Tail(s)) = Len(s)
         /\ (<<a>> \o Tail(s))[1] = a
         /\ \A i \in 2 .. Len(s) : (<<a>> \o Tail(s))[i] = s[i]
  <1>. DEFINE r == Tail(s)
  <1>1. r \in Seq(S) /\ Len(r) = Len(s) - 1 /\ \A i \in 1 .. Len(r) : r[i] = s[i + 1]
    BY HeadTailProperties
  <1>2. Len(s) \in Nat \ {0} /\ Len(r) \in Nat
    BY <1>1, EmptySeq, LenProperties
  <1>. HIDE DEF r
  <1>3. <<a>> \in Seq(S) /\ Len(<<a>>) = 1 /\ <<a>>[1] = a
    OBVIOUS
  <1>4. /\ <<a>> \o r \in Seq(S)
        /\ Len(<<a>> \o r) = 1 + Len(r)
        /\ \A i \in 1 .. 1 + Len(r) : (<<a>> \o r)[i] = IF i <= 1 THEN <<a>>[i] ELSE r[i - 1]
    BY <1>1, <1>3, ConcatProperties
  <1>5. \A i \in 2 .. Len(s) : /\ i \in 1 .. 1 + Len(r) /\ ~(i <= 1)
                               /\ i - 1 \in 1 .. Len(r) /\ (i - 1) + 1 = i
    BY <1>1, <1>2
  <1>6. \A i \in 2 .. Len(s) : (<<a>> \o r)[i] = s[i]
    BY <1>1, <1>4, <1>5
  <1>7. (<<a>> \o r)[1] = a
    BY <1>2, <1>3, <1>4
  <1>8. Len(<<a>> \o r) = Len(s)
    BY <1>1, <1>2, <1>4
  <1>. QED
    BY <1>2, <1>4, <1>6, <1>7, <1>8 DEF r

LEMMA PushHead ==
  ASSUME NEW S, NEW s \in Seq(S), s # <<>>, NEW a \in S, NEW b \in S
  PROVE  /\ <<a, b>> \o Tail(s) \in Seq(S)
         /\ Len(s) \in Nat \ {0} /\ Len(<<a, b>> \o Tail(s)) = Len(s) + 1
         /\ (<<a, b>> \o Tail(s))[1] = a
         /\ (<<a, b>> \o Tail(s))[2] = b
         /\ \A i \in 2 .. Len(s) : (<<a, b>> \o Tail(s))[i + 1] = s[i]
  <1>. DEFINE r == Tail(s)
  <1>1. r \in Seq(S) /\ Len(r) = Len(s) - 1 /\ \A i \in 1 .. Len(r) : r[i] = s[i + 1]
    BY HeadTailProperties
  <1>2. Len(s) \in Nat \ {0} /\ Len(r) \in Nat
    BY <1>1, EmptySeq, LenProperties
  <1>. HIDE DEF r
  <1>3. <<a, b>> \in Seq(S) /\ Len(<<a, b>>) = 2 /\ <<a, b>>[1] = a /\ <<a, b>>[2] = b
    OBVIOUS
  <1>4. /\ <<a, b>> \o r \in Seq(S)
        /\ Len(<<a, b>> \o r) = 2 + Len(r)
        /\ \A i \in 1 .. 2 + Len(r) :
             (<<a, b>> \o r)[i] = IF i <= 2 THEN <<a, b>>[i] ELSE r[i - 2]
    BY <1>1, <1>3, ConcatProperties
  <1>5. \A i \in 2 .. Len(s) : /\ i + 1 \in 1 .. 2 + Len(r) /\ ~(i + 1 <= 2)
                               /\ (i + 1) - 2 \in 1 .. Len(r) /\ ((i + 1) - 2) + 1 = i
    BY <1>1, <1>2
  <1>6. \A i \in 2 .. Len(s) : (<<a, b>> \o r)[i + 1] = s[i]
    BY <1>1, <1>4, <1>5
  <1>7. (<<a, b>> \o r)[1] = a /\ (<<a, b>> \o r)[2] = b
    BY <1>2, <1>3, <1>4
  <1>8. Len(<<a, b>> \o r) = Len(s) + 1
    BY <1>1, <1>2, <1>4
  <1>. QED
    BY <1>2, <1>4, <1>6, <1>7, <1>8 DEF r

LEMMA PopHead ==
  ASSUME NEW S, NEW s \in Seq(S), s # <<>>
  PROVE  /\ Tail(s) \in Seq(S)
         /\ Len(s) \in Nat \ {0} /\ Len(Tail(s)) = Len(s) - 1
         /\ Len(s) = 1 => Tail(s) = <<>>
         /\ Len(s) > 1 => Tail(s) # <<>>
         /\ \A i \in 1 .. Len(s) - 1 : Tail(s)[i] = s[i + 1]
  <1>1. /\ Tail(s) \in Seq(S) /\ Len(Tail(s)) = Len(s) - 1
        /\ \A i \in 1 .. Len(Tail(s)) : Tail(s)[i] = s[i + 1]
    BY HeadTailProperties
  <1>2. Len(s) \in Nat \ {0}
    BY EmptySeq, LenProperties
  <1>3. Tail(s) # <<>> => Len(Tail(s)) # 0
    BY <1>1, EmptySeq
  <1>4. Tail(s) = <<>> => Len(Tail(s)) = 0
    BY EmptySeq
  <1>. QED
    BY <1>1, <1>2, <1>3, <1>4

-----------------------------------------------------------------------------
(* What the operations do to the three activities, for one stack. *)

\* The activity that runs.
LEMMA TopOf ==
  ASSUME NEW s \in Seq(ActivityType), WellFormed(s), s # <<>>
  PROVE  /\ Head(s) = s[1] /\ s[1] \in ActivityType /\ Len(s) \in 1 .. 3
         /\ s[1].op \in {"load", "clinit"} \cup Bottoms
         /\ s[1].op = "load" => LoaderOf(s) = s[1] /\ Len(s) \in {2, 3}
         /\ s[1].op = "clinit" => LoaderOf(s) = None /\ ClinitOf(s) = s[1] /\ Len(s) = 2
         /\ s[1].op \in Bottoms => /\ LoaderOf(s) = None /\ ClinitOf(s) = None
                                   /\ CallOf(s) = s[1] /\ Len(s) = 1
  <1>1. Len(s) \in Nat \ {0} /\ Head(s) = s[1]
    BY EmptySeq
  <1>2. Len(s) \in 1 .. 3 /\ s[1] \in ActivityType
    BY <1>1, LenProperties, ElementOfSeq DEF WellFormed
  <1>. QED
    BY <1>1, <1>2 DEF WellFormed, LoaderOf, ClinitOf, CallOf, Bottoms, None, Activity

LEMMA TypesOfViews ==
  ASSUME NEW s \in Seq(ActivityType), WellFormed(s)
  PROVE  /\ LoaderOf(s) = None \/ (LoaderOf(s) \in ActivityType /\ LoaderOf(s).op = "load")
         /\ ClinitOf(s) = None \/ (ClinitOf(s) \in ActivityType /\ ClinitOf(s).op = "clinit")
         /\ CallOf(s) = None \/ (CallOf(s) \in ActivityType /\ CallOf(s).op \in Bottoms)
         /\ None.op = "none"
         /\ s = <<>> => LoaderOf(s) = None /\ ClinitOf(s) = None /\ CallOf(s) = None
         /\ s # <<>> => CallOf(s) # None
  <1>0. None.op = "none"
    BY DEF None, Activity
  <1>1. CASE s = <<>>
    <2>1. Len(s) = 0
      BY <1>1, EmptySeq
    <2>. QED
      BY <1>0, <1>1, <2>1 DEF LoaderOf, ClinitOf, CallOf
  <1>2. CASE s # <<>>
    <2>1. Len(s) \in 1 .. 3
      BY <1>2, TopOf
    <2>2. \A i \in 1 .. Len(s) : s[i] \in ActivityType
      BY ElementOfSeq
    <2>. QED
      BY <1>0, <1>2, <2>1, <2>2 DEF WellFormed, LoaderOf, ClinitOf, CallOf, Bottoms
  <1>. QED
    BY <1>1, <1>2

\* What a thread does is one of its three activities.
LEMMA DoesOf ==
  ASSUME NEW s \in Seq(ActivityType), WellFormed(s), NEW arg
  PROVE  /\ (\E i \in DOMAIN s : s[i].op = "load" /\ s[i].arg = arg)
              <=> (LoaderOf(s).op = "load" /\ LoaderOf(s).arg = arg)
         /\ (\E i \in DOMAIN s : s[i].op = "clinit" /\ s[i].arg = arg)
              <=> (ClinitOf(s).op = "clinit" /\ ClinitOf(s).arg = arg)
         /\ (\E i \in DOMAIN s : s[i].op = "loadClass" /\ s[i].arg = arg)
              <=> (CallOf(s).op = "loadClass" /\ CallOf(s).arg = arg)
         /\ (\E i \in DOMAIN s : s[i].op = "initialize") <=> CallOf(s).op = "initialize"
  <1>0. None.op = "none"
    BY DEF None, Activity
  <1>1. DOMAIN s = 1 .. Len(s)
    BY LenProperties
  <1>2. CASE s = <<>>
    <2>1. Len(s) = 0
      BY <1>2, EmptySeq
    <2>2. DOMAIN s = {}
      BY <1>1, <2>1
    <2>. QED
      BY <1>0, <1>2, <2>1, <2>2 DEF LoaderOf, ClinitOf, CallOf, Bottoms
  <1>3. CASE s # <<>> /\ Len(s) = 1
    <2>1. DOMAIN s = {1}
      BY <1>1, <1>3
    <2>. QED
      BY <1>0, <1>3, <2>1 DEF WellFormed, LoaderOf, ClinitOf, CallOf, Bottoms
  <1>4. CASE s # <<>> /\ Len(s) = 2
    <2>1. DOMAIN s = {1, 2}
      BY <1>1, <1>4
    <2>. QED
      BY <1>0, <1>4, <2>1 DEF WellFormed, LoaderOf, ClinitOf, CallOf, Bottoms
  <1>5. CASE s # <<>> /\ Len(s) = 3
    <2>1. DOMAIN s = {1, 2, 3}
      BY <1>1, <1>5
    <2>. QED
      BY <1>0, <1>5, <2>1 DEF WellFormed, LoaderOf, ClinitOf, CallOf, Bottoms
  <1>. QED
    BY <1>2, <1>3, <1>4, <1>5, TopOf

\* The top activity goes on.
LEMMA ReplaceOf ==
  ASSUME NEW s \in Seq(ActivityType), WellFormed(s), s # <<>>, NEW a \in ActivityType,
         (s[1].op = "load" /\ a.op = "load") \/ (s[1].op \in Bottoms /\ a.op \in Bottoms)
  PROVE  LET r == <<a>> \o Tail(s)
         IN /\ r \in Seq(ActivityType) /\ WellFormed(r) /\ r # <<>>
            /\ ClinitOf(r) = ClinitOf(s)
            /\ a.op = "load" => LoaderOf(r) = a /\ CallOf(r) = CallOf(s)
            /\ a.op \in Bottoms => LoaderOf(r) = None /\ CallOf(r) = a
  <1>. DEFINE r == <<a>> \o Tail(s)
  <1>1. /\ r \in Seq(ActivityType) /\ Len(r) = Len(s) /\ Len(s) \in Nat \ {0}
        /\ r[1] = a /\ \A i \in 2 .. Len(s) : r[i] = s[i]
    BY ReplaceHead
  <1>. HIDE DEF r
  <1>2. r # <<>>
    BY <1>1, EmptySeq
  <1>3. Len(s) \in 1 .. 3
    BY TopOf
  <1>4. WellFormed(r)
    BY <1>1, <1>3, TopOf DEF WellFormed, Bottoms
  <1>5. ClinitOf(r) = ClinitOf(s)
    BY <1>1, <1>2, <1>3 DEF ClinitOf, Bottoms
  <1>6. a.op = "load" => LoaderOf(r) = a /\ CallOf(r) = CallOf(s)
    <2>1. a.op = "load" => Len(s) \in {2, 3}
      BY TopOf DEF Bottoms
    <2>. QED
      BY <2>1, <1>1, <1>2 DEF LoaderOf, CallOf
  <1>7. a.op \in Bottoms => LoaderOf(r) = None /\ CallOf(r) = a
    <2>1. a.op \in Bottoms => Len(s) = 1
      BY TopOf DEF Bottoms
    <2>. QED
      BY <2>1, <1>1, <1>2 DEF LoaderOf, CallOf, Bottoms
  <1>. QED
    BY <1>1, <1>2, <1>4, <1>5, <1>6, <1>7 DEF r

\* The top activity b calls a.
LEMMA PushOf ==
  ASSUME NEW s \in Seq(ActivityType), WellFormed(s), s # <<>>,
         NEW a \in ActivityType, NEW b \in ActivityType, b.op = s[1].op,
         \/ a.op = "load" /\ b.op \in {"clinit", "loadClass"}
         \/ a.op = "clinit" /\ b.op \in Bottoms
  PROVE  LET r == <<a, b>> \o Tail(s)
         IN /\ r \in Seq(ActivityType) /\ WellFormed(r) /\ r # <<>>
            /\ LoaderOf(r) = IF a.op = "load" THEN a ELSE None
            /\ ClinitOf(r) = IF a.op = "clinit" THEN a
                             ELSE IF b.op = "clinit" THEN b ELSE None
            /\ CallOf(r) = IF b.op = "clinit" THEN CallOf(s) ELSE b
  <1>. DEFINE r == <<a, b>> \o Tail(s)
  <1>1. /\ r \in Seq(ActivityType) /\ Len(r) = Len(s) + 1 /\ Len(s) \in Nat \ {0}
        /\ r[1] = a /\ r[2] = b /\ \A i \in 2 .. Len(s) : r[i + 1] = s[i]
    BY PushHead
  <1>. HIDE DEF r
  <1>2. r # <<>>
    BY <1>1, EmptySeq
  <1>3. /\ b.op = "clinit" => Len(s) = 2
        /\ b.op \in Bottoms => Len(s) = 1
    BY TopOf
  <1>4. CASE b.op = "clinit"
    <2>0. 2 \in 2 .. Len(s) /\ 2 + 1 = 3
      BY <1>3, <1>4
    <2>1. Len(r) = 3 /\ r[3] = s[2]
      BY <2>0, <1>1, <1>3, <1>4
    <2>2. s[2].op \in Bottoms
      <3>1. Len(s) = 2 /\ Len(s) > 0 /\ s[Len(s)].op \in Bottoms
        BY <1>3, <1>4 DEF WellFormed
      <3>2. s[Len(s)] = s[2]
        BY <3>1
      <3>. QED
        BY <3>1, <3>2
    <2>. QED
      BY <1>1, <1>2, <1>3, <1>4, <2>1, <2>2 DEF WellFormed, LoaderOf, ClinitOf, CallOf, Bottoms, r
  <1>5. CASE b.op \in Bottoms
    <2>1. Len(r) = 2
      BY <1>1, <1>3, <1>5
    <2>. QED
      BY <1>1, <1>2, <1>3, <1>5, <2>1 DEF WellFormed, LoaderOf, ClinitOf, CallOf, Bottoms, r
  <1>. QED
    BY <1>4, <1>5 DEF Bottoms

\* The top activity returns.
LEMMA PopOf ==
  ASSUME NEW s \in Seq(ActivityType), WellFormed(s), s # <<>>
  PROVE  LET r == Tail(s)
         IN /\ r \in Seq(ActivityType) /\ WellFormed(r)
            /\ LoaderOf(r) = None
            /\ ClinitOf(r) = IF s[1].op = "load" THEN ClinitOf(s) ELSE None
            /\ CallOf(r) = IF s[1].op \in {"load", "clinit"} THEN CallOf(s) ELSE None
  <1>. DEFINE r == Tail(s)
  <1>1. /\ r \in Seq(ActivityType) /\ Len(s) \in Nat \ {0} /\ Len(r) = Len(s) - 1
        /\ Len(s) = 1 => r = <<>>
        /\ Len(s) > 1 => r # <<>>
        /\ \A i \in 1 .. Len(s) - 1 : r[i] = s[i + 1]
    BY PopHead
  <1>. HIDE DEF r
  <1>. DEFINE Popped == /\ WellFormed(r)
                        /\ LoaderOf(r) = None
                        /\ ClinitOf(r) = IF s[1].op = "load" THEN ClinitOf(s) ELSE None
                        /\ CallOf(r) = IF s[1].op \in {"load", "clinit"} THEN CallOf(s) ELSE None
  <1>2. ASSUME Len(s) = 1 PROVE Popped
    <2>1. s[1].op \in Bottoms
      BY <1>2 DEF WellFormed
    <2>2. r = <<>> /\ Len(r) = 0
      BY <1>1, <1>2
    <2>. QED
      BY <2>1, <2>2 DEF WellFormed, LoaderOf, ClinitOf, CallOf, Bottoms
  <1>3. ASSUME Len(s) = 2 PROVE Popped
    <2>1. 1 \in 1 .. Len(s) - 1 /\ 1 + 1 = 2
      BY <1>3
    <2>2. r[1] = s[2] /\ Len(r) = 1 /\ r # <<>> /\ s[2].op \in Bottoms
      BY <2>1, <1>1, <1>3 DEF WellFormed
    <2>3. s[1].op = "clinit" \/ s[1].op = "load"
      BY <1>3 DEF WellFormed
    <2>. QED
      BY <1>3, <2>2, <2>3 DEF WellFormed, LoaderOf, ClinitOf, CallOf, Bottoms
  <1>4. ASSUME Len(s) = 3 PROVE Popped
    <2>1. 1 \in 1 .. Len(s) - 1 /\ 1 + 1 = 2 /\ 2 \in 1 .. Len(s) - 1 /\ 2 + 1 = 3
      BY <1>4
    <2>2. r[1] = s[2] /\ r[2] = s[3] /\ Len(r) = 2 /\ r # <<>>
      BY <2>1, <1>1, <1>4
    <2>3. s[1].op = "load" /\ s[2].op = "clinit" /\ s[3].op \in Bottoms
      BY <1>4 DEF WellFormed
    <2>. QED
      BY <1>4, <2>2, <2>3 DEF WellFormed, LoaderOf, ClinitOf, CallOf, Bottoms
  <1>5. Popped
    BY <1>1, <1>2, <1>3, <1>4 DEF WellFormed
  <1>. QED
    BY <1>1, <1>5 DEF r

-----------------------------------------------------------------------------
(* The same for the threads. *)

LEMMA Views ==
  ASSUME Structure
  PROVE  /\ Loader \in [Threads -> ActivityType \cup {None}]
         /\ Clinit \in [Threads -> ActivityType \cup {None}]
         /\ Call \in [Threads -> ActivityType \cup {None}]
         /\ None.op = "none"
         /\ \A t \in Threads :
              /\ Loader[t] = None \/ (Loader[t] \in ActivityType /\ Loader[t].op = "load")
              /\ Clinit[t] = None \/ (Clinit[t] \in ActivityType /\ Clinit[t].op = "clinit")
              /\ Call[t] = None \/ (Call[t] \in ActivityType /\ Call[t].op \in Bottoms)
              /\ stack[t] = <<>> => Loader[t] = None /\ Clinit[t] = None /\ Call[t] = None
              /\ stack[t] # <<>> => Call[t] # None
  <1>1. \A t \in Threads :
          /\ LoaderOf(stack[t]) = None
             \/ (LoaderOf(stack[t]) \in ActivityType /\ LoaderOf(stack[t]).op = "load")
          /\ ClinitOf(stack[t]) = None
             \/ (ClinitOf(stack[t]) \in ActivityType /\ ClinitOf(stack[t]).op = "clinit")
          /\ CallOf(stack[t]) = None
             \/ (CallOf(stack[t]) \in ActivityType /\ CallOf(stack[t]).op \in Bottoms)
          /\ None.op = "none"
          /\ stack[t] = <<>> => /\ LoaderOf(stack[t]) = None /\ ClinitOf(stack[t]) = None
                                /\ CallOf(stack[t]) = None
          /\ stack[t] # <<>> => CallOf(stack[t]) # None
    BY TypesOfViews DEF Structure
  <1>2. None.op = "none"
    BY DEF None, Activity
  <1>. QED
    BY <1>1, <1>2 DEF Loader, Clinit, Call

LEMMA Running ==
  ASSUME Structure, NEW t \in Threads, stack[t] # <<>>
  PROVE  /\ Now(t) = stack[t][1] /\ Now(t) \in ActivityType
         /\ Now(t).op \in {"load", "clinit"} \cup Bottoms
         /\ Now(t).op = "load" => Now(t) = Loader[t]
         /\ Now(t).op = "clinit" => Now(t) = Clinit[t] /\ Loader[t] = None
         /\ Now(t).op \in Bottoms => Now(t) = Call[t] /\ Loader[t] = None /\ Clinit[t] = None
  BY TopOf DEF Structure, Now, Loader, Clinit, Call

LEMMA DoesIs ==
  ASSUME Structure, NEW t \in Threads, NEW arg
  PROVE  /\ Does(t, "load", arg) <=> (Loader[t].op = "load" /\ Loader[t].arg = arg)
         /\ Does(t, "clinit", arg) <=> (Clinit[t].op = "clinit" /\ Clinit[t].arg = arg)
         /\ Does(t, "loadClass", arg) <=> (Call[t].op = "loadClass" /\ Call[t].arg = arg)
         /\ (\E i \in DOMAIN stack[t] : stack[t][i].op = "initialize")
              <=> Call[t].op = "initialize"
  <1>1. stack[t] \in Seq(ActivityType) /\ WellFormed(stack[t])
    BY DEF Structure
  <1>2. /\ Loader[t] = LoaderOf(stack[t]) /\ Clinit[t] = ClinitOf(stack[t])
        /\ Call[t] = CallOf(stack[t]) /\ "loadClass" \in Bottoms
    BY DEF Loader, Clinit, Call, Bottoms
  <1>3. Does(t, "load", arg) <=> (Loader[t].op = "load" /\ Loader[t].arg = arg)
    BY <1>1, <1>2, DoesOf DEF Does
  <1>4. Does(t, "clinit", arg) <=> (Clinit[t].op = "clinit" /\ Clinit[t].arg = arg)
    BY <1>1, <1>2, DoesOf DEF Does
  <1>5. Does(t, "loadClass", arg) <=> (Call[t].op = "loadClass" /\ Call[t].arg = arg)
    BY <1>1, <1>2, DoesOf DEF Does
  <1>6. (\E i \in DOMAIN stack[t] : stack[t][i].op = "initialize") <=> Call[t].op = "initialize"
    BY <1>1, <1>2, DoesOf
  <1>. QED
    BY <1>3, <1>4, <1>5, <1>6

LEMMA ContinueStep ==
  ASSUME Structure, NEW t \in Threads, stack[t] # <<>>,
         NEW a \in ActivityType, Continue(t, a), a.op = Now(t).op, a.op # "clinit"
  PROVE  /\ Structure' /\ Clinit' = Clinit
         /\ a.op = "load" => Loader' = [Loader EXCEPT ![t] = a] /\ Call' = Call
         /\ a.op \in Bottoms => Loader' = Loader /\ Call' = [Call EXCEPT ![t] = a]
  <1>. DEFINE r == <<a>> \o Tail(stack[t])
  <1>1. /\ stack[t] \in Seq(ActivityType) /\ WellFormed(stack[t])
        /\ stack[t][1].op = a.op
        /\ stack \in [Threads -> Seq(ActivityType)]
    BY Running DEF Structure
  <1>2. (stack[t][1].op = "load" /\ a.op = "load")
        \/ (stack[t][1].op \in Bottoms /\ a.op \in Bottoms)
    BY <1>1, Running
  <1>3. /\ r \in Seq(ActivityType) /\ WellFormed(r) /\ r # <<>>
        /\ ClinitOf(r) = ClinitOf(stack[t])
        /\ a.op = "load" => LoaderOf(r) = a /\ CallOf(r) = CallOf(stack[t])
        /\ a.op \in Bottoms => LoaderOf(r) = None /\ CallOf(r) = a
    BY <1>1, <1>2, ReplaceOf
  <1>4. stack' = [stack EXCEPT ![t] = r]
    BY DEF Continue
  <1>5. a.op \in Bottoms => LoaderOf(stack[t]) = None
    BY Running DEF Loader
  <1>. HIDE DEF r
  <1>6. Structure'
    BY <1>1, <1>3, <1>4 DEF Structure
  <1>. QED
    BY <1>1, <1>3, <1>4, <1>5, <1>6 DEF Loader, Clinit, Call

LEMMA EnterStep ==
  ASSUME Structure, NEW t \in Threads, stack[t] # <<>>,
         NEW a \in ActivityType, NEW pc, [Now(t) EXCEPT !.pc = pc] \in ActivityType,
         Enter(t, a, pc),
         \/ a.op = "load" /\ Now(t).op \in {"clinit", "loadClass"}
         \/ a.op = "clinit" /\ Now(t).op \in Bottoms
  PROVE  /\ Structure'
         /\ Loader' = IF a.op = "load" THEN [Loader EXCEPT ![t] = a] ELSE Loader
         /\ Now(t).op = "clinit" =>
              /\ Clinit' = [Clinit EXCEPT ![t] = [Now(t) EXCEPT !.pc = pc]]
              /\ Call' = Call
         /\ Now(t).op \in Bottoms =>
              /\ Clinit' = IF a.op = "clinit" THEN [Clinit EXCEPT ![t] = a] ELSE Clinit
              /\ Call' = [Call EXCEPT ![t] = [Now(t) EXCEPT !.pc = pc]]
  <1>. DEFINE b == [Now(t) EXCEPT !.pc = pc]
              r == <<a, b>> \o Tail(stack[t])
  <1>1. /\ stack[t] \in Seq(ActivityType) /\ WellFormed(stack[t])
        /\ stack \in [Threads -> Seq(ActivityType)]
        /\ stack[t][1] = Now(t) /\ Now(t) \in ActivityType
    BY Running DEF Structure
  <1>2. b \in ActivityType /\ b.op = Now(t).op
    BY <1>1 DEF ActivityType
  <1>3. stack' = [stack EXCEPT ![t] = r]
    BY DEF Enter
  <1>. HIDE DEF b
  <1>4. /\ r \in Seq(ActivityType) /\ WellFormed(r) /\ r # <<>>
        /\ LoaderOf(r) = IF a.op = "load" THEN a ELSE None
        /\ ClinitOf(r) = IF a.op = "clinit" THEN a ELSE IF b.op = "clinit" THEN b ELSE None
        /\ CallOf(r) = IF b.op = "clinit" THEN CallOf(stack[t]) ELSE b
    BY <1>1, <1>2, PushOf
  <1>. HIDE DEF r
  <1>5. Structure'
    BY <1>1, <1>3, <1>4 DEF Structure
  <1>6. /\ Now(t).op = "clinit" => LoaderOf(stack[t]) = None
        /\ Now(t).op \in Bottoms => LoaderOf(stack[t]) = None /\ ClinitOf(stack[t]) = None
        /\ Now(t).op \in Bottoms => Now(t).op # "clinit"
    BY Running DEF Loader, Clinit, Bottoms
  <1>7. Loader' = IF a.op = "load" THEN [Loader EXCEPT ![t] = a] ELSE Loader
    BY <1>1, <1>3, <1>4, <1>6 DEF Loader
  <1>8. Now(t).op = "clinit" => Clinit' = [Clinit EXCEPT ![t] = b] /\ Call' = Call
    BY <1>1, <1>2, <1>3, <1>4, <1>6 DEF Clinit, Call, Bottoms
  <1>9. Now(t).op \in Bottoms =>
          /\ Clinit' = IF a.op = "clinit" THEN [Clinit EXCEPT ![t] = a] ELSE Clinit
          /\ Call' = [Call EXCEPT ![t] = b]
    BY <1>1, <1>2, <1>3, <1>4, <1>6 DEF Clinit, Call
  <1>. QED
    BY <1>5, <1>7, <1>8, <1>9 DEF b

LEMMA ReturnStep ==
  ASSUME Structure, NEW t \in Threads, stack[t] # <<>>, Return(t)
  PROVE  /\ Structure'
         /\ Loader' = [Loader EXCEPT ![t] = None]
         /\ Clinit' = IF Now(t).op = "load" THEN Clinit ELSE [Clinit EXCEPT ![t] = None]
         /\ Call' = IF Now(t).op \in {"load", "clinit"} THEN Call
                    ELSE [Call EXCEPT ![t] = None]
  <1>. DEFINE r == Tail(stack[t])
  <1>1. /\ stack[t] \in Seq(ActivityType) /\ WellFormed(stack[t])
        /\ stack \in [Threads -> Seq(ActivityType)]
        /\ stack[t][1] = Now(t)
    BY Running DEF Structure
  <1>2. stack' = [stack EXCEPT ![t] = r]
    BY DEF Return
  <1>3. /\ r \in Seq(ActivityType) /\ WellFormed(r)
        /\ LoaderOf(r) = None
        /\ ClinitOf(r) = IF Now(t).op = "load" THEN ClinitOf(stack[t]) ELSE None
        /\ CallOf(r) = IF Now(t).op \in {"load", "clinit"} THEN CallOf(stack[t]) ELSE None
    BY <1>1, PopOf
  <1>. HIDE DEF r
  <1>4. Structure'
    BY <1>1, <1>2, <1>3 DEF Structure
  <1>. QED
    BY <1>1, <1>2, <1>3, <1>4 DEF Loader, Clinit, Call

\* The loader is left by an exception, which the static initialiser below it catches.
LEMMA CatchStep ==
  ASSUME Structure, NEW t \in Threads, stack[t] # <<>>, Now(t).op = "load",
         InArrayUtils(t), Catch(t)
  PROVE  /\ Structure' /\ Call' = Call /\ Clinit[t] # None
         /\ Loader' = [Loader EXCEPT ![t] = None]
         /\ Clinit' = [Clinit EXCEPT ![t] = [Clinit[t] EXCEPT !.pc = "unsupported"]]
         /\ [Clinit[t] EXCEPT !.pc = "unsupported"] # None
         /\ Clinit[t].op = "clinit" /\ Clinit[t].arg = "ArrayUtils"
  <1>. DEFINE s == stack[t]
              b == [s[2] EXCEPT !.pc = "unsupported"]
              r == <<b>> \o Tail(Tail(s))
  <1>1. /\ s \in Seq(ActivityType) /\ WellFormed(s) /\ s[1].op = "load"
        /\ s[2].op = "clinit" /\ s[2].arg = "ArrayUtils" /\ Len(s) > 1
        /\ stack \in [Threads -> Seq(ActivityType)]
    BY Running DEF Structure, InArrayUtils
  <1>2. stack' = [stack EXCEPT ![t] = r]
    BY DEF Catch
  <1>. HIDE DEF s
  <1>3. Len(s) = 3 /\ s # <<>> /\ s[3].op \in Bottoms
    <2>1. Len(s) \in 2 .. 3
      BY <1>1 DEF WellFormed
    <2>2. Len(s) = 2 => s[2].op = "loadClass"
      BY <1>1 DEF WellFormed
    <2>3. Len(s) = 3
      BY <2>1, <2>2, <1>1
    <2>4. Len(s) > 0 => s[Len(s)].op \in Bottoms
      BY <1>1 DEF WellFormed
    <2>5. s[3].op \in Bottoms
      BY <2>3, <2>4
    <2>6. s # <<>>
      BY <2>3, EmptySeq
    <2>. QED
      BY <2>3, <2>5, <2>6
  <1>4. s[2] \in ActivityType
    <2>1. 2 \in 1 .. Len(s)
      BY <1>3
    <2>. QED
      BY <2>1, <1>1, ElementOfSeq
  <1>5. b \in ActivityType /\ b.op = "clinit" /\ None.op = "none"
    BY <1>1, <1>4 DEF ActivityType, None, Activity
  <1>6. /\ Tail(s) \in Seq(ActivityType) /\ Len(Tail(s)) = 2 /\ Tail(s) # <<>>
        /\ Tail(s)[1] = s[2] /\ Tail(s)[2] = s[3]
    <2>1. 1 \in 1 .. Len(s) - 1 /\ 1 + 1 = 2 /\ 2 \in 1 .. Len(s) - 1 /\ 2 + 1 = 3
      BY <1>3
    <2>2. /\ Tail(s) \in Seq(ActivityType) /\ Len(Tail(s)) = Len(s) - 1
          /\ Len(s) > 1 => Tail(s) # <<>>
          /\ \A i \in 1 .. Len(s) - 1 : Tail(s)[i] = s[i + 1]
      BY <1>1, <1>3, PopHead
    <2>3. Tail(s)[1] = s[1 + 1] /\ Tail(s)[2] = s[2 + 1]
      BY <2>1, <2>2
    <2>4. s[1 + 1] = s[2] /\ s[2 + 1] = s[3]
      BY <2>1
    <2>5. Len(s) - 1 = 2 /\ Len(s) > 1
      BY <1>3
    <2>. QED
      BY <2>2, <2>3, <2>4, <2>5
  <1>. HIDE DEF b
  <1>7. r \in Seq(ActivityType) /\ Len(r) = 2 /\ r[1] = b /\ r[2] = s[3]
    <2>1. 2 \in 2 .. 2
      OBVIOUS
    <2>. DEFINE q == Tail(s)
    <2>2. q \in Seq(ActivityType) /\ q # <<>> /\ Len(q) = 2 /\ q[2] = s[3] /\ r = <<b>> \o Tail(q)
      BY <1>6
    <2>. HIDE DEF q, r
    <2>3. /\ <<b>> \o Tail(q) \in Seq(ActivityType) /\ Len(<<b>> \o Tail(q)) = Len(q)
          /\ (<<b>> \o Tail(q))[1] = b
          /\ \A i \in 2 .. Len(q) : (<<b>> \o Tail(q))[i] = q[i]
      BY <2>2, <1>5, ReplaceHead
    <2>. QED
      BY <2>1, <2>2, <2>3
  <1>. HIDE DEF r
  <1>8. r # <<>>
    BY <1>7, EmptySeq
  <1>9. /\ WellFormed(r) /\ LoaderOf(r) = None /\ ClinitOf(r) = b /\ CallOf(r) = s[3]
    BY <1>3, <1>5, <1>7, <1>8 DEF WellFormed, LoaderOf, ClinitOf, CallOf
  <1>10. ClinitOf(s) = s[2] /\ CallOf(s) = s[3]
    BY <1>1, <1>3 DEF ClinitOf, CallOf
  <1>11. Structure'
    BY <1>1, <1>2, <1>7, <1>9 DEF Structure
  <1>12. Clinit[t] = s[2]
    BY <1>10 DEF Clinit, s
  <1>13. Loader' = [Loader EXCEPT ![t] = None]
    BY <1>1, <1>2, <1>9 DEF Loader
  <1>14. Clinit' = [Clinit EXCEPT ![t] = b]
    BY <1>1, <1>2, <1>9 DEF Clinit
  <1>15. CallOf(s) = Call[t]
    BY DEF Call, s
  <1>16. Call' = Call
    BY <1>1, <1>2, <1>9, <1>10, <1>15 DEF Call
  <1>17. b # None /\ s[2] # None
    BY <1>1, <1>5
  <1>18. b = [Clinit[t] EXCEPT !.pc = "unsupported"]
    BY <1>12 DEF b
  <1>. QED
    BY <1>1, <1>11, <1>12, <1>13, <1>14, <1>16, <1>17, <1>18

\* An exception leaves nothing of the thread's call; a call begins from nothing.
LEMMA EmptyStep ==
  ASSUME Structure, NEW t \in Threads, stack' = [stack EXCEPT ![t] = <<>>]
  PROVE  /\ Structure'
         /\ Loader' = [Loader EXCEPT ![t] = None]
         /\ Clinit' = [Clinit EXCEPT ![t] = None]
         /\ Call' = [Call EXCEPT ![t] = None]
  <1>1. /\ <<>> \in Seq(ActivityType) /\ WellFormed(<<>>)
        /\ LoaderOf(<<>>) = None /\ ClinitOf(<<>>) = None /\ CallOf(<<>>) = None
    BY DEF WellFormed, LoaderOf, ClinitOf, CallOf
  <1>2. Structure'
    BY <1>1 DEF Structure
  <1>. QED
    BY <1>1, <1>2 DEF Structure, Loader, Clinit, Call

LEMMA BeginStep ==
  ASSUME Structure, NEW t \in Threads, NEW a \in ActivityType, a.op \in Bottoms, Begin(t, a)
  PROVE  /\ Structure' /\ Loader' = Loader /\ Clinit' = Clinit
         /\ Call' = [Call EXCEPT ![t] = a]
         /\ Loader[t] = None /\ Clinit[t] = None /\ Call[t] = None
  <1>1. /\ <<a>> \in Seq(ActivityType) /\ <<a>> # <<>> /\ Len(<<a>>) = 1 /\ <<a>>[1] = a
    OBVIOUS
  <1>2. stack[t] = <<>> /\ stack' = [stack EXCEPT ![t] = <<a>>]
    BY DEF Begin
  <1>. DEFINE r == <<a>>
  <1>. HIDE DEF r
  <1>3. r \in Seq(ActivityType) /\ r # <<>> /\ Len(r) = 1 /\ r[1] = a
    BY <1>1 DEF r
  <1>4. /\ WellFormed(r) /\ LoaderOf(r) = None /\ ClinitOf(r) = None /\ CallOf(r) = a
    BY <1>3 DEF WellFormed, LoaderOf, ClinitOf, CallOf, Bottoms
  <1>5. Loader[t] = None /\ Clinit[t] = None /\ Call[t] = None
    BY <1>2, Views
  <1>6. stack' = [stack EXCEPT ![t] = r]
    BY <1>2 DEF r
  <1>7. Structure'
    BY <1>3, <1>4, <1>6 DEF Structure
  <1>8. /\ LoaderOf(stack[t]) = None /\ ClinitOf(stack[t]) = None
    BY <1>5 DEF Loader, Clinit
  <1>. QED
    BY <1>4, <1>5, <1>6, <1>7, <1>8 DEF Structure, Loader, Clinit, Call
-----------------------------------------------------------------------------
(* What the steps do, in terms of the three activities. *)

\* How a call of t that ends is remembered.
Ended(t, result) ==
  lastRead' = IF Call[t].op = "read" /\ Call[t].names # {}
              THEN [lastRead EXCEPT ![t] = [class |-> Call[t].arg, names |-> Call[t].names,
                                            result |-> result]]
              ELSE lastRead

\* An exception ends the call of t.
Thrown(t, exception) ==
  /\ Loader' = [Loader EXCEPT ![t] = None]
  /\ Clinit' = [Clinit EXCEPT ![t] = None]
  /\ Call'   = [Call EXCEPT ![t] = None]
  /\ static' = [s \in StaticClasses |-> IF Clinit[t].op = "clinit" /\ Clinit[t].arg = s
                                        THEN "erroneous" ELSE static[s]]
  /\ Ended(t, exception)

\* The call of t goes on, or returns; nothing is loaded meanwhile.
CallGoesOn(t, a) ==
  /\ UNCHANGED <<Loader, Clinit, static, lastRead>>
  /\ Call' = [Call EXCEPT ![t] = a]

CallReturns(t) ==
  /\ UNCHANGED <<Loader, Clinit, static>>
  /\ Call' = [Call EXCEPT ![t] = None]
  /\ Ended(t, "ok")

\* The call of t goes on at pc, once the class s is initialised, which the second says.
StaticBegins(t, s) ==
  /\ static[s] = "uninitialized" /\ Loader[t] = None /\ Clinit[t] = None
  /\ static' = [static EXCEPT ![s] = "initializing"]
  /\ \E start \in {"load", "unsupported"} :
       Clinit' = [Clinit EXCEPT ![t] = Activity("clinit", s, start, {}, {})]
  /\ UNCHANGED Loader

Pcs == {"check", "next", "instantiate", "register", "load", "ready", "api", "isLoaded",
        "extract", "create", "paths", "initialized", "verify", "translate", "references",
        "assemble", "define", "memory", "containsKey", "get", "unsupported", "array",
        "addressOf"}

LEMMA GoesTo ==
  ASSUME NEW a \in ActivityType, NEW pc \in Pcs
  PROVE  LET b == [a EXCEPT !.pc = pc]
         IN /\ b \in ActivityType /\ b.op = a.op /\ b.arg = a.arg /\ b.pc = pc
            /\ b.todo = a.todo /\ b.names = a.names /\ b.thrown = a.thrown
  BY DEF ActivityType, Pcs

LEMMA ThrowStep ==
  ASSUME Structure, NEW t \in Threads, NEW exception, stack[t] # <<>>, Throw(t, exception)
  PROVE  Structure' /\ Thrown(t, exception)
  <1>1. /\ Structure'
        /\ Loader' = [Loader EXCEPT ![t] = None]
        /\ Clinit' = [Clinit EXCEPT ![t] = None]
        /\ Call' = [Call EXCEPT ![t] = None]
    BY EmptyStep DEF Throw, Unwind
  <1>2. \A s \in StaticClasses :
          Does(t, "clinit", s) <=> (Clinit[t].op = "clinit" /\ Clinit[t].arg = s)
    BY DoesIs
  <1>3. static' = [s \in StaticClasses |-> IF Clinit[t].op = "clinit" /\ Clinit[t].arg = s
                                           THEN "erroneous" ELSE static[s]]
    BY <1>2 DEF Throw, Unwind
  <1>4. Call[t] = stack[t][Len(stack[t])]
    BY DEF Call, CallOf
  <1>5. Ended(t, exception)
    BY <1>4 DEF Throw, Unwind, Result, Ended
  <1>. QED
    BY <1>1, <1>3, <1>5 DEF Thrown

LEMMA ReturnOfCall ==
  ASSUME Structure, NEW t \in Threads, stack[t] # <<>>, Now(t).op \in Bottoms, Return(t),
         UNCHANGED static
  PROVE  Structure' /\ CallReturns(t)
  <1>1. /\ Structure'
        /\ Loader' = [Loader EXCEPT ![t] = None]
        /\ Clinit' = [Clinit EXCEPT ![t] = None]
        /\ Call' = [Call EXCEPT ![t] = None]
    BY ReturnStep DEF Bottoms
  <1>2. Loader[t] = None /\ Clinit[t] = None
    BY Running
  <1>3. Loader' = Loader /\ Clinit' = Clinit
    BY <1>1, <1>2, Views
  <1>4. stack[t] \in Seq(ActivityType) /\ WellFormed(stack[t]) /\ Now(t) = stack[t][1]
    BY Running DEF Structure
  <1>5. Len(stack[t]) = 1
    BY <1>4, TopOf
  <1>6. Call[t] = stack[t][Len(stack[t])]
    BY DEF Call, CallOf
  <1>7. Ended(t, "ok")
    BY <1>5, <1>6 DEF Return, Result, Ended
  <1>. QED
    BY <1>1, <1>3, <1>7 DEF CallReturns

\* A loader or a static initialiser that returns ends no call.
LEMMA ReturnToCall ==
  ASSUME Structure, NEW t \in Threads, stack[t] # <<>>, Now(t).op \in {"load", "clinit"},
         Return(t)
  PROVE  /\ Structure' /\ UNCHANGED <<Call, lastRead>>
         /\ Loader' = [Loader EXCEPT ![t] = None]
         /\ Clinit' = IF Now(t).op = "load" THEN Clinit ELSE [Clinit EXCEPT ![t] = None]
  <1>1. /\ Structure' /\ Call' = Call
        /\ Loader' = [Loader EXCEPT ![t] = None]
        /\ Clinit' = IF Now(t).op = "load" THEN Clinit ELSE [Clinit EXCEPT ![t] = None]
    BY ReturnStep
  <1>2. stack[t] \in Seq(ActivityType) /\ WellFormed(stack[t]) /\ Now(t) = stack[t][1]
    BY Running DEF Structure
  <1>3. Len(stack[t]) # 1
    <2>. DEFINE s == stack[t]
    <2>1. s \in Seq(ActivityType) /\ WellFormed(s) /\ s # <<>> /\ s[1].op \in {"load", "clinit"}
      BY <1>2
    <2>. HIDE DEF s
    <2>2. Len(s) \in {2, 3}
      BY ONLY <2>1, TopOf
    <2>. QED
      BY <2>2 DEF s
  <1>4. UNCHANGED lastRead
    BY <1>3 DEF Return
  <1>. QED
    BY <1>1, <1>4

\* The call of t goes on at pc.
LEMMA CallGoesTo ==
  ASSUME Structure, NEW t \in Threads, stack[t] # <<>>, Now(t).op \in Bottoms,
         NEW a \in ActivityType, a.op = Now(t).op, Continue(t, a), UNCHANGED <<static, lastRead>>
  PROVE  Structure' /\ CallGoesOn(t, a)
  <1>1. a.op # "clinit" /\ a.op \in Bottoms
    BY DEF Bottoms
  <1>. QED
    BY <1>1, ContinueStep DEF CallGoesOn

\* The loader of t goes on at pc.
LEMMA LoaderGoesTo ==
  ASSUME Structure, NEW t \in Threads, NEW from, At(t, "load", from), NEW pc \in Pcs, Goto(t, pc)
  PROVE  /\ Structure' /\ UNCHANGED <<Clinit, Call>>
         /\ Loader' = [Loader EXCEPT ![t] = [Loader[t] EXCEPT !.pc = pc]]
         /\ Now(t) = Loader[t]
  <1>1. stack[t] # <<>> /\ Now(t) \in ActivityType /\ Now(t) = Loader[t] /\ Now(t).op = "load"
    BY Running DEF At
  <1>2. [Now(t) EXCEPT !.pc = pc] \in ActivityType /\ [Now(t) EXCEPT !.pc = pc].op = "load"
    BY <1>1, GoesTo
  <1>. QED
    BY <1>1, <1>2, ContinueStep DEF Goto

LEMMA UseStep ==
  ASSUME Structure, NEW t \in Threads, stack[t] # <<>>, Now(t).op \in Bottoms,
         NEW s \in StaticClasses, NEW pc \in Pcs, Use(t, s, pc)
  PROVE  /\ Structure'
         /\ \/ CallGoesOn(t, [Call[t] EXCEPT !.pc = pc])
            \/ /\ StaticBegins(t, s)
               /\ Call' = [Call EXCEPT ![t] = [Call[t] EXCEPT !.pc = pc]]
               /\ UNCHANGED lastRead
            \/ Thrown(t, "NoClassDefFoundError")
  <1>0. /\ Now(t) = Call[t] /\ Now(t) \in ActivityType /\ None.op = "none"
        /\ Loader[t] = None /\ Clinit[t] = None
    BY Running, Views
  <1>1. [Now(t) EXCEPT !.pc = pc] \in ActivityType /\ [Now(t) EXCEPT !.pc = pc].op = Now(t).op
    BY <1>0, GoesTo
  <1>2. CASE static[s] \in {"ready", "unsupported"} /\ Goto(t, pc) /\ UNCHANGED <<static, lastRead>>
    BY <1>0, <1>1, <1>2, CallGoesTo DEF Goto
  <1>3. ~Does(t, "clinit", s)
    BY <1>0, DoesIs
  <1>4. CASE /\ static[s] = "uninitialized"
             /\ static' = [static EXCEPT ![s] = "initializing"]
             /\ \E start \in Starts(s) : Enter(t, Activity("clinit", s, start, {}, {}), pc)
             /\ UNCHANGED lastRead
    <2>0. PICK start \in {"load", "unsupported"} :
            Enter(t, Activity("clinit", s, start, {}, {}), pc)
      BY <1>4 DEF Starts
    <2>. DEFINE a == Activity("clinit", s, start, {}, {})
    <2>1. a \in ActivityType /\ a.op = "clinit"
      BY DEF Activity, ActivityType
    <2>2. Enter(t, a, pc)
      BY <2>0
    <2>. HIDE DEF a
    <2>3. /\ Structure' /\ Loader' = Loader
          /\ Clinit' = [Clinit EXCEPT ![t] = a]
          /\ Call' = [Call EXCEPT ![t] = [Now(t) EXCEPT !.pc = pc]]
      BY <1>1, <2>1, <2>2, EnterStep
    <2>. QED
      BY <1>0, <1>4, <2>3 DEF StaticBegins, a
  <1>5. CASE static[s] = "erroneous" /\ Throw(t, "NoClassDefFoundError")
    BY <1>5, ThrowStep
  <1>. QED
    BY <1>2, <1>3, <1>4, <1>5 DEF Use

\* The call or the static initialiser of t calls the loader of l; nobody else is in it.
LEMMA EnterLoaderStep ==
  ASSUME Structure, NEW t \in Threads, stack[t] # <<>>, NEW l \in Libraries, NEW pc \in Pcs,
         Now(t).op \in {"clinit", "loadClass"}, EnterLoader(t, l, pc)
  PROVE  /\ Structure' /\ Loader[t] = None
         /\ \A u \in Threads : Loader[u] = None \/ Loader[u].arg # l
         /\ Loader' = [Loader EXCEPT ![t] = Activity("load", l, "api", {}, {})]
         /\ Activity("load", l, "api", {}, {}) # None
         /\ IF Now(t).op = "clinit"
            THEN /\ Clinit[t] = Now(t) /\ Call' = Call
                 /\ Clinit' = [Clinit EXCEPT ![t] = [Clinit[t] EXCEPT !.pc = pc]]
            ELSE /\ Call[t] = Now(t) /\ Clinit' = Clinit /\ Clinit[t] = None
                 /\ Call' = [Call EXCEPT ![t] = [Call[t] EXCEPT !.pc = pc]]
  <1>. DEFINE a == Activity("load", l, "api", {}, {})
  <1>1. a \in ActivityType /\ a.op = "load" /\ None.op = "none"
    BY DEF Activity, ActivityType, Libraries, None
  <1>2. /\ Now(t) \in ActivityType /\ Loader[t] = None
        /\ Now(t).op = "clinit" => Now(t) = Clinit[t]
        /\ Now(t).op = "loadClass" => Now(t) = Call[t] /\ Clinit[t] = None
    BY Running DEF Bottoms
  <1>3. [Now(t) EXCEPT !.pc = pc] \in ActivityType
    BY <1>2, GoesTo
  <1>4. \A u \in Threads \ {t} : ~Does(u, "load", l)
    BY DEF EnterLoader
  <1>5. \A u \in Threads \ {t} : ~(Loader[u].op = "load" /\ Loader[u].arg = l)
    BY <1>4, DoesIs
  <1>6. \A u \in Threads : Loader[u] = None \/ Loader[u].op = "load"
    BY Views
  <1>7. Enter(t, a, pc)
    BY DEF EnterLoader
  <1>. HIDE DEF a
  <1>8. /\ Structure' /\ Loader' = [Loader EXCEPT ![t] = a]
        /\ Now(t).op = "clinit" =>
             Clinit' = [Clinit EXCEPT ![t] = [Now(t) EXCEPT !.pc = pc]] /\ Call' = Call
        /\ Now(t).op = "loadClass" =>
             Clinit' = Clinit /\ Call' = [Call EXCEPT ![t] = [Now(t) EXCEPT !.pc = pc]]
    BY <1>1, <1>3, <1>7, EnterStep DEF Bottoms
  <1>. QED
    BY <1>1, <1>2, <1>5, <1>6, <1>8 DEF a

-----------------------------------------------------------------------------
(* Libraries and the classes that load them. *)

\* Where the loader of a thread stands, and what the library is like there.
LoaderFits(t) ==
  Loader[t] # None =>
    LET l == Loader[t].arg
    IN /\ l \in Libraries
       /\ Loader[t].pc \in {"api", "isLoaded", "extract", "create", "paths"}
       /\ IF Clinit[t] = None THEN l = "lljvm"
          ELSE Clinit[t].pc = "ready" /\ l = LibraryOf(Clinit[t].arg)
       /\ Loader[t].pc \in {"isLoaded", "extract", "create"} => library[l].api = "null"
       /\ Loader[t].pc = "extract" => ~library[l].isLoaded
       /\ Loader[t].pc = "create" => library[l].isLoaded
       /\ Loader[t].pc = "paths" => l = "numba" /\ library[l].api = "created"

\* Where a static initialiser stands; its library is set up when its loader is back.
ClinitFits(t) ==
  Clinit[t] # None =>
    /\ Clinit[t].arg \in StaticClasses /\ static[Clinit[t].arg] = "initializing"
    /\ Clinit[t].pc \in {"load", "ready", "unsupported"}
    /\ Clinit[t].pc = "ready" /\ Loader[t] = None =>
         library[LibraryOf(Clinit[t].arg)].api = "complete"

\* The loaders are synchronized, and a class is initialised by one thread.
Alone == \A t, u \in Threads :
           /\ Loader[t] # None /\ Loader[u] # None /\ Loader[t].arg = Loader[u].arg => t = u
           /\ Clinit[t] # None /\ Clinit[u] # None /\ Clinit[t].arg = Clinit[u].arg => t = u

\* A half set up API is that of a class nobody can use, or is being set up.
HalfSetUp ==
  \A l \in Libraries : library[l].api = "created" =>
    /\ l = "numba"
    /\ \/ static["NumbaRuntime"] = "erroneous"
       \/ \E t \in Threads : Loader[t] # None /\ Loader[t].pc = "paths"

LoadingTypes ==
  /\ library \in [Libraries -> [isLoaded : BOOLEAN, api : {"null", "created", "complete"},
                                loads : Nat]]
  /\ static \in [StaticClasses -> {"uninitialized", "initializing", "ready", "unsupported",
                                 "erroneous"}]

Loading == /\ LoadingTypes /\ Alone /\ HalfSetUp
           /\ \A t \in Threads : LoaderFits(t) /\ ClinitFits(t)
           /\ LibrariesLoadOnce /\ ReadyClassesHaveTheirApi

LEMMA LoadingUndisturbed ==
  ASSUME Loading, UNCHANGED <<Loader, Clinit, library, static>>
  PROVE  Loading'
  BY DEF Loading, LoadingTypes, Alone, HalfSetUp, LoaderFits, ClinitFits, LibrariesLoadOnce,
         ReadyClassesHaveTheirApi

LEMMA LibraryOfClass ==
  /\ \A s \in StaticClasses : LibraryOf(s) \in Libraries
  /\ \A s \in StaticClasses : LibraryOf(s) = "numba" <=> s = "NumbaRuntime"
  BY DEF LibraryOf, StaticClasses, Libraries

\* A thread that throws makes its class erroneous, which may have been half set up.
LEMMA LoadingThrown ==
  ASSUME Structure, Loading, NEW t \in Threads, NEW exception, Thrown(t, exception),
         UNCHANGED library
  PROVE  Loading'
  <1>0. /\ Loader \in [Threads -> ActivityType \cup {None}]
        /\ Clinit \in [Threads -> ActivityType \cup {None}]
        /\ None.op = "none"
        /\ \A u \in Threads : Clinit[u] = None \/ Clinit[u].op = "clinit"
    BY Views
  <1>1. /\ Loader' = [Loader EXCEPT ![t] = None]
        /\ Clinit' = [Clinit EXCEPT ![t] = None]
        /\ static' = [s \in StaticClasses |-> IF Clinit[t].op = "clinit" /\ Clinit[t].arg = s
                                              THEN "erroneous" ELSE static[s]]
    BY DEF Thrown
  <1>2. LoadingTypes'
    BY <1>1 DEF Loading, LoadingTypes
  <1>3. Alone'
    BY <1>0, <1>1 DEF Loading, Alone
  <1>4. HalfSetUp'
    <2>. SUFFICES ASSUME NEW l \in Libraries, library[l].api = "created"
                  PROVE  /\ l = "numba"
                         /\ \/ static'["NumbaRuntime"] = "erroneous"
                            \/ \E u \in Threads : Loader'[u] # None /\ Loader'[u].pc = "paths"
      BY DEF HalfSetUp
    <2>0. l = "numba" /\ "NumbaRuntime" \in StaticClasses
      BY DEF Loading, HalfSetUp, StaticClasses
    <2>1. CASE static["NumbaRuntime"] = "erroneous"
      BY <2>0, <2>1, <1>1
    <2>2. CASE \E u \in Threads \ {t} : Loader[u] # None /\ Loader[u].pc = "paths"
      BY <2>0, <2>2, <1>0, <1>1
    <2>3. CASE Loader[t] # None /\ Loader[t].pc = "paths"
      <3>1. Loader[t].arg = "numba"
        BY <2>3 DEF Loading, LoaderFits
      <3>2. Clinit[t] # None /\ LibraryOf(Clinit[t].arg) = "numba"
        BY <2>3, <3>1 DEF Loading, LoaderFits
      <3>3. Clinit[t].arg = "NumbaRuntime" /\ Clinit[t].op = "clinit"
        BY <3>2, <1>0, LibraryOfClass DEF Loading, ClinitFits
      <3>. QED
        BY <3>3, <2>0, <1>1
    <2>. QED
      BY <2>1, <2>2, <2>3 DEF Loading, HalfSetUp
  <1>5. \A u \in Threads : LoaderFits(u)'
    BY <1>0, <1>1 DEF Loading, LoaderFits
  <1>6. ASSUME NEW u \in Threads PROVE ClinitFits(u)'
    <2>1. CASE u = t
      BY <2>1, <1>0, <1>1 DEF ClinitFits
    <2>2. CASE u # t /\ Clinit[u] # None
      <3>1. Clinit'[u] = Clinit[u] /\ Loader'[u] = Loader[u]
        BY <2>2, <1>0, <1>1
      <3>2. Clinit[t].op = "clinit" => Clinit[t].arg # Clinit[u].arg
        BY <2>2, <1>0 DEF Loading, Alone
      <3>3. static'[Clinit[u].arg] = static[Clinit[u].arg]
        BY <2>2, <3>2, <1>1 DEF Loading, ClinitFits
      <3>. QED
        BY <2>2, <3>1, <3>3 DEF Loading, ClinitFits
    <2>3. CASE u # t /\ Clinit[u] = None
      BY <2>3, <1>0, <1>1 DEF ClinitFits
    <2>. QED
      BY <2>1, <2>2, <2>3
  <1>7. LibrariesLoadOnce'
    BY DEF Loading, LibrariesLoadOnce
  <1>8. ReadyClassesHaveTheirApi'
    BY <1>1 DEF Loading, ReadyClassesHaveTheirApi
  <1>. QED
    BY <1>2, <1>3, <1>4, <1>5, <1>6, <1>7, <1>8 DEF Loading

\* A static initialiser begins.
LEMMA LoadingBegins ==
  ASSUME Structure, Loading, NEW t \in Threads, NEW s \in StaticClasses, StaticBegins(t, s),
         UNCHANGED library
  PROVE  Loading'
  <1>. PICK start \in {"load", "unsupported"} :
              Clinit' = [Clinit EXCEPT ![t] = Activity("clinit", s, start, {}, {})]
    BY DEF StaticBegins
  <1>. DEFINE a == Activity("clinit", s, start, {}, {})
  <1>0. /\ Loader \in [Threads -> ActivityType \cup {None}]
        /\ Clinit \in [Threads -> ActivityType \cup {None}]
    BY Views
  <1>1. a # None /\ a.arg = s /\ a.pc \in {"load", "unsupported"}
    BY DEF Activity, None
  <1>2. /\ static[s] = "uninitialized" /\ Loader[t] = None /\ Clinit[t] = None
        /\ static' = [static EXCEPT ![s] = "initializing"]
        /\ Clinit' = [Clinit EXCEPT ![t] = a] /\ Loader' = Loader
    BY DEF StaticBegins
  <1>. HIDE DEF a
  <1>3. \A u \in Threads : Clinit[u] # None => Clinit[u].arg # s
    BY <1>2 DEF Loading, ClinitFits
  <1>4. LoadingTypes'
    BY <1>2 DEF Loading, LoadingTypes
  <1>5. Alone'
    BY <1>0, <1>1, <1>2, <1>3 DEF Loading, Alone
  <1>6. HalfSetUp'
    BY <1>2 DEF Loading, LoadingTypes, HalfSetUp, StaticClasses
  <1>7. \A u \in Threads : LoaderFits(u)'
    BY <1>0, <1>2 DEF Loading, LoaderFits
  <1>8. \A u \in Threads : ClinitFits(u)'
    BY <1>0, <1>1, <1>2, <1>3 DEF Loading, LoadingTypes, ClinitFits
  <1>9. LibrariesLoadOnce'
    BY DEF Loading, LibrariesLoadOnce
  <1>10. ReadyClassesHaveTheirApi'
    BY <1>2 DEF Loading, LoadingTypes, ReadyClassesHaveTheirApi
  <1>. QED
    BY <1>4, <1>5, <1>6, <1>7, <1>8, <1>9, <1>10 DEF Loading

\* The loader of t goes on as a, or returns, with its library as r says.
LEMMA LoadingMoves ==
  ASSUME Structure, Loading, NEW t \in Threads, Loader[t] # None,
         NEW l, l = Loader[t].arg, NEW a, NEW r,
         r \in [isLoaded : BOOLEAN, api : {"null", "created", "complete"}, loads : Nat],
         UNCHANGED <<Clinit, static>>,
         Loader' = [Loader EXCEPT ![t] = a], library' = [library EXCEPT ![l] = r],
         r.loads = IF r.isLoaded THEN 1 ELSE 0,
         r.api # "null" => r.isLoaded,
         library[l].api = "complete" => r.api = "complete",
         r.api = "created" => \/ l = "numba" /\ a # None /\ a.pc = "paths"
                              \/ r = library[l] /\ Loader[t].pc # "paths",
         a = None => r.api = "complete",
         a # None => /\ a.arg = l
                     /\ \/ a.pc = "isLoaded" /\ r.api = "null"
                        \/ a.pc = "extract" /\ r.api = "null" /\ ~r.isLoaded
                        \/ a.pc = "create" /\ r.api = "null" /\ r.isLoaded
                        \/ a.pc = "paths" /\ l = "numba" /\ r.api = "created"
  PROVE  Loading'
  <1>0. /\ Loader \in [Threads -> ActivityType \cup {None}]
        /\ Clinit \in [Threads -> ActivityType \cup {None}]
    BY Views
  <1>1. /\ Clinit' = Clinit /\ static' = static
        /\ \A u \in Threads : Loader'[u] = IF u = t THEN a ELSE Loader[u]
    BY <1>0
  <1>2. /\ l \in Libraries
        /\ library \in [Libraries -> [isLoaded : BOOLEAN,
                                      api : {"null", "created", "complete"}, loads : Nat]]
    BY DEF Loading, LoaderFits, LoadingTypes
  <1>3. \A k \in Libraries : library'[k] = IF k = l THEN r ELSE library[k]
    BY <1>2
  <1>4. \A u \in Threads : u # t /\ Loader[u] # None =>
          Loader[u].arg # l /\ Loader[u].arg \in Libraries
    BY DEF Loading, Alone, LoaderFits
  <1>5. LoadingTypes'
    BY <1>1, <1>2 DEF Loading, LoadingTypes
  <1>6. Alone'
    BY <1>1 DEF Loading, Alone
  <1>7. HalfSetUp'
    <2>. SUFFICES ASSUME NEW k \in Libraries, library'[k].api = "created"
                  PROVE  /\ k = "numba"
                         /\ \/ static["NumbaRuntime"] = "erroneous"
                            \/ \E u \in Threads : Loader'[u] # None /\ Loader'[u].pc = "paths"
      BY <1>1 DEF HalfSetUp
    <2>1. CASE k = l /\ a # None /\ a.pc = "paths"
      BY <2>1, <1>1, <1>3
    <2>2. CASE k = l /\ r = library[l] /\ Loader[t].pc # "paths"
      <3>1. library[k].api = "created"
        BY <2>2, <1>3
      <3>. QED
        BY <2>2, <3>1, <1>1 DEF Loading, HalfSetUp
    <2>3. CASE k # l
      <3>1. library[k].api = "created"
        BY <2>3, <1>3
      <3>2. Loader[t].pc = "paths" => l = "numba"
        BY DEF Loading, LoaderFits
      <3>3. k = "numba"
        BY <3>1 DEF Loading, HalfSetUp
      <3>. QED
        BY <2>3, <3>1, <3>2, <3>3, <1>1 DEF Loading, HalfSetUp
    <2>4. k = l => library'[k] = r
      BY <1>3
    <2>. QED
      BY <2>1, <2>2, <2>3, <2>4
  <1>8. ASSUME NEW u \in Threads PROVE LoaderFits(u)'
    <2>1. CASE u = t
      <3>1. IF Clinit[t] = None THEN l = "lljvm"
            ELSE Clinit[t].pc = "ready" /\ l = LibraryOf(Clinit[t].arg)
        BY DEF Loading, LoaderFits
      <3>2. Loader'[u] = a /\ library'[l] = r
        BY <2>1, <1>1, <1>2, <1>3
      <3>. QED
        BY <2>1, <3>1, <3>2, <1>1, <1>2 DEF LoaderFits
    <2>2. CASE u # t /\ Loader[u] # None
      <3>1. Loader'[u] = Loader[u] /\ library'[Loader[u].arg] = library[Loader[u].arg]
        BY <2>2, <1>1, <1>3, <1>4
      <3>. QED
        BY <3>1, <1>1 DEF Loading, LoaderFits
    <2>3. CASE u # t /\ Loader[u] = None
      BY <2>3, <1>1 DEF LoaderFits
    <2>. QED
      BY <2>1, <2>2, <2>3
  <1>9. \A k \in Libraries : library[k].api = "complete" => library'[k].api = "complete"
    BY <1>3
  <1>10. ASSUME NEW u \in Threads PROVE ClinitFits(u)'
    <2>1. CASE Clinit[u] # None /\ u = t
      <3>1. /\ Clinit[u].arg \in StaticClasses /\ LibraryOf(Clinit[u].arg) = l
            /\ static[Clinit[u].arg] = "initializing" /\ Clinit[u].pc = "ready"
        BY <2>1 DEF Loading, LoaderFits, ClinitFits
      <3>2. Loader'[u] = a /\ library'[l] = r
        BY <2>1, <1>1, <1>2, <1>3
      <3>. QED
        BY <3>1, <3>2, <1>1 DEF ClinitFits
    <2>2. CASE Clinit[u] # None /\ u # t
      <3>1. Loader'[u] = Loader[u] /\ LibraryOf(Clinit[u].arg) \in Libraries
        BY <2>2, <1>1, LibraryOfClass DEF Loading, ClinitFits
      <3>. QED
        BY <2>2, <3>1, <1>1, <1>9 DEF Loading, ClinitFits
    <2>3. CASE Clinit[u] = None
      BY <2>3, <1>1 DEF ClinitFits
    <2>. QED
      BY <2>1, <2>2, <2>3
  <1>11. LibrariesLoadOnce'
    BY <1>3 DEF Loading, LibrariesLoadOnce
  <1>12. ReadyClassesHaveTheirApi'
    BY <1>1, <1>9, LibraryOfClass DEF Loading, ReadyClassesHaveTheirApi
  <1>. QED
    BY <1>5, <1>6, <1>7, <1>8, <1>10, <1>11, <1>12 DEF Loading

\* The loader of t throws, and the static initialiser that called it goes on.
LEMMA LoadingCaught ==
  ASSUME Structure, Loading, NEW t \in Threads, UNCHANGED <<library, static>>,
         Loader[t] # None, Loader[t].pc # "paths", Clinit[t] # None,
         NEW c, c = [Clinit[t] EXCEPT !.pc = "unsupported"], c # None,
         Loader' = [Loader EXCEPT ![t] = None], Clinit' = [Clinit EXCEPT ![t] = c]
  PROVE  Loading'
  <1>0. /\ Loader \in [Threads -> ActivityType \cup {None}]
        /\ Clinit \in [Threads -> ActivityType \cup {None}]
    BY Views
  <1>1. c.arg = Clinit[t].arg /\ c.pc = "unsupported"
    <2>1. Clinit[t] \in ActivityType
      BY <1>0
    <2>. QED
      BY <2>1, GoesTo DEF Pcs
  <1>2. LoadingTypes' /\ LibrariesLoadOnce' /\ ReadyClassesHaveTheirApi'
    BY DEF Loading, LoadingTypes, LibrariesLoadOnce, ReadyClassesHaveTheirApi
  <1>3. Alone'
    BY <1>0, <1>1 DEF Loading, Alone
  <1>4. HalfSetUp'
    BY <1>0 DEF Loading, HalfSetUp
  <1>5. \A u \in Threads : LoaderFits(u)'
    BY <1>0 DEF Loading, LoaderFits
  <1>6. \A u \in Threads : ClinitFits(u)'
    BY <1>0, <1>1 DEF Loading, ClinitFits
  <1>. QED
    BY <1>2, <1>3, <1>4, <1>5, <1>6 DEF Loading

\* The loader of a library is entered.
LEMMA LoadingEnters ==
  ASSUME Structure, Loading, NEW t \in Threads, stack[t] # <<>>, NEW l \in Libraries,
         NEW pc \in Pcs, EnterLoader(t, l, pc),
         \/ Now(t).op = "loadClass" /\ l = "lljvm"
         \/ Now(t).op = "clinit" /\ l = LibraryOf(Now(t).arg) /\ pc = "ready"
  PROVE  Loading'
  <1>. DEFINE a == Activity("load", l, "api", {}, {})
              c == [Clinit[t] EXCEPT !.pc = pc]
  <1>0. /\ Loader \in [Threads -> ActivityType \cup {None}]
        /\ Clinit \in [Threads -> ActivityType \cup {None}]
        /\ Now(t) \in ActivityType /\ None.op = "none"
    BY Views, Running
  <1>1. /\ Loader[t] = None
        /\ \A u \in Threads : Loader[u] = None \/ Loader[u].arg # l
        /\ Loader' = [Loader EXCEPT ![t] = a] /\ a # None
        /\ Now(t).op = "clinit" => Clinit[t] = Now(t) /\ Clinit' = [Clinit EXCEPT ![t] = c]
        /\ Now(t).op = "loadClass" => Clinit[t] = None /\ Clinit' = Clinit
    BY EnterLoaderStep
  <1>2. a.arg = l /\ a.pc = "api"
    BY DEF Activity
  <1>3. Now(t).op = "clinit" => c # None /\ c.arg = Clinit[t].arg /\ c.pc = "ready"
    <2>. SUFFICES ASSUME Now(t).op = "clinit"
                  PROVE  c # None /\ c.arg = Clinit[t].arg /\ c.pc = "ready"
      OBVIOUS
    <2>1. Clinit[t] \in ActivityType /\ Clinit[t].op = "clinit" /\ pc = "ready"
      BY <1>0, <1>1
    <2>2. c.op = "clinit" /\ c.arg = Clinit[t].arg /\ c.pc = pc
      BY <2>1, GoesTo
    <2>. QED
      BY <2>1, <2>2, <1>0
  <1>4. UNCHANGED <<library, static>>
    BY DEF EnterLoader, onlyPc, data
  <1>. HIDE DEF a, c
  <1>5. LoadingTypes' /\ LibrariesLoadOnce' /\ ReadyClassesHaveTheirApi'
    BY <1>4 DEF Loading, LoadingTypes, LibrariesLoadOnce, ReadyClassesHaveTheirApi
  <1>6. CASE Now(t).op = "clinit"
    <2>1. Clinit[t] # None
      BY <1>0, <1>1, <1>6
    <2>2. Alone'
      BY <1>0, <1>1, <1>2, <1>3, <1>6, <2>1 DEF Loading, Alone
    <2>3. HalfSetUp'
      BY <1>0, <1>1, <1>4, <1>6 DEF Loading, HalfSetUp
    <2>4. \A u \in Threads : LoaderFits(u)'
      BY <1>0, <1>1, <1>2, <1>3, <1>4, <1>6 DEF Loading, LoaderFits
    <2>5. \A u \in Threads : ClinitFits(u)'
      BY <1>0, <1>1, <1>2, <1>3, <1>4, <1>6, <2>1 DEF Loading, ClinitFits
    <2>. QED
      BY <1>5, <2>2, <2>3, <2>4, <2>5 DEF Loading
  <1>7. CASE Now(t).op = "loadClass"
    <2>1. l = "lljvm"
      BY <1>7
    <2>2. Alone'
      BY <1>0, <1>1, <1>2, <1>7 DEF Loading, Alone
    <2>3. HalfSetUp'
      BY <1>0, <1>1, <1>4, <1>7 DEF Loading, HalfSetUp
    <2>4. \A u \in Threads : LoaderFits(u)'
      BY <1>0, <1>1, <1>2, <1>4, <1>7, <2>1 DEF Loading, LoaderFits
    <2>5. \A u \in Threads : ClinitFits(u)'
      BY <1>0, <1>1, <1>4, <1>7 DEF Loading, ClinitFits
    <2>. QED
      BY <1>5, <2>2, <2>3, <2>4, <2>5 DEF Loading
  <1>. QED
    BY <1>6, <1>7

-----------------------------------------------------------------------------
(* The steps of the loaders and of the static initialisers. *)

Failures == {"missing", "null", "type"}

\* What they do to the call that waits for them: nothing, or it ends with an
\* exception that is none of its own.
CallWaits(t) ==
  \/ UNCHANGED <<Call, lastRead>>
  \/ \E exception : exception \notin Failures /\ Thrown(t, exception)

LEMMA AtLoad ==
  ASSUME Structure, Loading, NEW t \in Threads, NEW pc, At(t, "load", pc)
  PROVE  /\ stack[t] # <<>> /\ Now(t) = Loader[t] /\ Loader[t] \in ActivityType
         /\ Loader[t] # None /\ Loader[t].pc = pc /\ Now(t).op = "load"
         /\ Loader[t].arg \in Libraries
         /\ library[Loader[t].arg] \in [isLoaded : BOOLEAN, api : {"null", "created", "complete"},
                                        loads : Nat]
         /\ library[Loader[t].arg].loads = IF library[Loader[t].arg].isLoaded THEN 1 ELSE 0
         /\ library[Loader[t].arg].api # "null" => library[Loader[t].arg].isLoaded
         /\ library = [library EXCEPT ![Loader[t].arg] = library[Loader[t].arg]]
         /\ \A p \in Pcs : LET a == [Loader[t] EXCEPT !.pc = p]
                           IN a # None /\ a.arg = Loader[t].arg /\ a.pc = p
  <1>1. /\ stack[t] # <<>> /\ Now(t) = Loader[t] /\ Loader[t] \in ActivityType
        /\ Now(t).op = "load" /\ Loader[t].pc = pc /\ None.op = "none"
    BY Running, Views DEF At
  <1>2. Loader[t] # None
    BY <1>1
  <1>3. Loader[t].arg \in Libraries
    BY <1>2 DEF Loading, LoaderFits
  <1>4. ASSUME NEW p \in Pcs
        PROVE  LET a == [Loader[t] EXCEPT !.pc = p]
               IN a # None /\ a.arg = Loader[t].arg /\ a.pc = p
    <2>. DEFINE a == [Loader[t] EXCEPT !.pc = p]
    <2>1. a.op = Loader[t].op /\ a.arg = Loader[t].arg /\ a.pc = p
      BY <1>1, GoesTo
    <2>. QED
      BY <1>1, <2>1
  <1>. QED
    BY <1>1, <1>2, <1>3, <1>4 DEF Loading, LoadingTypes, LibrariesLoadOnce

LEMMA FindApiStep ==
  ASSUME Structure, Loading, NEW t \in Threads, FindApi(t)
  PROVE  Structure' /\ Loading' /\ CallWaits(t)
  <1>. DEFINE l == Loader[t].arg
  <1>1. At(t, "load", "api") /\ UNCHANGED <<library, static>>
    BY DEF FindApi, data
  <1>2. CASE library[l].api # "null" /\ Return(t)
    <2>1. library[l].api # "created"
      <3>. SUFFICES ASSUME library[l].api = "created" PROVE FALSE
        OBVIOUS
      <3>1. l = "numba"
        BY <1>1, AtLoad DEF Loading, HalfSetUp
      <3>2. Clinit[t] # None /\ LibraryOf(Clinit[t].arg) = "numba"
        BY <3>1, <1>1, AtLoad DEF Loading, LoaderFits
      <3>3. static["NumbaRuntime"] = "initializing"
        BY <3>2, LibraryOfClass DEF Loading, ClinitFits
      <3>4. PICK u \in Threads : Loader[u] # None /\ Loader[u].pc = "paths"
        BY <3>3, <1>1, AtLoad DEF Loading, HalfSetUp
      <3>5. Loader[u].arg = l
        BY <3>1, <3>4 DEF Loading, LoaderFits
      <3>6. u = t
        BY <3>4, <3>5, <1>1, AtLoad DEF Loading, Alone
      <3>. QED
        BY <3>4, <3>6, <1>1, AtLoad
    <2>2. library[l].api = "complete"
      BY <2>1, <1>1, <1>2, AtLoad
    <2>3. /\ Structure' /\ UNCHANGED <<Clinit, Call, lastRead>>
          /\ Loader' = [Loader EXCEPT ![t] = None]
      BY <1>1, <1>2, AtLoad, ReturnToCall
    <2>. DEFINE r == library[l]
    <2>4. /\ Loader[t] # None /\ library' = [library EXCEPT ![l] = r]
          /\ r \in [isLoaded : BOOLEAN, api : {"null", "created", "complete"}, loads : Nat]
          /\ r.loads = IF r.isLoaded THEN 1 ELSE 0
          /\ r.api = "complete" /\ r.isLoaded
      BY <1>1, <2>2, AtLoad
    <2>. HIDE DEF r
    <2>5. Loading'
      BY <1>1, <2>3, <2>4, LoadingMoves
    <2>. QED
      BY <2>3, <2>5 DEF CallWaits
  <1>3. CASE library[l].api = "null" /\ Goto(t, "isLoaded") /\ UNCHANGED lastRead
    <2>1. /\ Structure' /\ UNCHANGED <<Clinit, Call>>
          /\ Loader' = [Loader EXCEPT ![t] = [Loader[t] EXCEPT !.pc = "isLoaded"]]
      BY <1>1, <1>3, LoaderGoesTo DEF Pcs
    <2>2. /\ [Loader[t] EXCEPT !.pc = "isLoaded"] # None
          /\ [Loader[t] EXCEPT !.pc = "isLoaded"].arg = l
          /\ [Loader[t] EXCEPT !.pc = "isLoaded"].pc = "isLoaded"
      BY <1>1, AtLoad DEF Pcs
    <2>. DEFINE r == library[l]
                a == [Loader[t] EXCEPT !.pc = "isLoaded"]
    <2>3. /\ Loader[t] # None /\ library' = [library EXCEPT ![l] = r]
          /\ r \in [isLoaded : BOOLEAN, api : {"null", "created", "complete"}, loads : Nat]
          /\ r.loads = IF r.isLoaded THEN 1 ELSE 0
          /\ library[l].api = "null" /\ r.api = "null"
      BY <1>1, <1>3, AtLoad
    <2>4. a # None /\ a.arg = l /\ a.pc = "isLoaded" /\ Loader' = [Loader EXCEPT ![t] = a]
      BY <2>1, <2>2
    <2>5. UNCHANGED static /\ UNCHANGED Clinit
      BY <1>1, <2>1
    <2>. HIDE DEF r, a
    <2>6. Loading'
      BY <2>3, <2>4, <2>5, LoadingMoves
    <2>. QED
      BY <1>3, <2>1, <2>6 DEF CallWaits
  <1>. QED
    BY <1>1, <1>2, <1>3, AtLoad DEF FindApi

LEMMA CheckLoadedStep ==
  ASSUME Structure, Loading, NEW t \in Threads, CheckLoaded(t)
  PROVE  Structure' /\ Loading' /\ CallWaits(t)
  <1>. DEFINE l  == Loader[t].arg
              pc == IF library[l].isLoaded THEN "create" ELSE "extract"
              a  == [Loader[t] EXCEPT !.pc = pc]
  <1>1. /\ At(t, "load", "isLoaded") /\ UNCHANGED <<library, static, lastRead>>
        /\ Goto(t, pc) /\ pc \in Pcs
    BY AtLoad DEF CheckLoaded, onlyPc, data, Pcs
  <1>2. library[l].api = "null"
    <2>1. Loader[t] # None /\ Loader[t].pc = "isLoaded"
      BY <1>1, AtLoad
    <2>2. LoaderFits(t)
      BY DEF Loading
    <2>. QED
      BY <2>1, <2>2 DEF LoaderFits
  <1>3. /\ Structure' /\ UNCHANGED <<Clinit, Call>>
        /\ Loader' = [Loader EXCEPT ![t] = a]
    BY <1>1, LoaderGoesTo
  <1>4. a # None /\ a.arg = l /\ a.pc = pc
    BY <1>1, AtLoad
  <1>. DEFINE r == library[l]
  <1>5. /\ Loader[t] # None /\ library' = [library EXCEPT ![l] = r]
        /\ r \in [isLoaded : BOOLEAN, api : {"null", "created", "complete"}, loads : Nat]
        /\ r.loads = IF r.isLoaded THEN 1 ELSE 0
        /\ library[l].api = "null" /\ r.api = "null"
        /\ \/ a.pc = "extract" /\ ~r.isLoaded
           \/ a.pc = "create" /\ r.isLoaded
    BY <1>1, <1>2, <1>4, AtLoad
  <1>6. UNCHANGED static /\ UNCHANGED Clinit
    BY <1>1, <1>3
  <1>. HIDE DEF a, r, pc
  <1>7. ASSUME a.pc = "extract" /\ ~r.isLoaded PROVE Loading'
    BY <1>3, <1>4, <1>5, <1>6, <1>7, LoadingMoves
  <1>8. ASSUME a.pc = "create" /\ r.isLoaded PROVE Loading'
    BY <1>3, <1>4, <1>5, <1>6, <1>8, LoadingMoves
  <1>. QED
    BY <1>1, <1>3, <1>5, <1>7, <1>8 DEF CallWaits

LEMMA LoadNativeLibraryStep ==
  ASSUME Structure, Loading, NEW t \in Threads, LoadNativeLibrary(t)
  PROVE  Structure' /\ Loading' /\ CallWaits(t)
  <1>. DEFINE l == Loader[t].arg
              a == [Loader[t] EXCEPT !.pc = "create"]
              r == [library[l] EXCEPT !.isLoaded = TRUE, !.loads = @ + 1]
  <1>1. At(t, "load", "extract")
    BY DEF LoadNativeLibrary
  <1>2. library[l].api = "null" /\ ~library[l].isLoaded /\ Loader[t] # None
    BY <1>1, AtLoad DEF Loading, LoaderFits
  <1>3. CASE /\ library' = [library EXCEPT ![Now(t).arg].isLoaded = TRUE,
                                           ![Now(t).arg].loads = @ + 1]
             /\ Goto(t, "create") /\ UNCHANGED <<static, lastRead>>
    <2>1. /\ Structure' /\ UNCHANGED <<Clinit, Call>>
          /\ Loader' = [Loader EXCEPT ![t] = a]
      BY <1>1, <1>3, LoaderGoesTo DEF Pcs
    <2>2. a # None /\ a.arg = l /\ a.pc = "create"
      BY <1>1, AtLoad DEF Pcs
    <2>3. library' = [library EXCEPT ![l] = r]
      <3>1. Now(t) = Loader[t] /\ l \in Libraries
        BY <1>1, AtLoad
      <3>2. \E S : library \in [Libraries -> S]
        BY DEF Loading, LoadingTypes
      <3>3. library' = [library EXCEPT ![l].isLoaded = TRUE, ![l].loads = @ + 1]
        BY <1>3, <3>1
      <3>. QED
        BY <3>1, <3>2, <3>3
    <2>4. /\ r \in [isLoaded : BOOLEAN, api : {"null", "created", "complete"}, loads : Nat]
          /\ r.isLoaded /\ r.loads = 1 /\ r.api = "null"
      <3>1. /\ library[l] \in [isLoaded : BOOLEAN, api : {"null", "created", "complete"},
                                loads : Nat]
            /\ library[l].loads = 0
        BY <1>1, <1>2, AtLoad
      <3>2. ASSUME NEW q \in [isLoaded : BOOLEAN, api : {"null", "created", "complete"},
                              loads : Nat], q.loads = 0, q.api = "null"
            PROVE  LET p == [q EXCEPT !.isLoaded = TRUE, !.loads = @ + 1]
                   IN /\ p \in [isLoaded : BOOLEAN, api : {"null", "created", "complete"},
                                loads : Nat]
                      /\ p.isLoaded /\ p.loads = 1 /\ p.api = "null"
        <4>. DEFINE p == [q EXCEPT !.isLoaded = TRUE, !.loads = @ + 1]
        <4>1. p.isLoaded = TRUE
          BY <3>2
        <4>2. p.loads = q.loads + 1
          BY <3>2
        <4>3. p.api = q.api
          BY <3>2
        <4>4. p \in [isLoaded : BOOLEAN, api : {"null", "created", "complete"}, loads : Nat]
          <5>1. ASSUME NEW k \in Nat
                PROVE  [q EXCEPT !.isLoaded = TRUE, !.loads = k] \in
                         [isLoaded : BOOLEAN, api : {"null", "created", "complete"}, loads : Nat]
            BY <3>2
          <5>2. q.loads + 1 \in Nat /\ p = [q EXCEPT !.isLoaded = TRUE, !.loads = q.loads + 1]
            BY <3>2
          <5>. QED
            BY <5>1, <5>2
        <4>. HIDE DEF p
        <4>5. p.loads = 1 /\ p.isLoaded /\ p.api = "null"
          BY <4>1, <4>2, <4>3, <3>2
        <4>. QED
          BY <4>4, <4>5 DEF p
      <3>. QED
        BY <1>2, <3>1, <3>2
    <2>5. UNCHANGED <<static, Clinit>>
      BY <1>3, <2>1
    <2>. HIDE DEF a, r
    <2>6. Loading'
      BY <1>2, <2>1, <2>2, <2>3, <2>4, <2>5, LoadingMoves
    <2>. QED
      BY <1>3, <2>1, <2>6 DEF CallWaits
  <1>4. CASE Throw(t, "not loaded") /\ UNCHANGED library
    BY <1>1, <1>4, AtLoad, ThrowStep, LoadingThrown DEF CallWaits, Failures
  <1>5. CASE InArrayUtils(t) /\ Catch(t) /\ UNCHANGED library
    <2>1. /\ Structure' /\ UNCHANGED <<Call, lastRead, static>>
          /\ Loader' = [Loader EXCEPT ![t] = None]
          /\ Clinit' = [Clinit EXCEPT ![t] = [Clinit[t] EXCEPT !.pc = "unsupported"]]
          /\ Clinit[t] # None /\ [Clinit[t] EXCEPT !.pc = "unsupported"] # None
      BY <1>1, <1>5, AtLoad, CatchStep DEF Catch
    <2>2. Loader[t] # None /\ Loader[t].pc # "paths"
      BY <1>1, AtLoad
    <2>. DEFINE c == [Clinit[t] EXCEPT !.pc = "unsupported"]
    <2>3. c = [Clinit[t] EXCEPT !.pc = "unsupported"] /\ c # None /\ Clinit' = [Clinit EXCEPT ![t] = c]
      BY <2>1
    <2>. HIDE DEF c
    <2>4. Loading'
      BY <1>5, <2>1, <2>2, <2>3, LoadingCaught
    <2>. QED
      BY <2>1, <2>4 DEF CallWaits
  <1>. QED
    BY <1>3, <1>4, <1>5 DEF LoadNativeLibrary

LEMMA CreateApiStep ==
  ASSUME Structure, Loading, NEW t \in Threads, CreateApi(t)
  PROVE  Structure' /\ Loading' /\ CallWaits(t)
  <1>. DEFINE l == Loader[t].arg
              a == [Loader[t] EXCEPT !.pc = "paths"]
              r == [library[l] EXCEPT !.api = IF l = "numba" THEN "created" ELSE "complete"]
  <1>1. At(t, "load", "create") /\ UNCHANGED static
    BY DEF CreateApi
  <1>2. /\ library[l].api = "null" /\ library[l].isLoaded
        /\ Loader[t] # None /\ l \in Libraries /\ Loader[t].pc = "create"
    BY <1>1, AtLoad DEF Loading, LoaderFits
  <1>3. library' = [library EXCEPT ![l] = r]
    BY <1>1, AtLoad DEF CreateApi, Loading, LoadingTypes
  <1>4. /\ r \in [isLoaded : BOOLEAN, api : {"null", "created", "complete"}, loads : Nat]
        /\ r.isLoaded /\ r.loads = 1 /\ r.api = IF l = "numba" THEN "created" ELSE "complete"
    <2>1. /\ library[l] \in [isLoaded : BOOLEAN, api : {"null", "created", "complete"},
                              loads : Nat]
          /\ library[l].isLoaded /\ library[l].loads = 1
      BY <1>1, <1>2, AtLoad
    <2>. HIDE DEF l
    <2>. QED
      BY <2>1
  <1>5. CASE l = "numba" /\ Goto(t, "paths") /\ UNCHANGED lastRead
    <2>1. /\ Structure' /\ UNCHANGED <<Clinit, Call>>
          /\ Loader' = [Loader EXCEPT ![t] = a]
      BY <1>1, <1>5, LoaderGoesTo DEF Pcs
    <2>2. a # None /\ a.arg = l /\ a.pc = "paths"
      BY <1>1, AtLoad DEF Pcs
    <2>. HIDE DEF a, r
    <2>3. Loading'
      BY <1>1, <1>2, <1>3, <1>4, <1>5, <2>1, <2>2, LoadingMoves
    <2>. QED
      BY <1>5, <2>1, <2>3 DEF CallWaits
  <1>6. CASE l # "numba" /\ Return(t)
    <2>1. /\ Structure' /\ UNCHANGED <<Clinit, Call, lastRead>>
          /\ Loader' = [Loader EXCEPT ![t] = None]
      BY <1>1, <1>6, AtLoad, ReturnToCall
    <2>. HIDE DEF r
    <2>2. Loading'
      BY <1>1, <1>2, <1>3, <1>4, <1>6, <2>1, LoadingMoves
    <2>. QED
      BY <2>1, <2>2 DEF CallWaits
  <1>. QED
    BY <1>1, <1>5, <1>6, AtLoad DEF CreateApi

LEMMA SetUpPythonStep ==
  ASSUME Structure, Loading, NEW t \in Threads, SetUpPython(t)
  PROVE  Structure' /\ Loading' /\ CallWaits(t)
  <1>. DEFINE l == Loader[t].arg
              r == [library[l] EXCEPT !.api = "complete"]
  <1>1. At(t, "load", "paths")
    BY DEF SetUpPython
  <1>2. l = "numba" /\ library[l].api = "created" /\ Loader[t] # None
    BY <1>1, AtLoad DEF Loading, LoaderFits
  <1>3. CASE /\ library' = [library EXCEPT !["numba"].api = "complete"]
             /\ Return(t) /\ UNCHANGED static
    <2>1. /\ Structure' /\ UNCHANGED <<Clinit, Call, lastRead>>
          /\ Loader' = [Loader EXCEPT ![t] = None]
      BY <1>1, <1>3, AtLoad, ReturnToCall
    <2>2. library' = [library EXCEPT ![l] = r]
      BY <1>2, <1>3
    <2>3. /\ r \in [isLoaded : BOOLEAN, api : {"null", "created", "complete"}, loads : Nat]
          /\ r.isLoaded /\ r.loads = 1 /\ r.api = "complete"
      BY <1>1, <1>2, AtLoad
    <2>4. UNCHANGED <<static, Clinit>>
      BY <1>3, <2>1
    <2>. HIDE DEF r
    <2>5. Loading'
      BY <1>2, <2>1, <2>2, <2>3, <2>4, LoadingMoves
    <2>. QED
      BY <2>1, <2>5 DEF CallWaits
  <1>4. CASE Throw(t, "no python") /\ UNCHANGED library
    BY <1>1, <1>4, AtLoad, ThrowStep, LoadingThrown DEF CallWaits, Failures
  <1>. QED
    BY <1>3, <1>4 DEF SetUpPython

LEMMA AtClinit ==
  ASSUME Structure, Loading, NEW t \in Threads, NEW pc, At(t, "clinit", pc)
  PROVE  /\ stack[t] # <<>> /\ Now(t).op = "clinit" /\ Now(t) = Clinit[t] /\ Loader[t] = None
         /\ Clinit[t] # None /\ Clinit[t].pc = pc /\ Clinit[t].arg \in StaticClasses
         /\ LibraryOf(Clinit[t].arg) \in Libraries
  <1>1. /\ stack[t] # <<>> /\ Now(t).op = "clinit" /\ Now(t) = Clinit[t] /\ Loader[t] = None
        /\ Clinit[t].pc = pc /\ None.op = "none"
    BY Running, Views DEF At
  <1>2. Clinit[t] # None
    BY <1>1
  <1>. QED
    BY <1>1, <1>2, LibraryOfClass DEF Loading, ClinitFits

LEMMA InitializeClassStep ==
  ASSUME Structure, Loading, NEW t \in Threads, InitializeClass(t)
  PROVE  Structure' /\ Loading' /\ CallWaits(t)
  <1>1. At(t, "clinit", "load") /\ EnterLoader(t, LibraryOf(Now(t).arg), "ready")
    BY DEF InitializeClass
  <1>2. UNCHANGED lastRead
    BY <1>1 DEF EnterLoader, onlyPc
  <1>. QED
    BY <1>1, <1>2, AtClinit, EnterLoaderStep, LoadingEnters DEF CallWaits, Pcs

\* The static initialiser of t ends, and its class is usable; it is ready only with
\* its library.
LEMMA LoadingEnds ==
  ASSUME Structure, Loading, NEW t \in Threads, Loader[t] = None, Clinit[t] # None,
         NEW s, s = Clinit[t].arg, s \in StaticClasses, NEW end \in {"ready", "unsupported"},
         end = "ready" => library[LibraryOf(s)].api = "complete",
         UNCHANGED library, static' = [static EXCEPT ![s] = end],
         Loader' = [Loader EXCEPT ![t] = None], Clinit' = [Clinit EXCEPT ![t] = None]
  PROVE  Loading'
  <1>0. /\ Loader \in [Threads -> ActivityType \cup {None}]
        /\ Clinit \in [Threads -> ActivityType \cup {None}]
    BY Views
  <1>1. Loader' = Loader
    BY <1>0
  <1>2. LoadingTypes'
    BY DEF Loading, LoadingTypes
  <1>3. Alone'
    BY <1>0, <1>1 DEF Loading, Alone
  <1>4. HalfSetUp'
    <2>1. static[s] = "initializing"
      BY DEF Loading, ClinitFits
    <2>. QED
      BY <2>1, <1>1 DEF Loading, LoadingTypes, HalfSetUp
  <1>5. \A u \in Threads : LoaderFits(u)'
    BY <1>0, <1>1 DEF Loading, LoaderFits
  <1>6. ASSUME NEW u \in Threads PROVE ClinitFits(u)'
    <2>1. CASE u = t
      BY <2>1, <1>0 DEF ClinitFits
    <2>2. CASE u # t /\ Clinit[u] # None
      <3>1. Clinit'[u] = Clinit[u] /\ Clinit[u].arg # s
        BY <2>2, <1>0 DEF Loading, Alone
      <3>2. static'[Clinit[u].arg] = static[Clinit[u].arg]
        BY <3>1, <2>2 DEF Loading, LoadingTypes, ClinitFits
      <3>. QED
        BY <2>2, <3>1, <3>2, <1>1 DEF Loading, ClinitFits
    <2>3. CASE u # t /\ Clinit[u] = None
      BY <2>3, <1>0 DEF ClinitFits
    <2>. QED
      BY <2>1, <2>2, <2>3
  <1>7. LibrariesLoadOnce'
    BY DEF Loading, LibrariesLoadOnce
  <1>8. ReadyClassesHaveTheirApi'
    BY DEF Loading, LoadingTypes, ReadyClassesHaveTheirApi
  <1>. QED
    BY <1>2, <1>3, <1>4, <1>5, <1>6, <1>7, <1>8 DEF Loading

LEMMA EndClassInitStep ==
  ASSUME Structure, Loading, NEW t \in Threads, EndClassInit(t)
  PROVE  Structure' /\ Loading' /\ CallWaits(t)
  <1>. DEFINE s == Clinit[t].arg
  <1>1. /\ At(t, "clinit", "ready") /\ Return(t) /\ UNCHANGED library
        /\ static' = [static EXCEPT ![Now(t).arg] = "ready"]
    BY DEF EndClassInit, data
  <1>2. /\ Structure' /\ UNCHANGED <<Call, lastRead>>
        /\ Loader' = [Loader EXCEPT ![t] = None]
        /\ Clinit' = [Clinit EXCEPT ![t] = None]
    BY <1>1, AtClinit, ReturnToCall
  <1>3. /\ Clinit[t] # None /\ Clinit[t].pc = "ready" /\ Loader[t] = None
        /\ s \in StaticClasses /\ Now(t) = Clinit[t]
    BY <1>1, AtClinit
  <1>4. library[LibraryOf(s)].api = "complete"
    <2>1. ClinitFits(t)
      BY DEF Loading
    <2>. QED
      BY <2>1, <1>3 DEF ClinitFits
  <1>5. static' = [static EXCEPT ![s] = "ready"]
    BY <1>1, <1>3
  <1>6. Loading'
    BY <1>1, <1>2, <1>3, <1>4, <1>5, LoadingEnds
  <1>. QED
    BY <1>2, <1>6 DEF CallWaits

LEMMA EndUnsupportedStep ==
  ASSUME Structure, Loading, NEW t \in Threads, EndUnsupported(t)
  PROVE  Structure' /\ Loading' /\ CallWaits(t)
  <1>. DEFINE s == Clinit[t].arg
  <1>1. PICK pc : At(t, "clinit", pc)
    BY DEF EndUnsupported
  <1>2. /\ Return(t) /\ UNCHANGED library
        /\ static' = [static EXCEPT ![s] = "unsupported"]
    BY <1>1, AtClinit DEF EndUnsupported, data
  <1>3. /\ Structure' /\ UNCHANGED <<Call, lastRead>>
        /\ Loader' = [Loader EXCEPT ![t] = None]
        /\ Clinit' = [Clinit EXCEPT ![t] = None]
    BY <1>1, <1>2, AtClinit, ReturnToCall
  <1>4. Loading'
    BY <1>1, <1>2, <1>3, AtClinit, LoadingEnds
  <1>. QED
    BY <1>3, <1>4 DEF CallWaits

LEMMA LoadStepStep ==
  ASSUME Structure, Loading, NEW t \in Threads, LoadStep(t)
  PROVE  /\ Structure' /\ Loading' /\ CallWaits(t)
         /\ UNCHANGED <<isInitialized, external, class, withdrawn, touched>>
  <1>1. Structure' /\ Loading' /\ CallWaits(t)
    BY FindApiStep, CheckLoadedStep, LoadNativeLibraryStep, CreateApiStep, SetUpPythonStep,
       InitializeClassStep, EndClassInitStep, EndUnsupportedStep DEF LoadStep
  <1>2. UNCHANGED <<isInitialized, external, class, withdrawn, touched>>
    BY DEF LoadStep, FindApi, CheckLoaded, LoadNativeLibrary, CreateApi, SetUpPython,
           InitializeClass, EnterLoader, EndClassInit, EndUnsupported, onlyPc, data
  <1>. QED
    BY <1>1, <1>2

-----------------------------------------------------------------------------
(* Providers, classes and reads. *)

Provided(n)    == external[n] # Absent \/ n \in withdrawn
Resolved(c, n) == external[n] # Absent \/ n \in touched[c]

\* What a call knows where it stands: an initialisation, what it has registered ...
InitializeFits(a) ==
  /\ a.arg \in Providers /\ a.pc \in {"check", "next", "instantiate", "register"}
  /\ a.pc # "check" => ~isInitialized
  /\ a.pc = "check" => a.todo = Providers
  /\ a.pc # "register" => a.names = {}
  /\ \A n \in a.names : Provided(n)
  /\ \A p \in Providers \ a.todo :
       p # a.arg \/ a.pc = "next" => \A n \in DOMAIN Entries[p] : Provided(n)

\* ... the load of a class, which references the driver has found ...
LoadClassFits(a) ==
  /\ a.arg \in Classes
  /\ a.pc \in {"initialized", "verify", "translate", "references", "assemble", "define"}
  /\ a.pc # "initialized" => isInitialized
  /\ a.pc \in {"verify", "translate", "references"} => a.arg \in FromBitcode
  /\ a.pc \in {"initialized", "verify", "translate"} => a.names = {}
  /\ a.pc = "references" => \A n \in a.names : a.thrown \/ Resolved(a.arg, n)
  /\ a.pc \in {"assemble", "define"} /\ a.arg \in FromBitcode =>
       \A n \in References[a.arg] : Resolved(a.arg, n)

\* ... and generated code, that its class is there; it reads one field.
ReadFits(a) ==
  /\ a.pc \in {"memory", "containsKey", "get"}
  /\ a.names # {} => a.arg \in Classes /\ class[a.arg] = "defined"
  /\ \A m, n \in a.names : m = n

CallFits(a) == /\ a.op = "initialize" => InitializeFits(a)
               /\ a.op = "loadClass" => LoadClassFits(a)
               /\ a.op = "read" => ReadFits(a)

OneInitializer ==
  \A t, u \in Threads : Call[t].op = "initialize" /\ Call[u].op = "initialize" => t = u

CallingTypes ==
  /\ isInitialized \in BOOLEAN
  /\ external \in [Names -> Types \cup {Absent}]
  /\ class \in [Classes -> {"none", "defined"}]
  /\ touched \in [FromBitcode -> SUBSET Names]
  /\ lastRead = [t \in Threads |-> lastRead[t]]

\* The class of a read that failed stays, and so does what was touched since its load.
FailedReadsFit ==
  \A t \in Threads :
    lastRead[t].class \in FromBitcode /\ lastRead[t].result \in Failures =>
      lastRead[t].names \subseteq Names /\ class[lastRead[t].class] = "defined"

DefinedWhenInitialized == \A c \in Classes : class[c] = "defined" => isInitialized

Calling == /\ CallingTypes /\ OneInitializer /\ FailedReadsFit /\ DefinedWhenInitialized
           /\ \A t \in Threads : CallFits(Call[t])
           /\ InitializedMeansComplete /\ LoadedClassesResolve /\ ReadsFailOnlyAfterChanges

rest == <<isInitialized, external, class, withdrawn, touched>>

LEMMA NoneFits == CallFits(None)
  BY DEF CallFits, None, Activity

LEMMA CallingUndisturbed ==
  ASSUME Calling, UNCHANGED <<Call, lastRead, isInitialized, external, class, withdrawn, touched>>
  PROVE  Calling'
  BY DEF Calling, CallingTypes, OneInitializer, FailedReadsFit, DefinedWhenInitialized, CallFits,
         InitializeFits, LoadClassFits, ReadFits, Provided, Resolved, InitializedMeansComplete,
         LoadedClassesResolve, ReadsFailOnlyAfterChanges

LEMMA CallingMoves ==
  ASSUME Structure, Calling, NEW t \in Threads, NEW a, CallFits(a),
         a.op = Call[t].op \/ a.op # "initialize",
         Call' = [Call EXCEPT ![t] = a], UNCHANGED <<rest, lastRead>>
  PROVE  Calling'
  <1>1. Call \in [Threads -> ActivityType \cup {None}]
    BY Views
  <1>2. UNCHANGED <<isInitialized, external, class, withdrawn, touched, lastRead>>
    BY DEF rest
  <1>3. /\ CallingTypes' /\ FailedReadsFit' /\ DefinedWhenInitialized'
        /\ InitializedMeansComplete' /\ LoadedClassesResolve' /\ ReadsFailOnlyAfterChanges'
    BY <1>2 DEF Calling, CallingTypes, FailedReadsFit, DefinedWhenInitialized,
                InitializedMeansComplete, LoadedClassesResolve, ReadsFailOnlyAfterChanges
  <1>4. OneInitializer'
    BY <1>1 DEF Calling, OneInitializer
  <1>5. ASSUME NEW u \in Threads PROVE CallFits(Call[u])'
    <2>1. CASE u = t
      <3>1. Call'[u] = a
        BY <1>1, <2>1
      <3>. QED
        BY <3>1, <1>2 DEF CallFits, InitializeFits, LoadClassFits, ReadFits, Provided, Resolved
    <2>2. CASE u # t
      <3>1. Call'[u] = Call[u] /\ CallFits(Call[u])
        BY <1>1, <2>2 DEF Calling
      <3>. QED
        BY <3>1, <1>2 DEF CallFits, InitializeFits, LoadClassFits, ReadFits, Provided, Resolved
    <2>. QED
      BY <2>1, <2>2
  <1>. QED
    BY <1>3, <1>4, <1>5 DEF Calling

\* A call ends; when it is a read that fails, somebody has changed the field.
LEMMA CallingEnds ==
  ASSUME Structure, Calling, NEW t \in Threads, NEW result, Ended(t, result),
         Call' = [Call EXCEPT ![t] = None], UNCHANGED rest,
         result \in Failures /\ Call[t].op = "read" =>
           \A n \in Call[t].names : \/ external[n] = Absent
                                    \/ result = "type" /\ external[n] # Pointer
  PROVE  Calling'
  <1>1. Call \in [Threads -> ActivityType \cup {None}]
    BY Views
  <1>2. UNCHANGED <<isInitialized, external, class, withdrawn, touched>>
    BY DEF rest
  <1>3. DefinedWhenInitialized' /\ InitializedMeansComplete' /\ LoadedClassesResolve'
    BY <1>2 DEF Calling, DefinedWhenInitialized, InitializedMeansComplete, LoadedClassesResolve
  <1>4. OneInitializer'
    BY <1>1, NoneFits DEF Calling, OneInitializer, None, Activity
  <1>5. ASSUME NEW u \in Threads PROVE CallFits(Call[u])'
    <2>1. Call'[u] = IF u = t THEN None ELSE Call[u]
      BY <1>1
    <2>2. CallFits(Call'[u])
      BY <2>1, NoneFits DEF Calling
    <2>. QED
      BY <2>2, <1>2 DEF CallFits, InitializeFits, LoadClassFits, ReadFits, Provided, Resolved
  <1>6. CASE lastRead' = lastRead
    BY <1>2, <1>3, <1>4, <1>5, <1>6
       DEF Calling, CallingTypes, FailedReadsFit, ReadsFailOnlyAfterChanges
  <1>7. CASE lastRead' # lastRead
    <2>. DEFINE read == [class |-> Call[t].arg, names |-> Call[t].names, result |-> result]
    <2>1. Call[t].op = "read" /\ Call[t].names # {} /\ lastRead' = [lastRead EXCEPT ![t] = read]
      BY <1>7 DEF Ended
    <2>2. \A u \in Threads : lastRead'[u] = IF u = t THEN read ELSE lastRead[u]
      BY <2>1 DEF Calling, CallingTypes
    <2>3. lastRead' = [u \in Threads |-> lastRead'[u]]
      BY <2>1 DEF Calling, CallingTypes
    <2>4. read.class \in Classes /\ class[read.class] = "defined" /\ read.names \subseteq Names
      <3>1. ReadFits(Call[t])
        BY <2>1 DEF Calling, CallFits
      <3>2. Call[t] \in ActivityType
        BY <1>1, <2>1 DEF None, Activity
      <3>. QED
        BY <2>1, <3>1, <3>2 DEF ReadFits, ActivityType
    <2>5. read.class \in FromBitcode /\ read.result \in Failures =>
            \A n \in read.names : \/ n \in touched[read.class] \/ n \notin References[read.class]
                                  \/ read.result = "type" /\ external[n] # Pointer
      BY <2>1, <2>4 DEF Calling, LoadedClassesResolve
    <2>. HIDE DEF read
    <2>6. FailedReadsFit'
      BY <1>2, <2>2, <2>4 DEF Calling, FailedReadsFit
    <2>7. ReadsFailOnlyAfterChanges'
      BY <1>2, <2>2, <2>5 DEF Calling, ReadsFailOnlyAfterChanges, Failures
    <2>. QED
      BY <1>2, <1>3, <1>4, <1>5, <2>3, <2>6, <2>7 DEF Calling, CallingTypes
  <1>. QED
    BY <1>6, <1>7

\* A call that waits for a loader.
LEMMA CallingWaits ==
  ASSUME Structure, Calling, NEW t \in Threads, CallWaits(t), UNCHANGED rest
  PROVE  Calling'
  <1>1. CASE UNCHANGED <<Call, lastRead>>
    BY <1>1, CallingUndisturbed DEF rest
  <1>2. CASE \E exception : exception \notin Failures /\ Thrown(t, exception)
    BY <1>2, CallingEnds DEF Thrown
  <1>. QED
    BY <1>1, <1>2 DEF CallWaits

-----------------------------------------------------------------------------
(* The steps of the calls. *)

IInv == Structure /\ Loading /\ Calling

LEMMA AtCall ==
  ASSUME IInv, NEW t \in Threads, NEW op \in Bottoms, NEW pc, At(t, op, pc)
  PROVE  /\ stack[t] # <<>> /\ Now(t) = Call[t] /\ Call[t] \in ActivityType
         /\ Call[t].op = op /\ Call[t].pc = pc /\ Now(t).op \in Bottoms
         /\ op = "initialize" => InitializeFits(Call[t])
         /\ op = "loadClass" => LoadClassFits(Call[t])
         /\ op = "read" => ReadFits(Call[t])
         /\ \A p \in Pcs : LET b == [Call[t] EXCEPT !.pc = p]
                           IN /\ b \in ActivityType /\ b.op = op /\ b.arg = Call[t].arg
                              /\ b.pc = p /\ b.todo = Call[t].todo /\ b.names = Call[t].names
                              /\ b.thrown = Call[t].thrown
  <1>1. /\ stack[t] # <<>> /\ Now(t) = Call[t] /\ Call[t] \in ActivityType
        /\ Call[t].op = op /\ Call[t].pc = pc /\ Now(t).op \in Bottoms
    BY Running DEF IInv, At
  <1>2. CallFits(Call[t])
    BY DEF IInv, Calling
  <1>3. ASSUME NEW p \in Pcs
        PROVE  LET b == [Call[t] EXCEPT !.pc = p]
               IN /\ b \in ActivityType /\ b.op = op /\ b.arg = Call[t].arg
                  /\ b.pc = p /\ b.todo = Call[t].todo /\ b.names = Call[t].names
                  /\ b.thrown = Call[t].thrown
    BY <1>1, GoesTo
  <1>. QED
    BY <1>1, <1>2, <1>3 DEF CallFits

LEMMA GoesOnKeeps ==
  ASSUME IInv, NEW t \in Threads, stack[t] # <<>>, Now(t).op \in Bottoms,
         NEW a \in ActivityType, a.op = Call[t].op, Now(t) = Call[t], CallFits(a), Continue(t, a),
         UNCHANGED <<rest, library, static, lastRead>>
  PROVE  IInv'
  <1>1. Structure' /\ CallGoesOn(t, a)
    BY CallGoesTo DEF IInv
  <1>2. Loading'
    BY <1>1, LoadingUndisturbed DEF IInv, CallGoesOn
  <1>3. Calling'
    BY <1>1, CallingMoves DEF IInv, CallGoesOn
  <1>. QED
    BY <1>1, <1>2, <1>3 DEF IInv

LEMMA ReturnKeeps ==
  ASSUME IInv, NEW t \in Threads, stack[t] # <<>>, Now(t).op \in Bottoms, Return(t),
         UNCHANGED <<rest, library, static>>
  PROVE  IInv'
  <1>1. Structure' /\ CallReturns(t)
    BY ReturnOfCall DEF IInv
  <1>2. Loading'
    BY <1>1, LoadingUndisturbed DEF IInv, CallReturns
  <1>3. Calling'
    BY <1>1, CallingEnds DEF IInv, CallReturns, Failures
  <1>. QED
    BY <1>1, <1>2, <1>3 DEF IInv

LEMMA ThrowKeeps ==
  ASSUME IInv, NEW t \in Threads, stack[t] # <<>>, NEW exception, Throw(t, exception),
         UNCHANGED <<rest, library>>,
         exception \in Failures /\ Call[t].op = "read" =>
           \A n \in Call[t].names : \/ external[n] = Absent
                                    \/ exception = "type" /\ external[n] # Pointer
  PROVE  IInv'
  <1>1. Structure' /\ Thrown(t, exception)
    BY ThrowStep DEF IInv
  <1>2. Loading'
    BY <1>1, LoadingThrown DEF IInv
  <1>3. Calling'
    BY <1>1, CallingEnds DEF IInv, Thrown
  <1>. QED
    BY <1>1, <1>2, <1>3 DEF IInv

LEMMA UseKeeps ==
  ASSUME IInv, NEW t \in Threads, stack[t] # <<>>, Now(t).op \in Bottoms,
         NEW s \in StaticClasses, NEW pc \in Pcs, Use(t, s, pc),
         CallFits([Call[t] EXCEPT !.pc = pc]), [Call[t] EXCEPT !.pc = pc].op = Call[t].op,
         UNCHANGED <<rest, library>>
  PROVE  IInv'
  <1>1. Structure'
    BY UseStep DEF IInv
  <1>2. CASE CallGoesOn(t, [Call[t] EXCEPT !.pc = pc])
    <2>1. Loading'
      BY <1>2, LoadingUndisturbed DEF IInv, CallGoesOn
    <2>2. Calling'
      BY <1>2, CallingMoves DEF IInv, CallGoesOn
    <2>. QED
      BY <1>1, <2>1, <2>2 DEF IInv
  <1>3. CASE /\ StaticBegins(t, s) /\ UNCHANGED lastRead
             /\ Call' = [Call EXCEPT ![t] = [Call[t] EXCEPT !.pc = pc]]
    <2>1. Loading'
      BY <1>3, LoadingBegins DEF IInv
    <2>2. Calling'
      BY <1>3, CallingMoves DEF IInv
    <2>. QED
      BY <1>1, <2>1, <2>2 DEF IInv
  <1>4. CASE Thrown(t, "NoClassDefFoundError")
    <2>1. Loading'
      BY <1>4, LoadingThrown DEF IInv
    <2>2. Calling'
      BY <1>4, CallingEnds DEF IInv, Thrown, Failures
    <2>. QED
      BY <1>1, <2>1, <2>2 DEF IInv
  <1>. QED
    BY <1>2, <1>3, <1>4, UseStep DEF IInv

LEMMA LoadStepKeeps ==
  ASSUME IInv, NEW t \in Threads, LoadStep(t)
  PROVE  IInv'
  BY LoadStepStep, CallingWaits DEF IInv, rest

\* A call begins.
LEMMA BeginKeeps ==
  ASSUME IInv, NEW t \in Threads, NEW a \in ActivityType, a.op \in Bottoms, Begin(t, a),
         UNCHANGED <<library, static>>
  PROVE  /\ Structure' /\ Loading' /\ Call' = [Call EXCEPT ![t] = a] /\ Call[t] = None
  <1>1. /\ Structure' /\ Loader' = Loader /\ Clinit' = Clinit
        /\ Call' = [Call EXCEPT ![t] = a] /\ Call[t] = None
    BY BeginStep DEF IInv
  <1>2. Loading'
    BY <1>1, LoadingUndisturbed DEF IInv
  <1>. QED
    BY <1>1, <1>2

-----------------------------------------------------------------------------
(* LLJVMRuntime.initialize. *)

LEMMA BeginInitializeKeeps ==
  ASSUME IInv, NEW t \in Threads, BeginInitialize(t)
  PROVE  IInv'
  <1>. DEFINE a == Activity("initialize", NumbaRuntime, "check", Providers, {})
  <1>1. /\ a \in ActivityType /\ a.op = "initialize" /\ a.op \in Bottoms
        /\ a.arg \in Providers /\ a.pc = "check" /\ a.todo = Providers /\ a.names = {}
    BY RuntimeAssumption DEF Activity, ActivityType, Bottoms
  <1>2. \A u \in Threads \ {t} : \A i \in DOMAIN stack[u] : stack[u][i].op # "initialize"
    BY DEF BeginInitialize
  <1>3. ASSUME NEW u \in Threads \ {t} PROVE Call[u].op # "initialize"
    <2>1. ~ \E i \in DOMAIN stack[u] : stack[u][i].op = "initialize"
      BY <1>2
    <2>2. (\E i \in DOMAIN stack[u] : stack[u][i].op = "initialize") <=> Call[u].op = "initialize"
      BY DoesIs DEF IInv
    <2>. QED
      BY <2>1, <2>2
  <1>4. Begin(t, a) /\ UNCHANGED <<rest, library, static, lastRead>>
    BY DEF BeginInitialize, data, rest
  <1>. HIDE DEF a
  <1>5. Structure' /\ Loading' /\ Call' = [Call EXCEPT ![t] = a]
    BY <1>1, <1>4, BeginKeeps
  <1>6. CallFits(a)
    BY <1>1 DEF CallFits, InitializeFits
  <1>7. Call \in [Threads -> ActivityType \cup {None}]
    BY Views DEF IInv
  <1>8. UNCHANGED <<isInitialized, external, class, withdrawn, touched, lastRead>>
    BY <1>4 DEF rest
  <1>9. OneInitializer'
    BY <1>3, <1>5, <1>7 DEF OneInitializer
  <1>10. ASSUME NEW u \in Threads PROVE CallFits(Call[u])'
    <2>1. CallFits(Call'[u])
      BY <1>5, <1>6, <1>7 DEF IInv, Calling
    <2>. QED
      BY <2>1, <1>8 DEF CallFits, InitializeFits, LoadClassFits, ReadFits, Provided, Resolved
  <1>11. Calling'
    BY <1>8, <1>9, <1>10
       DEF IInv, Calling, CallingTypes, FailedReadsFit, DefinedWhenInitialized,
           InitializedMeansComplete, LoadedClassesResolve, ReadsFailOnlyAfterChanges
  <1>. QED
    BY <1>5, <1>11 DEF IInv

LEMMA CheckInitializedKeeps ==
  ASSUME IInv, NEW t \in Threads, CheckInitialized(t)
  PROVE  IInv'
  <1>. DEFINE a == [Call[t] EXCEPT !.pc = "next"]
  <1>1. /\ At(t, "initialize", "check") /\ "initialize" \in Bottoms /\ "next" \in Pcs
        /\ UNCHANGED <<rest, library, static>>
    BY DEF CheckInitialized, data, rest, Bottoms, Pcs
  <1>2. CASE isInitialized /\ Return(t)
    BY <1>1, <1>2, AtCall, ReturnKeeps
  <1>3. CASE ~isInitialized /\ Goto(t, "next") /\ UNCHANGED lastRead
    <2>1. /\ stack[t] # <<>> /\ Now(t).op \in Bottoms /\ a \in ActivityType /\ a.op = Call[t].op
          /\ a.op = "initialize" /\ a.arg = Call[t].arg /\ a.pc = "next"
          /\ a.todo = Call[t].todo /\ a.names = Call[t].names /\ Now(t) = Call[t]
          /\ InitializeFits(Call[t]) /\ Call[t].pc = "check"
      BY <1>1, AtCall
    <2>2. Continue(t, a)
      BY <1>3, <2>1 DEF Goto
    <2>. HIDE DEF a
    <2>3. CallFits(a)
      BY <1>3, <2>1 DEF CallFits, InitializeFits
    <2>. QED
      BY <1>1, <1>3, <2>1, <2>2, <2>3, GoesOnKeeps
  <1>. QED
    BY <1>2, <1>3 DEF CheckInitialized

LEMMA NextProviderKeeps ==
  ASSUME IInv, NEW t \in Threads, NextProvider(t)
  PROVE  IInv'
  <1>1. /\ At(t, "initialize", "next") /\ "initialize" \in Bottoms
        /\ UNCHANGED <<rest, library, static, lastRead>>
    BY DEF NextProvider, data, onlyPc, rest, Bottoms
  <1>2. /\ stack[t] # <<>> /\ Now(t).op \in Bottoms /\ Call[t] \in ActivityType
        /\ Now(t) = Call[t] /\ InitializeFits(Call[t]) /\ Call[t].op = "initialize"
        /\ Call[t].pc = "next"
    BY <1>1, AtCall
  <1>3. PICK p \in Call[t].todo :
          Continue(t, [Call[t] EXCEPT !.arg = p, !.pc = "instantiate", !.todo = @ \ {p}])
    BY <1>2 DEF NextProvider
  <1>. DEFINE a == [Call[t] EXCEPT !.arg = p, !.pc = "instantiate", !.todo = @ \ {p}]
  <1>4. /\ a \in ActivityType /\ a.op = "initialize" /\ a.arg = p /\ a.pc = "instantiate"
        /\ a.todo = Call[t].todo \ {p} /\ a.names = Call[t].names /\ p \in Providers
    BY <1>2 DEF ActivityType
  <1>5. Continue(t, a)
    BY <1>3
  <1>. HIDE DEF a
  <1>6. CallFits(a)
    BY <1>2, <1>4 DEF CallFits, InitializeFits
  <1>. QED
    BY <1>1, <1>2, <1>4, <1>5, <1>6, GoesOnKeeps

LEMMA InstantiateKeeps ==
  ASSUME IInv, NEW t \in Threads, Instantiate(t)
  PROVE  IInv'
  <1>. DEFINE a == [Call[t] EXCEPT !.pc = "register"]
  <1>1. /\ At(t, "initialize", "instantiate") /\ "initialize" \in Bottoms /\ "register" \in Pcs
        /\ UNCHANGED <<rest, library>>
    BY DEF Instantiate, data, rest, Bottoms, Pcs
  <1>2. /\ stack[t] # <<>> /\ Now(t).op \in Bottoms /\ a \in ActivityType /\ a.op = Call[t].op
        /\ a.op = "initialize" /\ a.arg = Call[t].arg /\ a.pc = "register"
        /\ a.todo = Call[t].todo /\ a.names = Call[t].names /\ Now(t) = Call[t]
        /\ InitializeFits(Call[t]) /\ Call[t].pc = "instantiate"
    BY <1>1, AtCall
  <1>. HIDE DEF a
  <1>3. CallFits(a)
    BY <1>2 DEF CallFits, InitializeFits
  <1>4. CASE Use(t, "NumbaRuntime", "register")
    BY <1>1, <1>2, <1>3, <1>4, UseKeeps DEF a, StaticClasses
  <1>5. CASE Goto(t, "register") /\ UNCHANGED <<static, lastRead>>
    BY <1>1, <1>2, <1>3, <1>5, GoesOnKeeps DEF a, Goto
  <1>6. CASE Throw(t, "provider")
    BY <1>1, <1>2, <1>6, ThrowKeeps DEF Failures
  <1>. QED
    BY <1>4, <1>5, <1>6 DEF Instantiate

\* An entry is registered; no class is defined yet, so no read has failed.
LEMMA RegisterKeeps ==
  ASSUME IInv, NEW t \in Threads, Register(t)
  PROVE  IInv'
  <1>1. /\ At(t, "initialize", "register") /\ "initialize" \in Bottoms
        /\ UNCHANGED <<isInitialized, library, class, touched, static, lastRead>>
    BY DEF Register, Bottoms
  <1>2. /\ stack[t] # <<>> /\ Now(t).op \in Bottoms /\ Call[t] \in ActivityType
        /\ Now(t) = Call[t] /\ InitializeFits(Call[t]) /\ Call[t].op = "initialize"
        /\ Call[t].pc = "register"
    BY <1>1, AtCall
  <1>3. PICK n \in Unregistered(t) :
          /\ external'  = [external EXCEPT ![n] = Entries[Now(t).arg][n]]
          /\ withdrawn' = withdrawn \ {n}
          /\ Continue(t, [Now(t) EXCEPT !.names = @ \cup {n}])
    BY DEF Register
  <1>. DEFINE a == [Call[t] EXCEPT !.names = @ \cup {n}]
  <1>4. /\ Call[t].arg \in Providers /\ ~isInitialized
        /\ n \in DOMAIN Entries[Call[t].arg] /\ n \in Names
        /\ Entries[Call[t].arg][n] \in Types /\ Entries[Call[t].arg][n] # Absent
    BY <1>2, <1>3, RuntimeAssumption DEF InitializeFits, Unregistered
  <1>5. /\ a \in ActivityType /\ a.op = "initialize" /\ a.arg = Call[t].arg
        /\ a.pc = "register" /\ a.todo = Call[t].todo /\ a.names = Call[t].names \cup {n}
    BY <1>2, <1>4 DEF ActivityType
  <1>6. Continue(t, a)
    BY <1>2, <1>3
  <1>. HIDE DEF a
  <1>7. Structure' /\ CallGoesOn(t, a)
    BY <1>1, <1>2, <1>5, <1>6, CallGoesTo DEF IInv
  <1>8. Loading'
    BY <1>1, <1>7, LoadingUndisturbed DEF IInv, CallGoesOn
  <1>9. /\ external' = [external EXCEPT ![n] = Entries[Call[t].arg][n]]
        /\ external \in [Names -> Types \cup {Absent}]
        /\ withdrawn' = withdrawn \ {n}
    BY <1>2, <1>3 DEF IInv, Calling, CallingTypes
  <1>10. \A m : Provided(m) => external'[m] # Absent \/ m \in withdrawn'
    BY <1>4, <1>9 DEF Provided
  <1>11. external'[n] # Absent
    BY <1>4, <1>9
  <1>12. Call \in [Threads -> ActivityType \cup {None}] /\ Call' = [Call EXCEPT ![t] = a]
    BY <1>7, Views DEF IInv, CallGoesOn
  <1>13. ASSUME NEW u \in Threads PROVE CallFits(Call[u])'
    <2>1. CASE u = t
      <3>1. Call'[u] = a
        BY <2>1, <1>12
      <3>. QED
        BY <3>1, <1>1, <1>2, <1>5, <1>10, <1>11 DEF CallFits, InitializeFits, Provided
    <2>2. CASE u # t
      <3>1. Call'[u] = Call[u] /\ CallFits(Call[u])
        BY <2>2, <1>12 DEF IInv, Calling
      <3>2. Call[u].op # "initialize"
        BY <2>2, <1>2 DEF IInv, Calling, OneInitializer
      <3>3. Call[u].op = "loadClass" => LoadClassFits(Call[u]) /\ Call[u].pc = "initialized"
        BY <3>1, <1>4 DEF CallFits, LoadClassFits
      <3>. QED
        BY <3>1, <3>2, <3>3, <1>1 DEF CallFits, LoadClassFits, ReadFits
    <2>. QED
      BY <2>1, <2>2
  <1>14. OneInitializer'
    BY <1>2, <1>5, <1>12 DEF IInv, Calling, OneInitializer
  <1>15. \A c \in Classes : class[c] # "defined"
    BY <1>4 DEF IInv, Calling, DefinedWhenInitialized
  <1>16. \A u \in Threads : ~(lastRead[u].class \in FromBitcode /\ lastRead[u].result \in Failures)
    BY <1>15, RuntimeAssumption DEF IInv, Calling, FailedReadsFit
  <1>17. CallingTypes'
    BY <1>1, <1>4, <1>9 DEF IInv, Calling, CallingTypes
  <1>18. /\ FailedReadsFit' /\ DefinedWhenInitialized' /\ InitializedMeansComplete'
         /\ LoadedClassesResolve' /\ ReadsFailOnlyAfterChanges'
    BY <1>1, <1>4, <1>15, <1>16, RuntimeAssumption
       DEF FailedReadsFit, DefinedWhenInitialized, InitializedMeansComplete,
           LoadedClassesResolve, ReadsFailOnlyAfterChanges, Failures
  <1>. QED
    BY <1>7, <1>8, <1>13, <1>14, <1>17, <1>18 DEF IInv, Calling

\* The last provider sets the flag.
LEMMA ProviderFailsKeeps ==
  ASSUME IInv, NEW t \in Threads, ProviderFails(t)
  PROVE  IInv'
  <1>1. /\ At(t, "initialize", "register") /\ "initialize" \in Bottoms
        /\ Throw(t, "provider") /\ UNCHANGED <<rest, library>>
    BY DEF ProviderFails, data, rest, Bottoms
  <1>2. stack[t] # <<>>
    BY <1>1, AtCall
  <1>. QED
    BY <1>1, <1>2, ThrowKeeps DEF Failures

LEMMA EndProviderKeeps ==
  ASSUME IInv, NEW t \in Threads, EndProvider(t)
  PROVE  IInv'
  <1>1. /\ At(t, "initialize", "register") /\ "initialize" \in Bottoms
        /\ UNCHANGED <<external, library, class, withdrawn, touched, static>>
    BY DEF EndProvider, Bottoms
  <1>2. /\ stack[t] # <<>> /\ Now(t).op \in Bottoms /\ Call[t] \in ActivityType
        /\ Now(t) = Call[t] /\ InitializeFits(Call[t]) /\ Call[t].op = "initialize"
        /\ Call[t].pc = "register"
    BY <1>1, AtCall
  <1>3. \A p \in Providers \ Call[t].todo : \A n \in DOMAIN Entries[p] : Provided(n)
    <2>1. \A n \in DOMAIN Entries[Call[t].arg] : n \in Call[t].names
      BY <1>2 DEF EndProvider, Unregistered
    <2>. QED
      BY <2>1, <1>2 DEF InitializeFits
  <1>4. CASE /\ Call[t].todo # {} /\ UNCHANGED <<isInitialized, lastRead>>
             /\ Continue(t, [Now(t) EXCEPT !.pc = "next", !.names = {}])
    <2>. DEFINE a == [Call[t] EXCEPT !.pc = "next", !.names = {}]
    <2>1. /\ a \in ActivityType /\ a.op = "initialize" /\ a.arg = Call[t].arg
          /\ a.pc = "next" /\ a.todo = Call[t].todo /\ a.names = {}
      BY <1>2 DEF ActivityType
    <2>2. Continue(t, a)
      BY <1>2, <1>4
    <2>. HIDE DEF a
    <2>3. CallFits(a)
      BY <1>2, <1>3, <2>1 DEF CallFits, InitializeFits
    <2>4. UNCHANGED <<rest, library, static, lastRead>>
      BY <1>1, <1>4 DEF rest
    <2>. QED
      BY <1>2, <2>1, <2>2, <2>3, <2>4, GoesOnKeeps
  <1>5. CASE Call[t].todo = {} /\ isInitialized' = TRUE /\ Return(t)
    <2>1. Structure' /\ CallReturns(t)
      BY <1>1, <1>2, <1>5, ReturnOfCall DEF IInv
    <2>2. Loading'
      BY <1>1, <2>1, LoadingUndisturbed DEF IInv, CallReturns
    <2>3. /\ Call \in [Threads -> ActivityType \cup {None}] /\ Call' = [Call EXCEPT ![t] = None]
          /\ None.op = "none"
      BY <2>1, Views DEF IInv, CallReturns
    <2>4. UNCHANGED lastRead
      BY <1>2, <2>1 DEF CallReturns, Ended
    <2>5. OneInitializer'
      BY <2>3 DEF IInv, Calling, OneInitializer
    <2>6. ASSUME NEW u \in Threads PROVE CallFits(Call[u])'
      <3>1. Call'[u] = (IF u = t THEN None ELSE Call[u]) /\ CallFits(Call'[u])
        BY <2>3, NoneFits DEF IInv, Calling
      <3>2. Call'[u].op # "initialize"
        BY <3>1, <1>2, <2>3 DEF IInv, Calling, OneInitializer
      <3>. QED
        BY <3>1, <3>2, <1>1, <1>5 DEF CallFits, LoadClassFits, ReadFits, Resolved
    <2>7. InitializedMeansComplete'
      BY <1>1, <1>3, <1>5 DEF InitializedMeansComplete, Provided
    <2>8. /\ CallingTypes' /\ FailedReadsFit' /\ DefinedWhenInitialized' /\ LoadedClassesResolve'
          /\ ReadsFailOnlyAfterChanges'
      BY <1>1, <1>5, <2>4
         DEF IInv, Calling, CallingTypes, FailedReadsFit, DefinedWhenInitialized,
             LoadedClassesResolve, ReadsFailOnlyAfterChanges
    <2>. QED
      BY <2>1, <2>2, <2>5, <2>6, <2>7, <2>8 DEF IInv, Calling
  <1>. QED
    BY <1>2, <1>4, <1>5 DEF EndProvider

LEMMA InitializeStepKeeps ==
  ASSUME IInv, NEW t \in Threads, InitializeStep(t)
  PROVE  IInv'
  BY CheckInitializedKeeps, NextProviderKeeps, InstantiateKeeps, RegisterKeeps, ProviderFailsKeeps,
     EndProviderKeeps DEF InitializeStep

-----------------------------------------------------------------------------
(* Loading a class. *)

\* What was touched is forgotten when the class is not defined and nobody loads it.
LEMMA BeginLoadKeeps ==
  ASSUME IInv, NEW t \in Threads, NEW c \in Classes, BeginLoad(t, c)
  PROVE  IInv'
  <1>. DEFINE a == Activity("loadClass", c, "initialized", {}, {})
  <1>1. /\ a \in ActivityType /\ a.op = "loadClass" /\ a.op \in Bottoms
        /\ a.arg = c /\ a.pc = "initialized" /\ a.names = {}
    BY DEF Activity, ActivityType, Bottoms
  <1>2. /\ Begin(t, a)
        /\ UNCHANGED <<isInitialized, external, library, class, withdrawn, static, lastRead>>
        /\ touched' = [b \in FromBitcode |->
                         IF /\ b = c /\ class[c] = "none"
                            /\ \A u \in Threads : ~Does(u, "loadClass", c)
                         THEN {} ELSE touched[b]]
    BY DEF BeginLoad
  <1>3. \A u \in Threads : Does(u, "loadClass", c) <=> Call[u].op = "loadClass" /\ Call[u].arg = c
    BY DoesIs DEF IInv
  <1>4. \A u \in Threads : Call[u].op = "loadClass" /\ Call[u].arg = c => touched' = touched
    BY <1>2, <1>3 DEF IInv, Calling, CallingTypes
  <1>. HIDE DEF a
  <1>5. Structure' /\ Loading' /\ Call' = [Call EXCEPT ![t] = a]
    BY <1>1, <1>2, BeginKeeps
  <1>6. Call \in [Threads -> ActivityType \cup {None}]
    BY Views DEF IInv
  <1>7. \A b \in FromBitcode : b # c \/ class[b] = "defined" => touched'[b] = touched[b]
    BY <1>2 DEF IInv, Calling, CallingTypes
  <1>8. OneInitializer'
    BY <1>1, <1>5, <1>6 DEF IInv, Calling, OneInitializer
  <1>9. ASSUME NEW u \in Threads PROVE CallFits(Call[u])'
    <2>1. CASE u = t
      <3>1. Call'[u] = a
        BY <2>1, <1>5, <1>6
      <3>. QED
        BY <3>1, <1>1 DEF CallFits, LoadClassFits
    <2>2. CASE u # t
      <3>1. Call'[u] = Call[u] /\ CallFits(Call[u])
        BY <2>2, <1>5, <1>6 DEF IInv, Calling
      <3>2. Call[u].op = "initialize" => InitializeFits(Call[u])'
        BY <3>1, <1>2 DEF CallFits, InitializeFits, Provided
      <3>3. Call[u].op = "loadClass" => LoadClassFits(Call[u])'
        <4>. SUFFICES ASSUME Call[u].op = "loadClass" PROVE LoadClassFits(Call[u])'
          OBVIOUS
        <4>1. LoadClassFits(Call[u])
          BY <3>1 DEF CallFits
        <4>2. Call[u].arg \in FromBitcode => touched'[Call[u].arg] = touched[Call[u].arg]
          BY <1>4, <1>7
        <4>. QED
          BY <4>1, <4>2, <3>1, <1>2 DEF LoadClassFits, Resolved
      <3>4. Call[u].op = "read" => ReadFits(Call[u])'
        BY <3>1, <1>2 DEF CallFits, ReadFits
      <3>. QED
        BY <3>1, <3>2, <3>3, <3>4 DEF CallFits
    <2>. QED
      BY <2>1, <2>2
  <1>10. CallingTypes' /\ FailedReadsFit' /\ DefinedWhenInitialized' /\ InitializedMeansComplete'
    BY <1>2 DEF IInv, Calling, CallingTypes, FailedReadsFit, DefinedWhenInitialized,
                InitializedMeansComplete
  <1>11. LoadedClassesResolve'
    BY <1>2, <1>7 DEF IInv, Calling, LoadedClassesResolve
  <1>12. ReadsFailOnlyAfterChanges'
    BY <1>2, <1>7 DEF IInv, Calling, FailedReadsFit, ReadsFailOnlyAfterChanges, Failures
  <1>. QED
    BY <1>5, <1>8, <1>9, <1>10, <1>11, <1>12 DEF IInv, Calling

LEMMA CheckRuntimeKeeps ==
  ASSUME IInv, NEW t \in Threads, CheckRuntime(t)
  PROVE  IInv'
  <1>. DEFINE pc == IF Call[t].arg \in FromBitcode THEN "verify" ELSE "assemble"
              a  == [Call[t] EXCEPT !.pc = pc]
  <1>1. /\ At(t, "loadClass", "initialized") /\ "loadClass" \in Bottoms
        /\ pc \in Pcs /\ UNCHANGED <<rest, library>>
    BY DEF CheckRuntime, data, rest, Bottoms, Pcs
  <1>2. /\ stack[t] # <<>> /\ Now(t).op \in Bottoms /\ a \in ActivityType /\ a.op = Call[t].op
        /\ a.op = "loadClass" /\ a.arg = Call[t].arg /\ a.pc = pc
        /\ a.names = Call[t].names /\ Now(t) = Call[t]
        /\ LoadClassFits(Call[t]) /\ Call[t].pc = "initialized"
    BY <1>1, AtCall
  <1>3. CASE isInitialized /\ Goto(t, pc) /\ UNCHANGED <<static, lastRead>>
    <2>1. Continue(t, a)
      BY <1>2, <1>3 DEF Goto
    <2>. HIDE DEF a
    <2>2. CallFits(a)
      BY <1>2, <1>3 DEF CallFits, LoadClassFits
    <2>. QED
      BY <1>1, <1>2, <1>3, <2>1, <2>2, GoesOnKeeps
  <1>4. CASE Throw(t, "not initialized")
    BY <1>1, <1>2, <1>4, ThrowKeeps DEF Failures
  <1>. QED
    BY <1>2, <1>3, <1>4 DEF CheckRuntime

\* The driver calls the loader of its library.
LEMMA DriverKeeps ==
  ASSUME IInv, NEW t \in Threads, NEW from, NEW pc \in {"translate", "references"},
         At(t, "loadClass", from), from \in {"verify", "translate"},
         EnterLoader(t, "lljvm", pc)
  PROVE  IInv'
  <1>. DEFINE a == [Call[t] EXCEPT !.pc = pc]
  <1>1. /\ "loadClass" \in Bottoms /\ pc \in Pcs /\ "lljvm" \in Libraries
        /\ UNCHANGED <<rest, library, lastRead>>
    BY DEF EnterLoader, onlyPc, data, rest, Bottoms, Pcs, Libraries
  <1>2. /\ stack[t] # <<>> /\ Now(t).op \in Bottoms /\ a.op = Call[t].op
        /\ a.op = "loadClass" /\ a.arg = Call[t].arg /\ a.pc = pc
        /\ a.names = Call[t].names /\ Now(t) = Call[t]
        /\ LoadClassFits(Call[t]) /\ Call[t].pc = from
    BY <1>1, AtCall
  <1>3. Structure' /\ Call' = [Call EXCEPT ![t] = a]
    BY <1>1, <1>2, EnterLoaderStep DEF IInv
  <1>4. Loading'
    BY <1>1, <1>2, LoadingEnters DEF IInv
  <1>. HIDE DEF a
  <1>5. CallFits(a)
    BY <1>2 DEF CallFits, LoadClassFits
  <1>6. Calling'
    BY <1>1, <1>2, <1>3, <1>5, CallingMoves DEF IInv
  <1>. QED
    BY <1>3, <1>4, <1>6 DEF IInv

LEMMA RejectKeeps ==
  ASSUME IInv, NEW t \in Threads, Reject(t)
  PROVE  IInv'
  <1>1. /\ stack[t] # <<>> /\ Throw(t, "rejected") /\ UNCHANGED <<rest, library>>
    BY DEF Reject, At, data, rest
  <1>. QED
    BY <1>1, ThrowKeeps DEF Failures

LEMMA CheckReferenceKeeps ==
  ASSUME IInv, NEW t \in Threads, CheckReference(t)
  PROVE  IInv'
  <1>1. /\ At(t, "loadClass", "references") /\ "loadClass" \in Bottoms
        /\ UNCHANGED <<rest, library, static, lastRead>>
    BY DEF CheckReference, onlyPc, data, rest, Bottoms
  <1>2. /\ stack[t] # <<>> /\ Now(t).op \in Bottoms /\ Call[t] \in ActivityType
        /\ Now(t) = Call[t] /\ LoadClassFits(Call[t]) /\ Call[t].op = "loadClass"
        /\ Call[t].pc = "references"
    BY <1>1, AtCall
  <1>3. PICK n \in Unchecked(t) :
          Continue(t, [Call[t] EXCEPT !.names = @ \cup {n},
                                      !.thrown = @ \/ external[n] = Absent])
    BY <1>2 DEF CheckReference
  <1>. DEFINE a == [Call[t] EXCEPT !.names = @ \cup {n}, !.thrown = @ \/ external[n] = Absent]
  <1>4. n \in Names
    BY <1>2, RuntimeAssumption DEF LoadClassFits, Unchecked
  <1>5. /\ a \in ActivityType /\ a.op = "loadClass" /\ a.arg = Call[t].arg
        /\ a.pc = "references" /\ a.names = Call[t].names \cup {n}
        /\ a.thrown = (Call[t].thrown \/ external[n] = Absent)
    BY <1>2, <1>4 DEF ActivityType
  <1>6. Continue(t, a)
    BY <1>3
  <1>. HIDE DEF a
  <1>7. CallFits(a)
    BY <1>2, <1>5 DEF CallFits, LoadClassFits, Resolved
  <1>. QED
    BY <1>1, <1>2, <1>5, <1>6, <1>7, GoesOnKeeps

LEMMA EndTranslationKeeps ==
  ASSUME IInv, NEW t \in Threads, EndTranslation(t)
  PROVE  IInv'
  <1>. DEFINE a == [Call[t] EXCEPT !.pc = "assemble"]
  <1>1. /\ At(t, "loadClass", "references") /\ "loadClass" \in Bottoms /\ "assemble" \in Pcs
        /\ UNCHANGED <<rest, library>>
    BY DEF EndTranslation, data, rest, Bottoms, Pcs
  <1>2. /\ stack[t] # <<>> /\ Now(t).op \in Bottoms /\ a \in ActivityType /\ a.op = Call[t].op
        /\ a.op = "loadClass" /\ a.arg = Call[t].arg /\ a.pc = "assemble"
        /\ Now(t) = Call[t] /\ LoadClassFits(Call[t]) /\ Call[t].pc = "references"
    BY <1>1, AtCall
  <1>3. CASE ~Now(t).thrown /\ Goto(t, "assemble") /\ UNCHANGED <<static, lastRead>>
    <2>1. Continue(t, a)
      BY <1>2, <1>3 DEF Goto
    <2>2. References[Call[t].arg] \subseteq Call[t].names
      BY <1>2 DEF EndTranslation, Unchecked
    <2>. HIDE DEF a
    <2>3. CallFits(a)
      BY <1>2, <1>3, <2>2 DEF CallFits, LoadClassFits
    <2>. QED
      BY <1>1, <1>2, <1>3, <2>1, <2>3, GoesOnKeeps
  <1>4. CASE Throw(t, "unresolved")
    BY <1>1, <1>2, <1>4, ThrowKeeps DEF Failures
  <1>. QED
    BY <1>3, <1>4 DEF EndTranslation

LEMMA AssembleKeeps ==
  ASSUME IInv, NEW t \in Threads, Assemble(t)
  PROVE  IInv'
  <1>. DEFINE a == [Call[t] EXCEPT !.pc = "define"]
  <1>1. /\ At(t, "loadClass", "assemble") /\ "loadClass" \in Bottoms /\ "define" \in Pcs
        /\ Use(t, "JVMAssembler", "define") /\ "JVMAssembler" \in StaticClasses
        /\ UNCHANGED <<rest, library>>
    BY DEF Assemble, data, rest, Bottoms, Pcs, StaticClasses
  <1>2. /\ stack[t] # <<>> /\ Now(t).op \in Bottoms /\ a.op = Call[t].op
        /\ a.op = "loadClass" /\ a.arg = Call[t].arg /\ a.pc = "define"
        /\ LoadClassFits(Call[t]) /\ Call[t].pc = "assemble"
    BY <1>1, AtCall
  <1>. HIDE DEF a
  <1>3. CallFits(a)
    BY <1>2 DEF CallFits, LoadClassFits
  <1>. QED
    BY <1>1, <1>2, <1>3, UseKeeps DEF a

LEMMA DefineClassKeeps ==
  ASSUME IInv, NEW t \in Threads, DefineClass(t)
  PROVE  IInv'
  <1>. DEFINE c == Call[t].arg
  <1>1. /\ At(t, "loadClass", "define") /\ "loadClass" \in Bottoms
        /\ UNCHANGED <<isInitialized, external, library, withdrawn, touched>>
    BY DEF DefineClass, Bottoms
  <1>2. /\ stack[t] # <<>> /\ Now(t).op \in Bottoms /\ Call[t].op = "loadClass"
        /\ Now(t) = Call[t] /\ LoadClassFits(Call[t]) /\ Call[t].pc = "define"
        /\ isInitialized /\ c \in Classes
    BY <1>1, AtCall DEF LoadClassFits
  <1>3. CASE class' = [class EXCEPT ![Now(t).arg] = "defined"] /\ Return(t) /\ UNCHANGED static
    <2>1. Structure' /\ CallReturns(t)
      BY <1>2, <1>3, ReturnOfCall DEF IInv
    <2>2. Loading'
      BY <1>1, <2>1, LoadingUndisturbed DEF IInv, CallReturns
    <2>3. Call \in [Threads -> ActivityType \cup {None}] /\ Call' = [Call EXCEPT ![t] = None]
      BY <2>1, Views DEF IInv, CallReturns
    <2>4. UNCHANGED lastRead
      BY <1>2, <2>1 DEF CallReturns, Ended
    <2>5. /\ class' = [class EXCEPT ![c] = "defined"]
          /\ class \in [Classes -> {"none", "defined"}]
      BY <1>2, <1>3 DEF IInv, Calling, CallingTypes
    <2>6. \A b \in Classes : class[b] = "defined" => class'[b] = "defined"
      BY <2>5
    <2>7. OneInitializer'
      BY <2>3 DEF IInv, Calling, OneInitializer, None, Activity
    <2>8. ASSUME NEW u \in Threads PROVE CallFits(Call[u])'
      <3>1. Call'[u] = IF u = t THEN None ELSE Call[u]
        BY <2>3
      <3>2. CallFits(Call'[u])
        BY <3>1, NoneFits DEF IInv, Calling
      <3>. QED
        BY <3>2, <1>1, <2>6
           DEF CallFits, InitializeFits, LoadClassFits, ReadFits, Provided, Resolved
    <2>9. LoadedClassesResolve'
      <3>. SUFFICES ASSUME NEW b \in FromBitcode, class'[b] = "defined", NEW n \in References[b]
                    PROVE  external[n] # Absent \/ n \in touched[b]
        BY <1>1 DEF LoadedClassesResolve
      <3>1. CASE b = c
        BY <3>1, <1>2 DEF LoadClassFits, Resolved
      <3>2. CASE b # c
        BY <3>2, <2>5, RuntimeAssumption DEF IInv, Calling, LoadedClassesResolve
      <3>. QED
        BY <3>1, <3>2
    <2>10. FailedReadsFit'
      BY <2>4, <2>6, RuntimeAssumption DEF IInv, Calling, FailedReadsFit
    <2>11. /\ CallingTypes' /\ DefinedWhenInitialized' /\ InitializedMeansComplete'
           /\ ReadsFailOnlyAfterChanges'
      BY <1>1, <1>2, <2>4, <2>5
         DEF IInv, Calling, CallingTypes, DefinedWhenInitialized, InitializedMeansComplete,
             ReadsFailOnlyAfterChanges
    <2>. QED
      BY <2>1, <2>2, <2>7, <2>8, <2>9, <2>10, <2>11 DEF IInv, Calling
  <1>4. CASE \E exception \in {"illegal bytecode", "LinkageError"} :
               Throw(t, exception) /\ UNCHANGED class
    <2>1. UNCHANGED <<rest, library>>
      BY <1>1, <1>4 DEF rest
    <2>. QED
      BY <1>2, <1>4, <2>1, ThrowKeeps DEF Failures
  <1>. QED
    BY <1>2, <1>3, <1>4 DEF DefineClass

LEMMA ClassStepKeeps ==
  ASSUME IInv, NEW t \in Threads, ClassStep(t)
  PROVE  IInv'
  <1>1. CASE VerifyBitcode(t)
    BY <1>1, DriverKeeps DEF VerifyBitcode
  <1>2. CASE Translate(t)
    BY <1>2, DriverKeeps DEF Translate
  <1>. QED
    BY <1>1, <1>2, CheckRuntimeKeeps, RejectKeeps, CheckReferenceKeeps, EndTranslationKeeps,
       AssembleKeeps, DefineClassKeeps DEF ClassStep

-----------------------------------------------------------------------------
(* Generated code, and others that change the registries. *)

\* A call that begins with what it knows.
LEMMA BeginCallOf ==
  ASSUME IInv, NEW t \in Threads, NEW a \in ActivityType, a.op \in {"read", "address"},
         CallFits(a),
         Begin(t, a), UNCHANGED <<rest, library, static, lastRead>>
  PROVE  IInv'
  <1>1. Structure' /\ Loading' /\ Call' = [Call EXCEPT ![t] = a]
    BY BeginKeeps DEF Bottoms
  <1>2. Calling'
    BY <1>1, CallingMoves DEF IInv
  <1>. QED
    BY <1>1, <1>2 DEF IInv

LEMMA BeginReadKeeps ==
  ASSUME IInv, NEW t \in Threads, NEW c \in Classes, NEW n \in Names, BeginRead(t, c, n)
  PROVE  IInv'
  <1>. DEFINE a == Activity("read", c, "memory", {}, {Sanitized[n]})
  <1>1. Sanitized[n] \in Names
    BY RuntimeAssumption
  <1>2. /\ a \in ActivityType /\ a.op = "read" /\ a.arg = c /\ a.pc = "memory"
        /\ a.names = {Sanitized[n]}
    BY <1>1 DEF Activity, ActivityType
  <1>3. Begin(t, a) /\ class[c] = "defined" /\ UNCHANGED <<rest, library, static, lastRead>>
    BY DEF BeginRead, data, rest
  <1>. HIDE DEF a
  <1>4. CallFits(a)
    BY <1>2, <1>3 DEF CallFits, ReadFits
  <1>. QED
    BY <1>2, <1>3, <1>4, BeginCallOf

LEMMA UseMemoryKeeps ==
  ASSUME IInv, NEW t \in Threads, UseMemory(t)
  PROVE  IInv'
  <1>. DEFINE a == [Call[t] EXCEPT !.pc = "containsKey"]
  <1>1. /\ At(t, "read", "memory") /\ "read" \in Bottoms /\ "containsKey" \in Pcs
        /\ Use(t, "VMemory", "containsKey") /\ "VMemory" \in StaticClasses
        /\ UNCHANGED <<rest, library>>
    BY DEF UseMemory, data, rest, Bottoms, Pcs, StaticClasses
  <1>2. /\ stack[t] # <<>> /\ Now(t).op \in Bottoms /\ a.op = Call[t].op
        /\ a.op = "read" /\ a.arg = Call[t].arg /\ a.pc = "containsKey"
        /\ a.names = Call[t].names /\ ReadFits(Call[t])
    BY <1>1, AtCall
  <1>. HIDE DEF a
  <1>3. CallFits(a)
    BY <1>2 DEF CallFits, ReadFits
  <1>. QED
    BY <1>1, <1>2, <1>3, UseKeeps DEF a

LEMMA ContainsFieldKeeps ==
  ASSUME IInv, NEW t \in Threads, ContainsField(t)
  PROVE  IInv'
  <1>. DEFINE a == [Call[t] EXCEPT !.pc = "get"]
  <1>1. /\ At(t, "read", "containsKey") /\ "read" \in Bottoms /\ "get" \in Pcs
        /\ UNCHANGED <<rest, library>>
    BY DEF ContainsField, data, rest, Bottoms, Pcs
  <1>2. /\ stack[t] # <<>> /\ Now(t).op \in Bottoms /\ a \in ActivityType /\ a.op = Call[t].op
        /\ a.op = "read" /\ a.arg = Call[t].arg /\ a.pc = "get"
        /\ a.names = Call[t].names /\ Now(t) = Call[t] /\ ReadFits(Call[t])
    BY <1>1, AtCall
  <1>3. PICK n \in Call[t].names :
          IF external[n] # Absent
          THEN Goto(t, "get") /\ UNCHANGED <<static, lastRead>>
          ELSE Throw(t, "missing")
    BY <1>2 DEF ContainsField
  <1>4. CASE external[n] # Absent
    <2>1. Continue(t, a)
      BY <1>2, <1>3, <1>4 DEF Goto
    <2>. HIDE DEF a
    <2>2. CallFits(a)
      BY <1>2 DEF CallFits, ReadFits
    <2>. QED
      BY <1>1, <1>2, <1>3, <1>4, <2>1, <2>2, GoesOnKeeps
  <1>5. CASE external[n] = Absent
    <2>1. \A m \in Call[t].names : external[m] = Absent
      BY <1>2, <1>5 DEF ReadFits
    <2>. QED
      BY <1>1, <1>2, <1>3, <1>5, <2>1, ThrowKeeps
  <1>. QED
    BY <1>4, <1>5

LEMMA GetFieldKeeps ==
  ASSUME IInv, NEW t \in Threads, GetField(t)
  PROVE  IInv'
  <1>1. /\ At(t, "read", "get") /\ "read" \in Bottoms
        /\ UNCHANGED <<rest, library>>
    BY DEF GetField, data, rest, Bottoms
  <1>2. /\ stack[t] # <<>> /\ Now(t).op \in Bottoms /\ Now(t) = Call[t] /\ ReadFits(Call[t])
    BY <1>1, AtCall
  <1>3. PICK n \in Call[t].names :
          IF external[n] = Pointer
          THEN Return(t) /\ UNCHANGED static
          ELSE Throw(t, IF external[n] = Absent THEN "null" ELSE "type")
    BY <1>2 DEF GetField
  <1>4. CASE external[n] = Pointer
    BY <1>1, <1>2, <1>3, <1>4, ReturnKeeps
  <1>5. CASE external[n] = Absent
    <2>1. Pointer # Absent
      BY RuntimeAssumption
    <2>2. Throw(t, "null") /\ \A m \in Call[t].names : external[m] = Absent
      BY <1>2, <1>3, <1>5, <2>1 DEF ReadFits
    <2>. QED
      BY <1>1, <1>2, <2>2, ThrowKeeps
  <1>6. CASE external[n] # Pointer /\ external[n] # Absent
    <2>1. Throw(t, "type") /\ \A m \in Call[t].names : external[m] # Pointer
      BY <1>2, <1>3, <1>6 DEF ReadFits
    <2>. QED
      BY <1>1, <1>2, <2>1, ThrowKeeps
  <1>. QED
    BY <1>4, <1>5, <1>6

LEMMA ReadStepKeeps ==
  ASSUME IInv, NEW t \in Threads, ReadStep(t)
  PROVE  IInv'
  BY UseMemoryKeeps, ContainsFieldKeeps, GetFieldKeeps DEF ReadStep

\* A call for an address knows nothing.
LEMMA BeginAddressKeeps ==
  ASSUME IInv, NEW t \in Threads, BeginAddress(t)
  PROVE  IInv'
  <1>1. PICK pc \in {"memory", "array"} : Begin(t, Activity("address", NumbaRuntime, pc, {}, {}))
    BY DEF BeginAddress
  <1>. DEFINE a == Activity("address", NumbaRuntime, pc, {}, {})
  <1>2. a \in ActivityType /\ a.op = "address"
    BY RuntimeAssumption DEF Activity, ActivityType
  <1>3. Begin(t, a) /\ UNCHANGED <<rest, library, static, lastRead>>
    BY <1>1 DEF BeginAddress, data, rest
  <1>. HIDE DEF a
  <1>4. CallFits(a)
    BY <1>2 DEF CallFits
  <1>. QED
    BY <1>2, <1>3, <1>4, BeginCallOf

LEMMA AddressUsesKeeps ==
  ASSUME IInv, NEW t \in Threads, NEW from, At(t, "address", from),
         NEW s \in StaticClasses, NEW pc \in Pcs, Use(t, s, pc), UNCHANGED <<rest, library>>
  PROVE  IInv'
  <1>. DEFINE a == [Call[t] EXCEPT !.pc = pc]
  <1>1. "address" \in Bottoms
    BY DEF Bottoms
  <1>2. /\ stack[t] # <<>> /\ Now(t).op \in Bottoms
        /\ a.op = Call[t].op /\ a.op = "address"
    BY <1>1, AtCall
  <1>. HIDE DEF a
  <1>3. CallFits(a)
    BY <1>2 DEF CallFits
  <1>. QED
    BY <1>2, <1>3, UseKeeps DEF a

LEMMA AddressStepKeeps ==
  ASSUME IInv, NEW t \in Threads, AddressStep(t)
  PROVE  IInv'
  <1>0. /\ {"VMemory", "ArrayUtils"} \subseteq StaticClasses
        /\ {"array", "addressOf"} \subseteq Pcs /\ "address" \in Bottoms
    BY DEF StaticClasses, Pcs, Bottoms
  <1>1. CASE AllocateHolder(t)
    BY <1>0, <1>1, AddressUsesKeeps DEF AllocateHolder, data, rest
  <1>2. CASE UseArrays(t)
    BY <1>0, <1>2, AddressUsesKeeps DEF UseArrays, data, rest
  <1>3. CASE EndAddress(t)
    <2>1. At(t, "address", "addressOf") /\ UNCHANGED <<rest, library>>
      BY <1>3 DEF EndAddress, data, rest
    <2>2. stack[t] # <<>> /\ Now(t).op \in Bottoms
      BY <1>0, <2>1, AtCall
    <2>3. CASE Return(t) /\ UNCHANGED static
      BY <2>1, <2>2, <2>3, ReturnKeeps
    <2>4. CASE Throw(t, "not supported")
      BY <2>1, <2>2, <2>4, ThrowKeeps DEF Failures
    <2>. QED
      BY <1>3, <2>3, <2>4 DEF EndAddress
  <1>. QED
    BY <1>1, <1>2, <1>3 DEF AddressStep

\* What others change they touch; what they withdraw is withdrawn.
LEMMA ChangeKeeps ==
  ASSUME IInv, NEW names \in SUBSET Names, NEW value \in Types \cup {Absent},
         Change(names, value)
  PROVE  IInv'
  <1>1. /\ UNCHANGED <<isInitialized, library, class, static, stack, lastRead>>
        /\ external' = [n \in Names |-> IF n \in names THEN value ELSE external[n]]
        /\ withdrawn' = IF value = Absent THEN withdrawn \cup names ELSE withdrawn \ names
        /\ touched' = [c \in FromBitcode |-> touched[c] \cup names]
    BY DEF Change
  <1>2. Structure' /\ UNCHANGED <<Loader, Clinit, Call>>
    BY <1>1 DEF IInv, Structure, Loader, Clinit, Call
  <1>3. Loading'
    BY <1>1, <1>2, LoadingUndisturbed DEF IInv
  <1>4. /\ CallingTypes
        /\ external \in [Names -> Types \cup {Absent}] /\ touched \in [FromBitcode -> SUBSET Names]
    BY DEF IInv, Calling, CallingTypes
  <1>5. \A n \in Names : Provided(n) => external'[n] # Absent \/ n \in withdrawn'
    BY <1>1, <1>4 DEF Provided
  <1>6. \A c \in FromBitcode : \A n \in Names :
          Resolved(c, n) => external'[n] # Absent \/ n \in touched'[c]
    BY <1>1, <1>4 DEF Resolved
  <1>7. ASSUME NEW t \in Threads PROVE CallFits(Call[t])'
    <2>1. Call'[t] = Call[t] /\ CallFits(Call[t]) /\ (Call[t] = None \/ Call[t] \in ActivityType)
      BY <1>2, Views DEF IInv, Calling
    <2>2. Call[t].op = "initialize" => InitializeFits(Call[t])'
      <3>. SUFFICES ASSUME Call[t].op = "initialize" PROVE InitializeFits(Call[t])'
        OBVIOUS
      <3>1. InitializeFits(Call[t]) /\ Call[t].names \subseteq Names
        BY <2>1 DEF CallFits, ActivityType, None, Activity
      <3>2. \A p \in Providers : DOMAIN Entries[p] \subseteq Names
        BY RuntimeAssumption
      <3>. QED
        BY <3>1, <3>2, <2>1, <1>1, <1>5 DEF InitializeFits, Provided
    <2>3. Call[t].op = "loadClass" => LoadClassFits(Call[t])'
      <3>. SUFFICES ASSUME Call[t].op = "loadClass" PROVE LoadClassFits(Call[t])'
        OBVIOUS
      <3>1. LoadClassFits(Call[t]) /\ Call[t].names \subseteq Names
        BY <2>1 DEF CallFits, ActivityType, None, Activity
      <3>2. References[Call[t].arg] \subseteq Names
        BY <3>1, RuntimeAssumption DEF LoadClassFits
      <3>. QED
        BY <3>1, <3>2, <2>1, <1>1, <1>6 DEF LoadClassFits, Resolved
    <2>4. Call[t].op = "read" => ReadFits(Call[t])'
      BY <2>1, <1>1 DEF CallFits, ReadFits
    <2>. QED
      BY <2>1, <2>2, <2>3, <2>4 DEF CallFits
  <1>8. CallingTypes'
    BY <1>1, <1>4 DEF CallingTypes
  <1>9. OneInitializer' /\ FailedReadsFit' /\ DefinedWhenInitialized'
    BY <1>1, <1>2 DEF IInv, Calling, OneInitializer, FailedReadsFit, DefinedWhenInitialized
  <1>10. InitializedMeansComplete'
    BY <1>1, <1>5, RuntimeAssumption DEF IInv, Calling, InitializedMeansComplete, Provided
  <1>11. LoadedClassesResolve'
    <2>1. \A c \in FromBitcode : References[c] \subseteq Names
      BY RuntimeAssumption
    <2>. QED
      BY <2>1, <1>1, <1>6 DEF IInv, Calling, LoadedClassesResolve, Resolved
  <1>12. ReadsFailOnlyAfterChanges'
    <2>. SUFFICES ASSUME NEW t \in Threads, lastRead[t].class \in FromBitcode,
                         lastRead[t].result \in Failures, NEW n \in lastRead[t].names
                  PROVE  \/ n \in touched'[lastRead[t].class]
                         \/ n \notin References[lastRead[t].class]
                         \/ lastRead[t].result = "type" /\ external'[n] # Pointer
      BY <1>1 DEF ReadsFailOnlyAfterChanges, Failures
    <2>1. n \in Names
      BY DEF IInv, Calling, FailedReadsFit
    <2>2. \/ n \in touched[lastRead[t].class] \/ n \notin References[lastRead[t].class]
          \/ lastRead[t].result = "type" /\ external[n] # Pointer
      BY DEF IInv, Calling, ReadsFailOnlyAfterChanges, Failures
    <2>. QED
      BY <2>1, <2>2, <1>1
  <1>. QED
    BY <1>2, <1>3, <1>7, <1>8, <1>9, <1>10, <1>11, <1>12 DEF IInv, Calling

-----------------------------------------------------------------------------
(* The theorems. *)

LEMMA Initially == Init => IInv
  <1>. SUFFICES ASSUME Init PROVE IInv
    OBVIOUS
  <1>1. stack = [t \in Threads |-> <<>>] /\ \A t \in Threads : stack[t] = <<>>
    BY DEF Init
  <1>2. <<>> \in Seq(ActivityType) /\ WellFormed(<<>>)
    BY DEF WellFormed
  <1>3. Structure
    BY <1>1, <1>2 DEF Structure
  <1>4. \A t \in Threads : Loader[t] = None /\ Clinit[t] = None /\ Call[t] = None
    BY <1>1, <1>3, Views
  <1>5. None.op = "none"
    BY DEF None, Activity
  <1>6. Loading
    BY <1>4 DEF Init, Loading, LoadingTypes, Alone, HalfSetUp, LoaderFits, ClinitFits,
                LibrariesLoadOnce, ReadyClassesHaveTheirApi, LibraryOf, Libraries, StaticClasses
  <1>7. Calling
    <2>1. \A t \in Threads : CallFits(Call[t]) /\ Call[t].op # "initialize"
      BY <1>4, <1>5, NoneFits
    <2>2. \A t \in Threads : lastRead[t].result \notin Failures
      BY DEF Init, NoRead, Failures
    <2>3. \A c \in Classes : class[c] = "none"
      BY DEF Init
    <2>4. CallingTypes
      BY DEF Init, CallingTypes
    <2>. QED
      BY <2>1, <2>2, <2>3, <2>4, RuntimeAssumption
         DEF Init, Calling, OneInitializer, FailedReadsFit, DefinedWhenInitialized,
             InitializedMeansComplete, LoadedClassesResolve, ReadsFailOnlyAfterChanges, Failures
  <1>. QED
    BY <1>3, <1>6, <1>7 DEF IInv

LEMMA Inductive == IInv /\ [Next]_vars => IInv'
  <1>. SUFFICES ASSUME IInv, [Next]_vars PROVE IInv'
    OBVIOUS
  <1>1. ASSUME NEW t \in Threads, BeginInitialize(t) \/ BeginAddress(t) PROVE IInv'
    BY <1>1, BeginInitializeKeeps, BeginAddressKeeps
  <1>2. ASSUME NEW t \in Threads, Step(t) PROVE IInv'
    BY <1>2, LoadStepKeeps, InitializeStepKeeps, ClassStepKeeps, ReadStepKeeps, AddressStepKeeps
       DEF Step
  <1>3. ASSUME NEW t \in Threads, NEW c \in Classes, BeginLoad(t, c) PROVE IInv'
    BY <1>3, BeginLoadKeeps
  <1>4. ASSUME NEW t \in Threads, NEW c \in Classes, NEW n \in Names, BeginRead(t, c, n)
        PROVE  IInv'
    BY <1>4, BeginReadKeeps
  <1>5. ASSUME NEW n \in Names, NEW type \in Types, Put(n, type) PROVE IInv'
    BY <1>5, ChangeKeeps DEF Put
  <1>6. ASSUME NEW n \in Names, Remove(n) PROVE IInv'
    BY <1>6, ChangeKeeps DEF Remove
  <1>7. CASE Clear
    BY <1>7, ChangeKeeps DEF Clear
  <1>8. CASE UNCHANGED vars
    <2>1. /\ UNCHANGED <<isInitialized, external, library, static, class, stack, withdrawn,
                         touched, lastRead>>
      BY <1>8 DEF vars
    <2>2. Structure' /\ UNCHANGED <<Loader, Clinit, Call>>
      BY <2>1 DEF IInv, Structure, Loader, Clinit, Call
    <2>3. Loading'
      BY <2>1, <2>2, LoadingUndisturbed DEF IInv
    <2>4. Calling'
      BY <2>1, <2>2, CallingUndisturbed DEF IInv
    <2>. QED
      BY <2>2, <2>3, <2>4 DEF IInv
  <1>. QED
    BY <1>1, <1>2, <1>3, <1>4, <1>5, <1>6, <1>7, <1>8 DEF Next

\* The invariant holds in every behaviour.
THEOREM Invariance == Spec => []IInv
  BY Initially, Inductive, PTL DEF Spec

\* LLJVMLoader.java:33-61, NumbaRuntimeLoader.java:45-71: however many static
\* initialisers and class loaders ask for it, a native library is loaded at most once,
\* and it is loaded when its API object exists.
THEOREM LoadedOnce == Spec => []LibrariesLoadOnce
  <1>1. IInv => LibrariesLoadOnce
    BY DEF IInv, Loading
  <1>. QED
    BY <1>1, Invariance, PTL

\* NumbaRuntime.java:79, VMemory.java:187, JVMAssembler.java:35-44: a class that can be
\* used has a completely set up API, although NumbaRuntimeLoader leaves a half set up
\* one behind when python fails and ArrayUtils (ArrayUtils.java:34-64) catches what the
\* loader throws: it ends without support for addresses then.
THEOREM ApiOfReadyClasses == Spec => []ReadyClassesHaveTheirApi
  <1>1. IInv => ReadyClassesHaveTheirApi
    BY DEF IInv, Loading
  <1>. QED
    BY <1>1, Invariance, PTL

\* LLJVMRuntime.java:29-36: who reads isInitialized as true without the monitor finds
\* every entry of every provider, but those others have withdrawn.
THEOREM CompleteWhenInitialized == Spec => []InitializedMeansComplete
  <1>1. IInv => InitializedMeansComplete
    BY DEF IInv, Calling
  <1>. QED
    BY <1>1, Invariance, PTL

\* lljvm.cc:162-179: a class loaded from bitcode finds its external references, but
\* those others have changed since its load began, or the first of the loads that
\* overlap.
THEOREM ReferencesResolve == Spec => []LoadedClassesResolve
  <1>1. IInv => LoadedClassesResolve
    BY DEF IInv, Calling
  <1>. QED
    BY <1>1, Invariance, PTL

\* FieldValue.java:53-71: a read by generated code fails for the reasons the property
\* lists, and for no race between the load, the registration and the read.
THEOREM FailedReadsAreExplained == Spec => []ReadsFailOnlyAfterChanges
  <1>1. IInv => ReadsFailOnlyAfterChanges
    BY DEF IInv, Calling
  <1>. QED
    BY <1>1, Invariance, PTL

-----------------------------------------------------------------------------
(* Type correctness: who initialises a class, and how reads end.  The      *)
(* steps are those of the invariant above, seen from what it leaves out.   *)

Results == {"none", "ok", "missing", "null", "type", "NoClassDefFoundError", "not loaded"}

\* A class that is being initialised is the one a thread initialises: nobody waits for
\* a thread that has gone.
SomeoneInitializes ==
  \A s \in StaticClasses : static[s] = "initializing" =>
    \E t \in Threads : Clinit[t] # None /\ Clinit[t].arg = s

\* Generated code needs the virtual memory and no other class with a static
\* initialiser, so it never meets what the other initialisers throw.
ReadersUseMemory ==
  \A t \in Threads : Call[t].op = "read" /\ Clinit[t] # None => Clinit[t].arg = "VMemory"

ReadsTyped ==
  lastRead \in [Threads -> [class : Classes \cup {Absent}, names : SUBSET Names,
                            result : Results]]

Typing == SomeoneInitializes /\ ReadersUseMemory /\ ReadsTyped

\* The static initialiser that runs stays the one of its class, the call what it is.
LEMMA TypingMoves ==
  ASSUME Structure, Typing, NEW t \in Threads, UNCHANGED <<static, lastRead>>,
         NEW c, Clinit' = [Clinit EXCEPT ![t] = c],
         c = Clinit[t] \/ (c # None /\ Clinit[t] # None /\ c.arg = Clinit[t].arg),
         NEW a, Call' = [Call EXCEPT ![t] = a], a.op = Call[t].op \/ c = None
  PROVE  Typing'
  <1>0. Clinit \in [Threads -> ActivityType \cup {None}] /\ Call \in [Threads -> ActivityType \cup {None}]
    BY Views
  <1>1. \A u \in Threads : /\ Clinit'[u] # None <=> Clinit[u] # None
                           /\ Clinit[u] # None => Clinit'[u].arg = Clinit[u].arg
    BY <1>0
  <1>2. SomeoneInitializes'
    BY <1>1 DEF Typing, SomeoneInitializes
  <1>3. ASSUME NEW u \in Threads, Call'[u].op = "read", Clinit'[u] # None
        PROVE  Clinit'[u].arg = "VMemory"
    <2>1. Call[u].op = "read"
      BY <1>0, <1>3
    <2>. QED
      BY <2>1, <1>1, <1>3 DEF Typing, ReadersUseMemory
  <1>4. ReadersUseMemory'
    BY <1>3 DEF ReadersUseMemory
  <1>5. ReadsTyped'
    BY DEF Typing, ReadsTyped
  <1>. QED
    BY <1>2, <1>4, <1>5 DEF Typing

\* The read that ends is remembered with the class and the name it was about.
LEMMA EndedTyped ==
  ASSUME Structure, Calling, ReadsTyped, NEW t \in Threads, NEW result, Ended(t, result),
         Call[t].op = "read" => result \in Results
  PROVE  ReadsTyped'
  <1>1. CASE Call[t].op = "read" /\ Call[t].names # {}
    <2>. DEFINE read == [class |-> Call[t].arg, names |-> Call[t].names, result |-> result]
    <2>1. ReadFits(Call[t]) /\ Call[t] \in ActivityType
      BY <1>1, Views DEF Calling, CallFits
    <2>2. Call[t].arg \in Classes /\ Call[t].names \in SUBSET Names
      BY <1>1, <2>1 DEF ReadFits, ActivityType
    <2>3. read \in [class : Classes \cup {Absent}, names : SUBSET Names, result : Results]
      BY <1>1, <2>2
    <2>4. lastRead' = [lastRead EXCEPT ![t] = read]
      BY <1>1 DEF Ended
    <2>. HIDE DEF read
    <2>. QED
      BY <2>3, <2>4 DEF ReadsTyped
  <1>2. CASE ~(Call[t].op = "read" /\ Call[t].names # {})
    BY <1>2 DEF Ended, ReadsTyped
  <1>. QED
    BY <1>1, <1>2

\* An exception leaves no class in the middle of its static initialiser.
LEMMA TypingThrown ==
  ASSUME IInv, Typing, NEW t \in Threads, NEW exception, Thrown(t, exception),
         Call[t].op = "read" => exception \in Results
  PROVE  Typing'
  <1>0. /\ Clinit \in [Threads -> ActivityType \cup {None}]
        /\ Call \in [Threads -> ActivityType \cup {None}]
        /\ None.op = "none"
        /\ \A u \in Threads : Clinit[u] = None \/ Clinit[u].op = "clinit"
    BY Views DEF IInv
  <1>1. /\ \A u \in Threads : Clinit'[u] = IF u = t THEN None ELSE Clinit[u]
        /\ \A u \in Threads : Call'[u] = IF u = t THEN None ELSE Call[u]
        /\ static' = [s \in StaticClasses |-> IF Clinit[t].op = "clinit" /\ Clinit[t].arg = s
                                              THEN "erroneous" ELSE static[s]]
    BY <1>0 DEF Thrown
  <1>2. ASSUME NEW s \in StaticClasses, static'[s] = "initializing"
        PROVE  \E u \in Threads : Clinit'[u] # None /\ Clinit'[u].arg = s
    <2>1. static[s] = "initializing" /\ ~(Clinit[t].op = "clinit" /\ Clinit[t].arg = s)
      BY <1>1, <1>2
    <2>2. PICK u \in Threads : Clinit[u] # None /\ Clinit[u].arg = s
      BY <2>1 DEF Typing, SomeoneInitializes
    <2>3. u # t
      BY <1>0, <2>1, <2>2
    <2>. QED
      BY <1>1, <2>2, <2>3
  <1>3. ReadersUseMemory'
    BY <1>1 DEF Typing, ReadersUseMemory
  <1>4. ReadsTyped'
    BY EndedTyped DEF IInv, Typing, Thrown
  <1>. QED
    BY <1>2, <1>3, <1>4 DEF Typing, SomeoneInitializes

\* The call of t returns.
LEMMA TypingReturns ==
  ASSUME IInv, Typing, NEW t \in Threads, CallReturns(t)
  PROVE  Typing'
  <1>0. Clinit' = Clinit /\ static' = static
        /\ Call \in [Threads -> ActivityType \cup {None}] /\ None.op = "none"
    BY Views DEF IInv, CallReturns
  <1>1. \A u \in Threads : Call'[u].op = "read" => Call[u].op = "read"
    BY <1>0 DEF CallReturns
  <1>2. SomeoneInitializes' /\ ReadersUseMemory'
    BY <1>0, <1>1 DEF Typing, SomeoneInitializes, ReadersUseMemory
  <1>3. ReadsTyped'
    BY EndedTyped DEF IInv, Typing, CallReturns, Results
  <1>. QED
    BY <1>2, <1>3 DEF Typing

\* A call that uses a class whose static initialiser it has to run.
LEMMA TypingBegins ==
  ASSUME IInv, Typing, NEW t \in Threads, NEW s \in StaticClasses, StaticBegins(t, s),
         UNCHANGED lastRead, NEW a, Call' = [Call EXCEPT ![t] = a], a.op = Call[t].op,
         Call[t].op = "read" => s = "VMemory"
  PROVE  Typing'
  <1>0. /\ Clinit \in [Threads -> ActivityType \cup {None}]
        /\ Call \in [Threads -> ActivityType \cup {None}]
        /\ static = [k \in StaticClasses |-> static[k]]
    BY Views DEF IInv, Loading, LoadingTypes
  <1>. PICK start : Clinit' = [Clinit EXCEPT ![t] = Activity("clinit", s, start, {}, {})]
    BY DEF StaticBegins
  <1>. DEFINE c == Activity("clinit", s, start, {}, {})
  <1>1. c # None /\ c.arg = s
    BY DEF Activity, None
  <1>2. Clinit' = [Clinit EXCEPT ![t] = c] /\ static' = [static EXCEPT ![s] = "initializing"]
        /\ Clinit[t] = None
    BY DEF StaticBegins
  <1>. HIDE DEF c
  <1>3. SomeoneInitializes'
    <2>. SUFFICES ASSUME NEW k \in StaticClasses, static'[k] = "initializing"
                  PROVE  \E u \in Threads : Clinit'[u] # None /\ Clinit'[u].arg = k
      BY DEF SomeoneInitializes
    <2>1. CASE k = s
      BY <2>1, <1>0, <1>1, <1>2
    <2>2. CASE k # s
      <3>1. static[k] = "initializing"
        BY <2>2, <1>0, <1>2
      <3>2. PICK u \in Threads : Clinit[u] # None /\ Clinit[u].arg = k
        BY <3>1 DEF Typing, SomeoneInitializes
      <3>. QED
        BY <3>2, <1>0, <1>2
    <2>. QED
      BY <2>1, <2>2
  <1>4. ReadersUseMemory'
    BY <1>0, <1>1, <1>2 DEF Typing, ReadersUseMemory
  <1>5. ReadsTyped'
    BY DEF Typing, ReadsTyped
  <1>. QED
    BY <1>3, <1>4, <1>5 DEF Typing

\* The running call goes on ...
LEMMA TypingContinues ==
  ASSUME IInv, IInv', Typing, NEW t \in Threads, NEW op \in Bottoms, NEW pc, At(t, op, pc),
         NEW a, Continue(t, a), a.op = op, UNCHANGED <<static, lastRead>>
  PROVE  Typing'
  <1>1. /\ stack[t] # <<>> /\ Now(t) = Call[t] /\ Call[t].op = op /\ Now(t).op \in Bottoms
        /\ Structure /\ Structure' /\ Clinit \in [Threads -> ActivityType \cup {None}]
    BY AtCall, Views DEF IInv
  <1>2. a \in ActivityType
    <2>1. stack[t] \in Seq(ActivityType) /\ stack \in [Threads -> Seq(ActivityType)]
          /\ stack'[t] \in Seq(ActivityType)
      BY <1>1 DEF Structure
    <2>2. stack'[t] = <<a>> \o Tail(stack[t])
      BY <2>1 DEF Continue
    <2>. DEFINE S == ActivityType \cup {a}
    <2>3. stack[t] \in Seq(S) /\ a \in S
      BY <2>1
    <2>. HIDE DEF S
    <2>4. (<<a>> \o Tail(stack[t]))[1] = a /\ Len(<<a>> \o Tail(stack[t])) # 0
      BY <1>1, <2>3, ReplaceHead
    <2>5. 1 \in 1 .. Len(stack'[t]) /\ stack'[t][1] = a
      BY <2>1, <2>2, <2>4
    <2>. QED
      BY <2>1, <2>5, ElementOfSeq
  <1>3. CallGoesOn(t, a)
    BY <1>1, <1>2, CallGoesTo
  <1>4. Clinit' = [Clinit EXCEPT ![t] = Clinit[t]] /\ Call' = [Call EXCEPT ![t] = a]
    BY <1>1, <1>3 DEF CallGoesOn
  <1>. QED
    BY <1>1, <1>4, TypingMoves

\* ... returns ...
LEMMA TypingReturnOf ==
  ASSUME IInv, Typing, NEW t \in Threads, NEW op \in Bottoms, NEW pc, At(t, op, pc),
         Return(t), UNCHANGED static
  PROVE  Typing'
  <1>1. stack[t] # <<>> /\ Now(t).op \in Bottoms /\ Structure
    BY AtCall DEF IInv
  <1>2. CallReturns(t)
    BY <1>1, ReturnOfCall
  <1>. QED
    BY <1>2, TypingReturns

\* ... ends with an exception ...
LEMMA TypingThrows ==
  ASSUME IInv, Typing, NEW t \in Threads, NEW op \in Bottoms, NEW pc, At(t, op, pc),
         NEW exception, Throw(t, exception), op = "read" => exception \in Results
  PROVE  Typing'
  <1>1. stack[t] # <<>> /\ Call[t].op = op /\ Structure
    BY AtCall DEF IInv
  <1>2. Thrown(t, exception)
    BY <1>1, ThrowStep
  <1>. QED
    BY <1>1, <1>2, TypingThrown

\* ... or needs a class.
LEMMA TypingUses ==
  ASSUME IInv, Typing, NEW t \in Threads, NEW op \in Bottoms, NEW from, At(t, op, from),
         NEW s \in StaticClasses, NEW pc \in Pcs, Use(t, s, pc), op = "read" => s = "VMemory"
  PROVE  Typing'
  <1>. DEFINE a == [Call[t] EXCEPT !.pc = pc]
  <1>1. /\ stack[t] # <<>> /\ Call[t].op = op /\ Now(t).op \in Bottoms /\ a.op = op
        /\ Structure /\ Clinit \in [Threads -> ActivityType \cup {None}]
    BY AtCall, Views DEF IInv
  <1>. HIDE DEF a
  <1>2. CASE CallGoesOn(t, a)
    <2>1. /\ UNCHANGED <<static, lastRead>> /\ Call' = [Call EXCEPT ![t] = a]
          /\ Clinit' = [Clinit EXCEPT ![t] = Clinit[t]]
      BY <1>1, <1>2 DEF CallGoesOn
    <2>. QED
      BY <2>1, <1>1, TypingMoves
  <1>3. CASE StaticBegins(t, s) /\ Call' = [Call EXCEPT ![t] = a] /\ UNCHANGED lastRead
    BY <1>1, <1>3, TypingBegins
  <1>4. CASE Thrown(t, "NoClassDefFoundError")
    BY <1>4, TypingThrown DEF Results
  <1>. QED
    BY <1>1, <1>2, <1>3, <1>4, UseStep DEF a

\* A call begins on a thread that runs nothing.
LEMMA TypingCalls ==
  ASSUME IInv, IInv', Typing, NEW t \in Threads, NEW a, Begin(t, a), UNCHANGED <<static, lastRead>>
  PROVE  Typing'
  <1>1. /\ Structure /\ Structure'
        /\ stack[t] = <<>> /\ stack' = [stack EXCEPT ![t] = <<a>>]
    BY DEF IInv, Begin
  <1>2. stack'[t] = <<a>> /\ stack'[t] \in Seq(ActivityType) /\ WellFormed(stack'[t])
    BY <1>1 DEF Structure
  <1>3. a \in ActivityType /\ a.op \in Bottoms
    BY <1>2 DEF WellFormed
  <1>4. Clinit' = Clinit /\ Call' = [Call EXCEPT ![t] = a] /\ Clinit[t] = None
    BY <1>1, <1>3, BeginStep
  <1>5. Clinit' = [Clinit EXCEPT ![t] = Clinit[t]]
    BY <1>1, <1>4, Views
  <1>. QED
    BY <1>1, <1>4, <1>5, TypingMoves

\* The loaders and static initialisers, below the call that waits for them.
LEMMA TypingWaits ==
  ASSUME Typing, UNCHANGED <<Clinit, Call, static, lastRead>>
  PROVE  Typing'
  BY DEF Typing, SomeoneInitializes, ReadersUseMemory, ReadsTyped

LEMMA TypingLoads ==
  ASSUME IInv, Typing, NEW t \in Threads,
         \/ FindApi(t) \/ CheckLoaded(t) \/ LoadNativeLibrary(t) \/ CreateApi(t) \/ SetUpPython(t)
  PROVE  Typing'
  <1>0. Structure /\ Loading
    BY DEF IInv
  <1>1. ASSUME NEW pc, At(t, "load", pc), Return(t), UNCHANGED static PROVE Typing'
    <2>1. stack[t] # <<>> /\ Now(t).op = "load"
      BY <1>1 DEF At
    <2>. QED
      BY <1>0, <1>1, <2>1, ReturnToCall, TypingWaits
  <1>2. ASSUME NEW pc, At(t, "load", pc), NEW to \in Pcs, Goto(t, to), UNCHANGED <<static, lastRead>>
        PROVE  Typing'
    BY <1>0, <1>2, LoaderGoesTo, TypingWaits
  <1>3. ASSUME NEW pc, At(t, "load", pc), NEW exception, Throw(t, exception),
               Call[t].op = "read" => exception \in Results
        PROVE  Typing'
    <2>1. stack[t] # <<>>
      BY <1>3 DEF At
    <2>. QED
      BY <1>0, <1>3, <2>1, ThrowStep, TypingThrown
  <1>4. CASE FindApi(t)
    BY <1>4, <1>1, <1>2 DEF FindApi, Pcs
  <1>5. CASE CheckLoaded(t)
    BY <1>5, <1>2 DEF CheckLoaded, onlyPc, Pcs
  <1>6. CASE LoadNativeLibrary(t)
    <2>1. At(t, "load", "extract")
      BY <1>6 DEF LoadNativeLibrary
    <2>2. CASE Goto(t, "create") /\ UNCHANGED <<static, lastRead>>
      BY <1>2, <2>1, <2>2 DEF Pcs
    <2>3. CASE Throw(t, "not loaded")
      BY <1>3, <2>1, <2>3 DEF Results
    <2>4. CASE InArrayUtils(t) /\ Catch(t)
      <3>. DEFINE c == [Clinit[t] EXCEPT !.pc = "unsupported"]
      <3>1. /\ stack[t] # <<>> /\ Now(t).op = "load" /\ UNCHANGED <<static, lastRead>>
        BY <2>1, <2>4 DEF At, Catch
      <3>2. /\ Call' = Call /\ Clinit[t] # None /\ c # None /\ Clinit' = [Clinit EXCEPT ![t] = c]
        BY <1>0, <2>4, <3>1, CatchStep
      <3>3. c.arg = Clinit[t].arg
        <4>1. Clinit[t] \in ActivityType
          BY <1>0, <3>2, Views
        <4>. QED
          BY <4>1, GoesTo DEF Pcs
      <3>4. Call' = [Call EXCEPT ![t] = Call[t]]
        BY <1>0, <3>2, Views
      <3>. HIDE DEF c
      <3>. QED
        BY <1>0, <3>1, <3>2, <3>3, <3>4, TypingMoves
    <2>. QED
      BY <1>6, <2>2, <2>3, <2>4 DEF LoadNativeLibrary
  <1>7. CASE CreateApi(t)
    BY <1>7, <1>1, <1>2 DEF CreateApi, Pcs
  <1>8. CASE SetUpPython(t)
    <2>1. At(t, "load", "paths")
      BY <1>8 DEF SetUpPython
    <2>2. Loader[t] # None /\ Loader[t].pc = "paths" /\ LoaderFits(t)
      BY <1>0, <2>1, AtLoad DEF Loading
    <2>3. Clinit[t] # None /\ LibraryOf(Clinit[t].arg) = "numba"
      BY <2>2 DEF LoaderFits
    <2>4. Clinit[t].arg # "VMemory"
      BY <2>3 DEF LibraryOf
    <2>5. Call[t].op # "read"
      BY <2>3, <2>4 DEF Typing, ReadersUseMemory
    <2>. QED
      BY <1>8, <1>1, <1>3, <2>1, <2>5 DEF SetUpPython
  <1>. QED
    BY <1>4, <1>5, <1>6, <1>7, <1>8

LEMMA TypingInitializes ==
  ASSUME IInv, Typing, NEW t \in Threads, InitializeClass(t)
  PROVE  Typing'
  <1>. DEFINE c == [Clinit[t] EXCEPT !.pc = "ready"]
  <1>1. /\ Structure /\ Loading /\ At(t, "clinit", "load") /\ "ready" \in Pcs
        /\ EnterLoader(t, LibraryOf(Now(t).arg), "ready") /\ UNCHANGED <<static, lastRead>>
    BY DEF IInv, InitializeClass, EnterLoader, onlyPc, Pcs
  <1>2. /\ stack[t] # <<>> /\ Now(t).op = "clinit" /\ Now(t) = Clinit[t]
        /\ Clinit[t] # None /\ LibraryOf(Now(t).arg) \in Libraries
    BY <1>1, AtClinit
  <1>3. Call' = Call /\ Clinit' = [Clinit EXCEPT ![t] = c]
    BY <1>1, <1>2, EnterLoaderStep
  <1>4. c # None /\ c.arg = Clinit[t].arg
    <2>1. Clinit[t] \in ActivityType /\ Clinit[t].op = "clinit" /\ None.op = "none"
      BY <1>1, <1>2, Views
    <2>2. c.op = "clinit" /\ c.arg = Clinit[t].arg
      BY <2>1, <1>1, GoesTo
    <2>. QED
      BY <2>1, <2>2
  <1>. HIDE DEF c
  <1>5. Call' = [Call EXCEPT ![t] = Call[t]]
    BY <1>1, <1>3, Views
  <1>. QED
    BY <1>1, <1>2, <1>3, <1>4, <1>5, TypingMoves

\* A class that is initialised is not being initialised, and only its own was.
LEMMA TypingEndsInit ==
  ASSUME IInv, Typing, NEW t \in Threads, EndClassInit(t) \/ EndUnsupported(t)
  PROVE  Typing'
  <1>. DEFINE s == Clinit[t].arg
  <1>1. PICK pc, end \in {"ready", "unsupported"} :
          /\ At(t, "clinit", pc) /\ Return(t)
          /\ static' = [static EXCEPT ![Now(t).arg] = end]
    BY DEF EndClassInit, EndUnsupported
  <1>0. /\ Structure /\ Loading
        /\ static = [k \in StaticClasses |-> static[k]]
    BY DEF IInv, Loading, LoadingTypes
  <1>2. /\ stack[t] # <<>> /\ Now(t).op = "clinit" /\ Now(t) = Clinit[t] /\ s \in StaticClasses
    BY <1>0, <1>1, AtClinit
  <1>3. UNCHANGED <<Call, lastRead>> /\ Clinit' = [Clinit EXCEPT ![t] = None]
    BY <1>0, <1>1, <1>2, ReturnToCall
  <1>4. \A u \in Threads : Clinit'[u] = IF u = t THEN None ELSE Clinit[u]
    BY <1>0, <1>3, Views
  <1>5. \A k \in StaticClasses : static'[k] = IF k = s THEN end ELSE static[k]
    BY <1>0, <1>1, <1>2
  <1>6. ASSUME NEW k \in StaticClasses, static'[k] = "initializing"
        PROVE  \E u \in Threads : Clinit'[u] # None /\ Clinit'[u].arg = k
    <2>1. k # s /\ static[k] = "initializing"
      BY <1>5, <1>6
    <2>2. PICK u \in Threads : Clinit[u] # None /\ Clinit[u].arg = k
      BY <2>1 DEF Typing, SomeoneInitializes
    <2>. QED
      BY <2>1, <2>2, <1>4
  <1>7. ReadersUseMemory' /\ ReadsTyped'
    BY <1>3, <1>4 DEF Typing, ReadersUseMemory, ReadsTyped
  <1>. QED
    BY <1>6, <1>7 DEF Typing, SomeoneInitializes

\* The steps of the calls, one operation after the other.
LEMMA TypingGoesOn ==
  ASSUME IInv, IInv', Typing, NEW t \in Threads, NEW op \in Bottoms, NEW from, At(t, op, from),
         NEW pc \in Pcs, Goto(t, pc), UNCHANGED <<static, lastRead>>
  PROVE  Typing'
  <1>1. Continue(t, [Now(t) EXCEPT !.pc = pc])
    BY DEF Goto
  <1>2. [Now(t) EXCEPT !.pc = pc].op = op
    BY AtCall
  <1>. QED
    BY <1>1, <1>2, TypingContinues

LEMMA TypingInitialize ==
  ASSUME IInv, IInv', Typing, NEW t \in Threads, InitializeStep(t)
  PROVE  Typing'
  <1>0. "initialize" \in Bottoms /\ {"next", "register"} \subseteq Pcs /\ "initialize" # "read"
    BY DEF Bottoms, Pcs
  <1>1. ASSUME NEW pc, At(t, "initialize", pc) PROVE Now(t) \in ActivityType /\ Now(t).op = "initialize"
    BY <1>0, <1>1, AtCall
  <1>2. CASE CheckInitialized(t)
    BY <1>0, <1>2, TypingReturnOf, TypingGoesOn DEF CheckInitialized
  <1>3. CASE NextProvider(t)
    <2>1. At(t, "initialize", "next") /\ UNCHANGED <<static, lastRead>>
      BY <1>3 DEF NextProvider, onlyPc
    <2>2. PICK p \in Now(t).todo :
            Continue(t, [Now(t) EXCEPT !.arg = p, !.pc = "instantiate", !.todo = @ \ {p}])
      BY <1>3 DEF NextProvider
    <2>3. [Now(t) EXCEPT !.arg = p, !.pc = "instantiate", !.todo = @ \ {p}].op = "initialize"
      BY <2>1, <1>1 DEF ActivityType
    <2>. QED
      BY <1>0, <2>1, <2>2, <2>3, TypingContinues
  <1>4. CASE Instantiate(t)
    <2>1. "NumbaRuntime" \in StaticClasses
      BY DEF StaticClasses
    <2>. QED
      BY <1>0, <1>4, <2>1, TypingUses, TypingGoesOn, TypingThrows DEF Instantiate
  <1>5. CASE Register(t)
    <2>1. At(t, "initialize", "register") /\ UNCHANGED <<static, lastRead>>
      BY <1>5 DEF Register
    <2>2. PICK n \in Unregistered(t) : Continue(t, [Now(t) EXCEPT !.names = @ \cup {n}])
      BY <1>5 DEF Register
    <2>3. [Now(t) EXCEPT !.names = @ \cup {n}].op = "initialize"
      BY <2>1, <1>1 DEF ActivityType
    <2>. QED
      BY <1>0, <2>1, <2>2, <2>3, TypingContinues
  <1>6. CASE EndProvider(t)
    <2>1. At(t, "initialize", "register") /\ UNCHANGED static
      BY <1>6 DEF EndProvider
    <2>2. [Now(t) EXCEPT !.pc = "next", !.names = {}].op = "initialize"
      BY <2>1, <1>1 DEF ActivityType
    <2>3. CASE Continue(t, [Now(t) EXCEPT !.pc = "next", !.names = {}]) /\ UNCHANGED lastRead
      BY <1>0, <2>1, <2>2, <2>3, TypingContinues
    <2>4. CASE Return(t)
      BY <1>0, <2>1, <2>4, TypingReturnOf
    <2>. QED
      BY <1>6, <2>3, <2>4 DEF EndProvider
  <1>7. CASE ProviderFails(t)
    BY <1>0, <1>7, TypingThrows DEF ProviderFails
  <1>. QED
    BY <1>2, <1>3, <1>4, <1>5, <1>6, <1>7 DEF InitializeStep

LEMMA TypingClass ==
  ASSUME IInv, IInv', Typing, NEW t \in Threads, ClassStep(t)
  PROVE  Typing'
  <1>0. /\ "loadClass" \in Bottoms /\ "loadClass" # "read"
        /\ {"verify", "assemble", "translate", "references", "define"} \subseteq Pcs
    BY DEF Bottoms, Pcs
  <1>1. ASSUME NEW pc, At(t, "loadClass", pc)
        PROVE  Now(t) \in ActivityType /\ Now(t).op = "loadClass" /\ stack[t] # <<>>
    BY <1>0, <1>1, AtCall
  <1>2. CASE CheckRuntime(t)
    BY <1>0, <1>2, TypingThrows, TypingGoesOn DEF CheckRuntime
  \* The two calls of the loader of lljvm.
  <1>3. ASSUME NEW from, At(t, "loadClass", from), NEW pc \in Pcs, EnterLoader(t, "lljvm", pc)
        PROVE  Typing'
    <2>1. UNCHANGED <<static, lastRead>> /\ "lljvm" \in Libraries /\ Structure
      BY <1>3 DEF EnterLoader, onlyPc, Libraries, IInv
    <2>2. Clinit' = Clinit /\ Call' = [Call EXCEPT ![t] = [Call[t] EXCEPT !.pc = pc]]
      BY <1>1, <1>3, <2>1, EnterLoaderStep
    <2>3. Clinit' = [Clinit EXCEPT ![t] = Clinit[t]]
      BY <2>1, <2>2, Views
    <2>4. [Call[t] EXCEPT !.pc = pc].op = Call[t].op
      BY <1>0, <1>3, AtCall
    <2>. QED
      BY <2>1, <2>2, <2>3, <2>4, TypingMoves
  <1>4. CASE VerifyBitcode(t) \/ Translate(t)
    BY <1>0, <1>3, <1>4 DEF VerifyBitcode, Translate
  <1>5. CASE Reject(t)
    <2>1. PICK pc : At(t, "loadClass", pc)
      BY <1>5 DEF Reject
    <2>2. Throw(t, "rejected")
      BY <1>5 DEF Reject
    <2>. QED
      BY <1>0, <2>1, <2>2, TypingThrows
  <1>6. CASE CheckReference(t)
    <2>1. At(t, "loadClass", "references") /\ UNCHANGED <<static, lastRead>>
      BY <1>6 DEF CheckReference, onlyPc
    <2>2. PICK n \in Unchecked(t) :
            Continue(t, [Now(t) EXCEPT !.names = @ \cup {n}, !.thrown = @ \/ external[n] = Absent])
      BY <1>6 DEF CheckReference
    <2>3. [Now(t) EXCEPT !.names = @ \cup {n}, !.thrown = @ \/ external[n] = Absent].op
            = "loadClass"
      BY <2>1, <1>1 DEF ActivityType
    <2>. QED
      BY <1>0, <2>1, <2>2, <2>3, TypingContinues
  <1>7. CASE EndTranslation(t)
    BY <1>0, <1>7, TypingThrows, TypingGoesOn DEF EndTranslation
  <1>8. CASE Assemble(t)
    <2>1. "JVMAssembler" \in StaticClasses
      BY DEF StaticClasses
    <2>. QED
      BY <1>0, <1>8, <2>1, TypingUses DEF Assemble
  <1>9. CASE DefineClass(t)
    BY <1>0, <1>9, TypingReturnOf, TypingThrows DEF DefineClass
  <1>. QED
    BY <1>2, <1>4, <1>5, <1>6, <1>7, <1>8, <1>9 DEF ClassStep

LEMMA TypingRead ==
  ASSUME IInv, IInv', Typing, NEW t \in Threads, ReadStep(t)
  PROVE  Typing'
  <1>0. /\ "read" \in Bottoms /\ {"containsKey", "get"} \subseteq Pcs
        /\ {"missing", "null", "type"} \subseteq Results
    BY DEF Bottoms, Pcs, Results
  <1>1. CASE UseMemory(t)
    <2>1. "VMemory" \in StaticClasses
      BY DEF StaticClasses
    <2>. QED
      BY <1>0, <1>1, <2>1, TypingUses DEF UseMemory
  <1>3. CASE ContainsField(t)
    BY <1>0, <1>3, TypingGoesOn, TypingThrows DEF ContainsField
  <1>4. CASE GetField(t)
    BY <1>0, <1>4, TypingReturnOf, TypingThrows DEF GetField
  <1>. QED
    BY <1>1, <1>3, <1>4 DEF ReadStep

LEMMA TypingAddress ==
  ASSUME IInv, Typing, NEW t \in Threads, AddressStep(t)
  PROVE  Typing'
  <1>0. /\ "address" \in Bottoms /\ {"array", "addressOf"} \subseteq Pcs /\ "address" # "read"
        /\ {"VMemory", "ArrayUtils"} \subseteq StaticClasses
    BY DEF Bottoms, Pcs, StaticClasses
  <1>1. CASE AllocateHolder(t)
    BY <1>0, <1>1, TypingUses DEF AllocateHolder
  <1>2. CASE UseArrays(t)
    BY <1>0, <1>2, TypingUses DEF UseArrays
  <1>3. CASE EndAddress(t)
    BY <1>0, <1>3, TypingReturnOf, TypingThrows DEF EndAddress
  <1>. QED
    BY <1>1, <1>2, <1>3 DEF AddressStep

\* What the invariant above does not mention: the bounds, and the names withdrawn.
Counted == /\ calls \in 0 .. MaxCalls
           /\ changes \in 0 .. MaxChanges
           /\ withdrawn \subseteq Names

LEMMA CountedSteps ==
  ASSUME Counted, NEW t \in Threads
  PROVE  /\ \A a : Begin(t, a) /\ UNCHANGED <<changes, withdrawn>> => Counted'
         /\ Step(t) => Counted'
  <1>1. ASSUME NEW a, Begin(t, a), UNCHANGED <<changes, withdrawn>> PROVE Counted'
    <2>1. MaxCalls \in Nat /\ calls \in 0 .. MaxCalls /\ calls < MaxCalls
      BY <1>1, RuntimeAssumption DEF Counted, Begin
    <2>2. calls + 1 \in 0 .. MaxCalls
      BY <2>1
    <2>. QED
      BY <1>1, <2>2 DEF Counted, Begin
  <1>2. ASSUME UNCHANGED <<calls, changes>>, withdrawn' \subseteq withdrawn PROVE Counted'
    BY <1>2 DEF Counted
  <1>3. ASSUME LoadStep(t) PROVE Counted'
    BY <1>3, <1>2 DEF LoadStep, FindApi, CheckLoaded, LoadNativeLibrary, CreateApi, SetUpPython,
                      InitializeClass, EnterLoader, EndClassInit, EndUnsupported, onlyPc, data
  <1>4. ASSUME InitializeStep(t) PROVE Counted'
    BY <1>4, <1>2 DEF InitializeStep, CheckInitialized, NextProvider, Instantiate, Register,
                      ProviderFails, EndProvider, onlyPc, data
  <1>5. ASSUME ClassStep(t) PROVE Counted'
    BY <1>5, <1>2 DEF ClassStep, CheckRuntime, VerifyBitcode, Translate, Reject, CheckReference,
                      EndTranslation, Assemble, DefineClass, EnterLoader, onlyPc, data
  <1>6. ASSUME ReadStep(t) PROVE Counted'
    BY <1>6, <1>2 DEF ReadStep, UseMemory, ContainsField, GetField, data
  <1>7. ASSUME AddressStep(t) PROVE Counted'
    BY <1>7, <1>2 DEF AddressStep, AllocateHolder, UseArrays, EndAddress, data
  <1>. QED
    BY <1>1, <1>3, <1>4, <1>5, <1>6, <1>7 DEF Step

LEMMA CountedChange ==
  ASSUME Counted, NEW names \in SUBSET Names, NEW value, Change(names, value)
  PROVE  Counted'
  <1>1. changes \in 0 .. MaxChanges /\ changes < MaxChanges /\ MaxChanges \in Nat
    BY RuntimeAssumption DEF Counted, Change
  <1>2. changes + 1 \in 0 .. MaxChanges
    BY <1>1
  <1>3. withdrawn' \subseteq Names
    BY DEF Counted, Change
  <1>. QED
    BY <1>2, <1>3 DEF Counted, Change

TypingInv == IInv /\ Typing /\ Counted

LEMMA TypingInitially == Init => TypingInv
  <1>. SUFFICES ASSUME Init PROVE TypingInv
    OBVIOUS
  <1>1. IInv
    BY Initially
  <1>2. \A t \in Threads : Clinit[t] = None
    <2>1. \A t \in Threads : stack[t] = <<>>
      BY DEF Init
    <2>. QED
      BY <1>1, <2>1, Views DEF IInv
  <1>3. SomeoneInitializes /\ ReadersUseMemory
    BY <1>2 DEF Init, SomeoneInitializes, ReadersUseMemory
  <1>4. ReadsTyped
    BY DEF Init, ReadsTyped, NoRead, Results
  <1>5. Counted
    BY RuntimeAssumption DEF Init, Counted
  <1>. QED
    BY <1>1, <1>3, <1>4, <1>5 DEF TypingInv, Typing

LEMMA TypingInductive == TypingInv /\ [Next]_vars => TypingInv'
  <1>. SUFFICES ASSUME TypingInv, [Next]_vars PROVE TypingInv'
    OBVIOUS
  <1>0. IInv /\ IInv' /\ Typing /\ Counted
    BY Inductive DEF TypingInv
  <1>1. ASSUME NEW t \in Threads, NEW a, Begin(t, a),
               UNCHANGED <<static, lastRead, changes, withdrawn>>
        PROVE  Typing' /\ Counted'
    BY <1>0, <1>1, TypingCalls, CountedSteps
  <1>2. ASSUME NEW t \in Threads, BeginInitialize(t) \/ BeginAddress(t) PROVE Typing' /\ Counted'
    BY <1>1, <1>2 DEF BeginInitialize, BeginAddress, data
  <1>3. ASSUME NEW t \in Threads, NEW c \in Classes, BeginLoad(t, c) PROVE Typing' /\ Counted'
    BY <1>1, <1>3 DEF BeginLoad
  <1>4. ASSUME NEW t \in Threads, NEW c \in Classes, NEW n \in Names, BeginRead(t, c, n)
        PROVE  Typing' /\ Counted'
    BY <1>1, <1>4 DEF BeginRead, data
  <1>5. ASSUME NEW t \in Threads, Step(t) PROVE Typing' /\ Counted'
    <2>1. Counted'
      BY <1>0, <1>5, CountedSteps
    <2>2. LoadStep(t) => Typing'
      BY <1>0, TypingLoads, TypingInitializes, TypingEndsInit DEF LoadStep
    <2>. QED
      BY <1>0, <1>5, <2>1, <2>2, TypingInitialize, TypingClass, TypingRead, TypingAddress DEF Step
  <1>6. ASSUME NEW names \in SUBSET Names, NEW value, Change(names, value)
        PROVE  Typing' /\ Counted'
    <2>1. UNCHANGED <<stack, static, lastRead>>
      BY <1>6 DEF Change
    <2>2. UNCHANGED <<Clinit, Call>>
      BY <2>1 DEF Clinit, Call
    <2>. QED
      BY <1>0, <1>6, <2>1, <2>2, TypingWaits, CountedChange
  <1>7. ASSUME \/ \E n \in Names, type \in Types : Put(n, type)
               \/ \E n \in Names : Remove(n)
               \/ Clear
        PROVE  Typing' /\ Counted'
    BY <1>6, <1>7 DEF Put, Remove, Clear
  <1>8. CASE UNCHANGED vars
    <2>1. UNCHANGED <<stack, static, lastRead, calls, changes, withdrawn>>
      BY <1>8 DEF vars
    <2>2. UNCHANGED <<Clinit, Call>>
      BY <2>1 DEF Clinit, Call
    <2>3. Typing' /\ Counted'
      BY <1>0, <2>1, <2>2, TypingWaits DEF Counted
    <2>. QED
      BY <1>0, <2>3 DEF TypingInv
  <1>. QED
    BY <1>0, <1>2, <1>3, <1>4, <1>5, <1>7, <1>8 DEF Next, TypingInv

\* The state has its type in every behaviour, and a class is in the state of being
\* initialised exactly as long as a thread runs its static initialiser: no exception,
\* wherever it is thrown, leaves threads waiting for an initialisation nobody runs.
THEOREM TypeCorrect == Spec => []TypeOK
  <1>1. TypingInv => TypeOK
    <2>. SUFFICES ASSUME TypingInv PROVE TypeOK
      OBVIOUS
    <2>1. Structure /\ LoadingTypes /\ CallingTypes /\ SomeoneInitializes /\ ReadsTyped /\ Counted
      BY DEF TypingInv, IInv, Loading, Calling, Typing
    <2>2. ASSUME NEW s \in StaticClasses
          PROVE  static[s] = "initializing" <=> \E t \in Threads : Does(t, "clinit", s)
      <3>1. \A t \in Threads : Does(t, "clinit", s) <=> (Clinit[t] # None /\ Clinit[t].arg = s)
        BY <2>1, DoesIs, Views
      <3>2. \A t \in Threads : Clinit[t] # None => static[Clinit[t].arg] = "initializing"
        BY DEF TypingInv, IInv, Loading, ClinitFits
      <3>. QED
        BY <2>1, <3>1, <3>2 DEF SomeoneInitializes
    <2>. QED
      BY <2>1, <2>2 DEF TypeOK, Structure, LoadingTypes, CallingTypes, Counted, ReadsTyped, Results
  <1>. QED
    BY <1>1, TypingInitially, TypingInductive, PTL DEF Spec
===============================================================================
