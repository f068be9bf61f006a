---------------------------- MODULE VMemoryProofs ----------------------------
(***************************************************************************)
(* Proofs about VMemory, for any number of threads, any fragment capacity, *)
(* any addresses the native allocator picks and any set of requests that   *)
(* stay in the int range after the alignment is added (RequestsFitInt).    *)
(*                                                                         *)
(* The safety properties are not inductive: that a block handed out now is *)
(* free of every live block needs to know that all live blocks of the      *)
(* fragment end at or below the current address, and that this survives    *)
(* destroyStackFrame needs to know where every saved address lies with     *)
(* respect to the blocks of every frame.                                   *)
(***************************************************************************)
EXTENDS VMemory, SequenceTheorems, TLAPS

\* Mapped fragments, with their slack, do not overlap; an unmapped one is empty.
FragmentsApart ==
  \A q, r \in Regions :
    base[q] # Unmapped /\ base[r] # Unmapped /\ q # r =>
      \/ base[q] + Capacity + ALIGNMENT <= base[r]
      \/ base[r] + Capacity + ALIGNMENT <= base[q]

OffsetsBounded ==
  \A r \in Regions : /\ offset[r] <= Capacity
                     /\ base[r] = Unmapped => offset[r] = 0

\* A live block lies in the used part of its fragment.
BlocksBelowCurrent ==
  \A blk \in live :
    LET r == <<blk.thread, blk.kind>> IN
    /\ base[r] # Unmapped
    /\ blk.addr % ALIGNMENT = 0
    /\ base[r] <= blk.addr
    /\ blk.addr + blk.size <= CurrentAddr(r)
    /\ blk.addr + blk.size < base[r] + Capacity
    /\ blk.kind = "heap" => blk.depth = 0
    /\ blk.kind = "stack" => blk.depth <= Len(frames[blk.thread])

\* The saved addresses climb from the base to the current address.
FramesClimb ==
  \A t \in Threads : \A i \in 1 .. Len(frames[t]) :
    LET r == <<t, "stack">> IN
    /\ base[r] # Unmapped
    /\ base[r] <= frames[t][i]
    /\ frames[t][i] <= CurrentAddr(r)
    /\ \A j \in 1 .. i : frames[t][j] <= frames[t][i]

\* A saved address separates the blocks of the outer frames from the others.
FramesSeparate ==
  \A blk \in live : blk.kind = "stack" =>
    \A i \in 1 .. Len(frames[blk.thread]) :
      /\ blk.depth < i => blk.addr + blk.size <= frames[blk.thread][i]
      /\ i <= blk.depth => frames[blk.thread][i] <= blk.addr

\* A saved address is the end of a block of an outer frame, or the base.
FramesJustified ==
  \A t \in Threads : \A i \in 1 .. Len(frames[t]) :
    \/ frames[t][i] = base[<<t, "stack">>]
    \/ \E blk \in live : /\ blk.thread = t /\ blk.kind = "stack" /\ blk.depth < i
                         /\ blk.addr + blk.size = frames[t][i]

IInv == /\ TypeOK
        /\ FragmentsApart
        /\ OffsetsBounded
        /\ BlocksBelowCurrent
        /\ FramesClimb
        /\ FramesSeparate
        /\ BlocksDisjoint
        /\ FramesJustified
        /\ NoLostSpace

-----------------------------------------------------------------------------
(* Lemmas. *)

\* alignOffsetUp rounds up by less than the alignment (VMemory.java:81-86).
LEMMA AlignUp ==
  ASSUME NEW x \in Nat
  PROVE  /\ alignOffsetUp(x, ALIGNMENT) \in Nat
         /\ alignOffsetUp(x, ALIGNMENT) % ALIGNMENT = 0
         /\ x <= alignOffsetUp(x, ALIGNMENT)
         /\ alignOffsetUp(x, ALIGNMENT) < x + ALIGNMENT
  BY SMT DEF alignOffsetUp, ALIGNMENT

\* A request that the capacity check lets through ends, once its start has been
\* rounded up, strictly before the end of the fragment (VMemory.java:127-138).
LEMMA FitsAfterRounding ==
  ASSUME RequestsFitInt, TypeOK, OffsetsBounded,
         NEW r \in Regions, NEW b \in Nat, NEW required \in Requests,
         Fits(r, required)
  PROVE  LET addr == alignOffsetUp(b + offset[r], ALIGNMENT) IN
         /\ addr \in Nat /\ required \in Nat
         /\ addr % ALIGNMENT = 0
         /\ b + offset[r] <= addr
         /\ addr + required < b + Capacity
  <1>1. offset[r] \in Nat /\ b + offset[r] \in Nat
    BY DEF TypeOK
  <1>2. required \in Nat /\ required + ALIGNMENT <= IntMax
    BY ConstantsAssumption DEF RequestsFitInt
  <1>3. required + ALIGNMENT <= Capacity - offset[r]
    BY <1>1, <1>2, ConstantsAssumption DEF Fits, IntAdd, ALIGNMENT
  <1>. DEFINE addr == alignOffsetUp(b + offset[r], ALIGNMENT)
  <1>4. /\ addr \in Nat
        /\ addr % ALIGNMENT = 0
        /\ b + offset[r] <= addr
        /\ addr < b + offset[r] + ALIGNMENT
    BY <1>1, AlignUp
  <1>. HIDE DEF addr
  <1>5. addr + required < b + Capacity
    BY <1>1, <1>2, <1>3, <1>4, ConstantsAssumption DEF ALIGNMENT
  <1>. QED
    BY <1>2, <1>4, <1>5 DEF addr

\* Mapping a fragment on first use keeps the mapped ones where they are and
\* apart from the new one (VMemory.java:89-106, 148-164).
LEMMA MappingFragments ==
  ASSUME TypeOK, FragmentsApart, NEW r \in Regions, NEW b \in CurrentBase(r),
         base' = [base EXCEPT ![r] = b]
  PROVE  /\ b \in Nat
         /\ base' \in [Regions -> Nat \cup {Unmapped}]
         /\ base'[r] = b
         /\ \A q \in Regions : base[q] # Unmapped => base'[q] = base[q]
         /\ \A q \in Regions : q # r => base'[q] = base[q]
         /\ FragmentsApart'
  <1>1. b \in Nat
    BY ConstantsAssumption DEF CurrentBase, FreeBases, TypeOK
  <1>2. base[r] # Unmapped => b = base[r]
    BY DEF CurrentBase
  <1>3. base' \in [Regions -> Nat \cup {Unmapped}]
    BY <1>1 DEF TypeOK
  <1>4. \A q \in Regions : base'[q] = IF q = r THEN b ELSE base[q]
    BY DEF TypeOK
  <1>5. FragmentsApart'
    <2>. SUFFICES ASSUME NEW p \in Regions, NEW q \in Regions, p # q,
                         base'[p] # Unmapped, base'[q] # Unmapped
                  PROVE  \/ base'[p] + Capacity + ALIGNMENT <= base'[q]
                         \/ base'[q] + Capacity + ALIGNMENT <= base'[p]
      BY DEF FragmentsApart
    <2>1. CASE p # r /\ q # r
      BY <2>1, <1>4 DEF FragmentsApart
    <2>2. CASE base[r] # Unmapped
      BY <2>2, <1>2, <1>4 DEF FragmentsApart
    <2>3. CASE base[r] = Unmapped /\ p = r
      BY <2>3, <1>4 DEF CurrentBase, FreeBases
    <2>4. CASE base[r] = Unmapped /\ q = r
      BY <2>4, <1>4 DEF CurrentBase, FreeBases
    <2>. QED
      BY <2>1, <2>2, <2>3, <2>4
  <1>. QED
    BY <1>1, <1>2, <1>3, <1>4, <1>5

\* The stack and the heap of a thread are fragments of their own (VMemory.java:89-164).
LEMMA StackRegion ==
  ASSUME NEW t \in Threads
  PROVE  <<t, "stack">> \in Regions /\ <<t, "heap">> \in Regions
  BY DEF Regions

\* An untouched memory, nothing mapped, satisfies the invariant (VMemory.java:89-164).
THEOREM InitIInv == Init => IInv
  <1>. SUFFICES ASSUME Init PROVE IInv
    OBVIOUS
  <1>1. TypeOK
    BY ConstantsAssumption DEF Init, TypeOK
  <1>2. FragmentsApart /\ OffsetsBounded /\ NoLostSpace
    BY ConstantsAssumption DEF Init, FragmentsApart, OffsetsBounded, NoLostSpace
  <1>3. BlocksBelowCurrent /\ FramesSeparate /\ BlocksDisjoint
    BY DEF Init, BlocksBelowCurrent, FramesSeparate, BlocksDisjoint
  <1>4. FramesClimb /\ FramesJustified
    BY DEF Init, FramesClimb, FramesJustified
  <1>. QED
    BY <1>1, <1>2, <1>3, <1>4 DEF IInv

-----------------------------------------------------------------------------
(* One lemma per action: the action preserves the inductive invariant. *)

\* Steps that at most map a fragment: destroyStackFrameEmpty, AllocateFails.
LEMMA MapOnlyStep ==
  ASSUME IInv, NEW r \in Regions, NEW b \in CurrentBase(r),
         base' = [base EXCEPT ![r] = b], UNCHANGED <<offset, frames, live>>
  PROVE  IInv'
  <1>0. TypeOK /\ FragmentsApart
    BY DEF IInv
  <1>1. /\ b \in Nat
        /\ base' \in [Regions -> Nat \cup {Unmapped}]
        /\ base'[r] = b
        /\ \A q \in Regions : base[q] # Unmapped => base'[q] = base[q]
        /\ \A q \in Regions : q # r => base'[q] = base[q]
        /\ FragmentsApart'
    BY <1>0, MappingFragments
  <1>2. b # Unmapped
    BY <1>1, ConstantsAssumption
  <1>3. TypeOK'
    BY <1>0, <1>1 DEF TypeOK
  <1>4. OffsetsBounded'
    BY <1>1, <1>2 DEF IInv, OffsetsBounded
  <1>5. BlocksBelowCurrent'
    BY <1>0, <1>1 DEF IInv, BlocksBelowCurrent, CurrentAddr, TypeOK, BlockType, Regions
  <1>6. FramesClimb'
    BY <1>0, <1>1, StackRegion DEF IInv, FramesClimb, CurrentAddr
  <1>7. FramesSeparate' /\ BlocksDisjoint'
    BY DEF IInv, FramesSeparate, BlocksDisjoint
  <1>8. FramesJustified'
    <2>. SUFFICES ASSUME NEW t \in Threads, NEW i \in 1 .. Len(frames[t])
                  PROVE  \/ frames[t][i] = base'[<<t, "stack">>]
                         \/ \E blk \in live :
                              /\ blk.thread = t /\ blk.kind = "stack" /\ blk.depth < i
                              /\ blk.addr + blk.size = frames[t][i]
      BY DEF FramesJustified
    <2>1. base'[<<t, "stack">>] = base[<<t, "stack">>]
      BY <1>1, StackRegion DEF IInv, FramesClimb
    <2>. QED
      BY <2>1 DEF IInv, FramesJustified
  <1>9. NoLostSpace'
    <2>1. \A q \in Regions : offset[q] > 0 => base[q] # Unmapped
      BY DEF IInv, OffsetsBounded
    <2>. QED
      BY <1>1, <2>1 DEF IInv, NoLostSpace, CurrentAddr
  <1>. QED
    BY <1>1, <1>3, <1>4, <1>5, <1>6, <1>7, <1>8, <1>9 DEF IInv

\* createStackFrame pushes an address that lies above every block of the callers
\* (VMemory.java:113-118).
LEMMA CreateStep ==
  ASSUME IInv, NEW t \in Threads, createStackFrame(t)
  PROVE  IInv'
  <1>. DEFINE r == <<t, "stack">>
              n == Len(frames[t])
  <1>0. TypeOK /\ FragmentsApart /\ r \in Regions
    BY StackRegion DEF IInv
  <1>. PICK b \in CurrentBase(r) :
         /\ base'   = [base EXCEPT ![r] = b]
         /\ frames' = [frames EXCEPT ![t] = Append(@, b + offset[r])]
         /\ UNCHANGED <<offset, live>>
    BY DEF createStackFrame
  <1>1. /\ b \in Nat
        /\ base' \in [Regions -> Nat \cup {Unmapped}]
        /\ base'[r] = b
        /\ \A q \in Regions : base[q] # Unmapped => base'[q] = base[q]
        /\ \A q \in Regions : q # r => base'[q] = base[q]
        /\ FragmentsApart'
    BY <1>0, MappingFragments
  <1>. HIDE DEF r, n
  <1>2. b # Unmapped
    BY <1>1, ConstantsAssumption
  <1>3. offset[r] \in Nat /\ b + offset[r] \in Nat /\ n \in Nat /\ frames[t] \in Seq(Nat)
    BY <1>0, <1>1 DEF TypeOK, n
  <1>4. /\ frames' \in [Threads -> Seq(Nat)]
        /\ \A u \in Threads : u # t => frames'[u] = frames[u]
        /\ Len(frames'[t]) = n + 1
        /\ \A i \in 1 .. n : frames'[t][i] = frames[t][i]
        /\ frames'[t][n + 1] = b + offset[r]
    BY <1>0, <1>3 DEF TypeOK, n
  <1>5. TypeOK'
    BY <1>0, <1>1, <1>4 DEF TypeOK
  <1>6. OffsetsBounded'
    BY <1>1, <1>2 DEF IInv, OffsetsBounded
  <1>7. BlocksBelowCurrent'
    <2>. SUFFICES ASSUME NEW blk \in live
                  PROVE  LET q == <<blk.thread, blk.kind>> IN
                         /\ base'[q] # Unmapped
                         /\ blk.addr % ALIGNMENT = 0
                         /\ base'[q] <= blk.addr
                         /\ blk.addr + blk.size <= base'[q] + offset[q]
                         /\ blk.addr + blk.size < base'[q] + Capacity
                         /\ blk.kind = "heap" => blk.depth = 0
                         /\ blk.kind = "stack" => blk.depth <= Len(frames'[blk.thread])
      BY DEF BlocksBelowCurrent, CurrentAddr
    <2>1. <<blk.thread, blk.kind>> \in Regions /\ blk.thread \in Threads /\ blk.depth \in Nat
      BY <1>0 DEF TypeOK, BlockType, Regions
    <2>2. base'[<<blk.thread, blk.kind>>] = base[<<blk.thread, blk.kind>>]
      BY <1>1, <2>1 DEF IInv, BlocksBelowCurrent
    <2>3. Len(frames[blk.thread]) <= Len(frames'[blk.thread])
          /\ Len(frames[blk.thread]) \in Nat /\ Len(frames'[blk.thread]) \in Nat
      BY <1>0, <1>3, <1>4, <2>1 DEF TypeOK, n
    <2>. QED
      BY <2>1, <2>2, <2>3 DEF IInv, BlocksBelowCurrent, CurrentAddr
  <1>8. CurrentAddr(r)' = b + offset[r] /\ \A q \in Regions : q # r => CurrentAddr(q)' = CurrentAddr(q)
    BY <1>0, <1>1 DEF CurrentAddr
  <1>9. FramesClimb'
    <2>. SUFFICES ASSUME NEW u \in Threads, NEW i \in 1 .. Len(frames'[u])
                  PROVE  LET q == <<u, "stack">> IN
                         /\ base'[q] # Unmapped
                         /\ base'[q] <= frames'[u][i]
                         /\ frames'[u][i] <= CurrentAddr(q)'
                         /\ \A j \in 1 .. i : frames'[u][j] <= frames'[u][i]
      BY DEF FramesClimb
    <2>1. CASE u # t
      <3>1. <<u, "stack">> \in Regions /\ <<u, "stack">> # r
        BY <2>1, StackRegion DEF r
      <3>2. frames'[u] = frames[u] /\ base'[<<u, "stack">>] = base[<<u, "stack">>]
            /\ CurrentAddr(<<u, "stack">>)' = CurrentAddr(<<u, "stack">>)
        BY <2>1, <3>1, <1>1, <1>4, <1>8
      <3>. QED
        BY <3>2 DEF IInv, FramesClimb
    <2>2. CASE u = t
      <3>1. \A j \in 1 .. n : /\ base[r] # Unmapped
                              /\ base[r] <= frames[t][j]
                              /\ frames[t][j] <= base[r] + offset[r]
                              /\ \A k \in 1 .. j : frames[t][k] <= frames[t][j]
        BY DEF IInv, FramesClimb, CurrentAddr, n, r
      <3>2. \A j \in 1 .. n : /\ b = base[r]
        BY <3>1, <1>0, <1>1
      <3>3. CASE i \in 1 .. n
        <4>1. frames'[t][i] = frames[t][i] /\ \A j \in 1 .. i : frames'[t][j] = frames[t][j]
          BY <3>3, <1>3, <1>4
        <4>. QED
          BY <2>2, <3>1, <3>2, <3>3, <4>1, <1>1, <1>2, <1>8 DEF r
      <3>4. CASE i = n + 1
        <4>1. ASSUME NEW j \in 1 .. i PROVE frames'[t][j] <= frames'[t][i]
          <5>1. CASE j = n + 1
            BY <5>1, <3>4, <1>3, <1>4
          <5>2. CASE j \in 1 .. n
            BY <5>2, <3>1, <3>2, <3>4, <1>3, <1>4
          <5>3. j = n + 1 \/ j \in 1 .. n
            BY <3>4, <1>3
          <5>. QED
            BY <5>1, <5>2, <5>3
        <4>2. base'[r] # Unmapped /\ base'[r] <= frames'[t][i] /\ frames'[t][i] <= CurrentAddr(r)'
          BY <3>4, <1>1, <1>2, <1>3, <1>4, <1>8
        <4>. QED
          BY <2>2, <4>1, <4>2 DEF r
      <3>. QED
        BY <2>2, <3>3, <3>4, <1>3, <1>4
    <2>. QED
      BY <2>1, <2>2
  <1>10. FramesSeparate'
    <2>. SUFFICES ASSUME NEW blk \in live, blk.kind = "stack",
                         NEW i \in 1 .. Len(frames'[blk.thread])
                  PROVE  /\ blk.depth < i => blk.addr + blk.size <= frames'[blk.thread][i]
                         /\ i <= blk.depth => frames'[blk.thread][i] <= blk.addr
      BY DEF FramesSeparate
    <2>1. blk.thread \in Threads
      BY <1>0 DEF TypeOK, BlockType
    <2>2. CASE blk.thread # t \/ i \in 1 .. n
      <3>1. i \in 1 .. Len(frames[blk.thread]) /\ frames'[blk.thread][i] = frames[blk.thread][i]
        BY <2>1, <2>2, <1>4 DEF n
      <3>. QED
        BY <3>1 DEF IInv, FramesSeparate
    <2>3. CASE blk.thread = t /\ i = n + 1
      <3>1. /\ base[r] # Unmapped /\ blk.addr + blk.size <= base[r] + offset[r]
            /\ blk.depth <= n /\ blk.depth \in Nat
        BY <2>3, <1>0 DEF IInv, BlocksBelowCurrent, CurrentAddr, TypeOK, BlockType, r, n
      <3>. QED
        BY <2>3, <3>1, <1>0, <1>1, <1>3, <1>4
    <2>. QED
      BY <2>1, <2>2, <2>3, <1>3, <1>4
  <1>11. BlocksDisjoint'
    BY DEF IInv, BlocksDisjoint
  <1>12. NoLostSpace'
    <2>1. \A q \in Regions : offset[q] > 0 => base[q] # Unmapped
      BY DEF IInv, OffsetsBounded
    <2>. QED
      BY <1>1, <2>1 DEF IInv, NoLostSpace, CurrentAddr
  <1>13. FramesJustified'
    <2>. SUFFICES ASSUME NEW u \in Threads, NEW i \in 1 .. Len(frames'[u])
                  PROVE  \/ frames'[u][i] = base'[<<u, "stack">>]
                         \/ \E blk \in live :
                              /\ blk.thread = u /\ blk.kind = "stack" /\ blk.depth < i
                              /\ blk.addr + blk.size = frames'[u][i]
      BY DEF FramesJustified
    <2>1. CASE u # t \/ i \in 1 .. n
      <3>1. i \in 1 .. Len(frames[u]) /\ frames'[u][i] = frames[u][i]
        BY <2>1, <1>4 DEF n
      <3>2. base'[<<u, "stack">>] = base[<<u, "stack">>]
        BY <3>1, <1>1, StackRegion DEF IInv, FramesClimb
      <3>. QED
        BY <3>1, <3>2 DEF IInv, FramesJustified
    <2>2. CASE u = t /\ i = n + 1 /\ offset[r] = 0
      BY <2>2, <1>1, <1>4 DEF r
    <2>3. CASE u = t /\ i = n + 1 /\ offset[r] > 0
      <3>1. base[r] = b
        BY <2>3, <1>0, <1>1 DEF IInv, OffsetsBounded
      <3>2. PICK blk \in live : /\ blk.thread = t /\ blk.kind = "stack"
                                /\ blk.addr + blk.size = b + offset[r]
        BY <2>3, <3>1, <1>0 DEF IInv, NoLostSpace, CurrentAddr, r
      <3>3. blk.depth <= n /\ blk.depth \in Nat
        BY <3>2, <1>0 DEF IInv, BlocksBelowCurrent, TypeOK, BlockType, n
      <3>. QED
        BY <2>3, <3>2, <3>3, <1>3, <1>4
    <2>. QED
      BY <2>1, <2>2, <2>3, <1>3, <1>4
  <1>. QED
    BY <1>1, <1>5, <1>6, <1>7, <1>9, <1>10, <1>11, <1>12, <1>13 DEF IInv

\* The rewinding of the stack to the last saved address.
LEMMA DestroyStep ==
  ASSUME IInv, NEW t \in Threads, destroyStackFrame(t)
  PROVE  IInv'
  <1>. DEFINE r == <<t, "stack">>
              n == Len(frames[t])
              Dropped(blk) == blk.thread = t /\ blk.kind = "stack" /\ blk.depth = n
  <1>0. TypeOK /\ r \in Regions
    BY StackRegion DEF IInv
  <1>1. /\ n > 0
        /\ offset' = [offset EXCEPT ![r] = frames[t][n] - base[r]]
        /\ frames' = [frames EXCEPT ![t] = SubSeq(@, 1, n - 1)]
        /\ live'   = {blk \in live : ~Dropped(blk)}
        /\ UNCHANGED base
    BY DEF destroyStackFrame
  <1>. HIDE DEF r, n, Dropped
  <1>2. n \in Nat /\ frames[t] \in Seq(Nat) /\ n \in 1 .. n /\ frames[t][n] \in Nat
    BY <1>0, <1>1 DEF TypeOK, n
  <1>3. /\ frames' \in [Threads -> Seq(Nat)]
        /\ \A u \in Threads : u # t => frames'[u] = frames[u]
        /\ Len(frames'[t]) = n - 1
        /\ \A i \in 1 .. n - 1 : frames'[t][i] = frames[t][i]
    <2>1. /\ SubSeq(frames[t], 1, n - 1) \in Seq(Nat)
          /\ Len(SubSeq(frames[t], 1, n - 1)) = n - 1
          /\ \A i \in 1 .. n - 1 : SubSeq(frames[t], 1, n - 1)[i] = frames[t][i]
      BY <1>2, SubSeqProperties DEF n
    <2>. QED
      BY <2>1, <1>0, <1>1 DEF TypeOK
  <1>4. /\ base[r] # Unmapped
        /\ base[r] <= frames[t][n]
        /\ frames[t][n] <= base[r] + offset[r]
        /\ \A j \in 1 .. n : frames[t][j] <= frames[t][n]
    BY <1>2 DEF IInv, FramesClimb, CurrentAddr, n, r
  <1>5. base[r] \in Nat /\ offset[r] \in Nat
    BY <1>0, <1>4 DEF TypeOK
  <1>6. /\ offset' \in [Regions -> Nat]
        /\ base[r] + offset'[r] = frames[t][n]
        /\ offset'[r] <= offset[r]
        /\ \A q \in Regions : q # r => offset'[q] = offset[q]
    BY <1>0, <1>1, <1>2, <1>4, <1>5 DEF TypeOK
  <1>7. live' \subseteq live /\ live \subseteq BlockType
    BY <1>0, <1>1 DEF TypeOK
  <1>8. TypeOK'
    BY <1>0, <1>1, <1>3, <1>6, <1>7 DEF TypeOK
  <1>9. FragmentsApart' /\ BlocksDisjoint'
    BY <1>1, <1>7 DEF IInv, FragmentsApart, BlocksDisjoint
  <1>10. OffsetsBounded'
    BY <1>0, <1>1, <1>4, <1>5, <1>6, ConstantsAssumption DEF IInv, OffsetsBounded
  \* What is left of the stack of t ends at or below the saved address.
  <1>11. ASSUME NEW blk \in live', blk.thread = t, blk.kind = "stack"
         PROVE  /\ blk.depth <= n - 1
                /\ blk.addr + blk.size <= frames[t][n]
    <2>1. blk.depth <= n /\ blk.depth # n /\ blk.depth \in Nat
      BY <1>1, <1>7, <1>11 DEF IInv, BlocksBelowCurrent, Dropped, BlockType, n
    <2>2. blk.depth < n
      BY <2>1, <1>2
    <2>3. blk.addr + blk.size <= frames[t][n]
      BY <2>2, <1>2, <1>7, <1>11 DEF IInv, FramesSeparate, n
    <2>. QED
      BY <2>1, <2>2, <2>3, <1>2
  <1>12. BlocksBelowCurrent'
    <2>. SUFFICES ASSUME NEW blk \in live'
                  PROVE  LET q == <<blk.thread, blk.kind>> IN
                         /\ base[q] # Unmapped
                         /\ blk.addr % ALIGNMENT = 0
                         /\ base[q] <= blk.addr
                         /\ blk.addr + blk.size <= base[q] + offset'[q]
                         /\ blk.addr + blk.size < base[q] + Capacity
                         /\ blk.kind = "heap" => blk.depth = 0
                         /\ blk.kind = "stack" => blk.depth <= Len(frames'[blk.thread])
      BY <1>1 DEF BlocksBelowCurrent, CurrentAddr
    <2>1. <<blk.thread, blk.kind>> \in Regions /\ blk.thread \in Threads
          /\ blk.kind \in {"stack", "heap"} /\ blk \in live
      BY <1>7 DEF BlockType, Regions
    <2>2. CASE blk.thread = t /\ blk.kind = "stack"
      <3>1. /\ base[r] # Unmapped /\ blk.addr % ALIGNMENT = 0 /\ base[r] <= blk.addr
            /\ blk.addr + blk.size < base[r] + Capacity
        BY <2>1, <2>2 DEF IInv, BlocksBelowCurrent, r
      <3>2. blk.addr + blk.size <= base[r] + offset'[r] /\ blk.depth <= Len(frames'[t])
        BY <2>2, <1>3, <1>6, <1>11
      <3>. QED
        BY <2>2, <3>1, <3>2 DEF r
    <2>3. CASE ~(blk.thread = t /\ blk.kind = "stack")
      <3>1. offset'[<<blk.thread, blk.kind>>] = offset[<<blk.thread, blk.kind>>]
        BY <2>1, <2>3, <1>6 DEF r
      <3>2. blk.kind = "stack" => frames'[blk.thread] = frames[blk.thread]
        BY <2>1, <2>3, <1>3
      <3>. QED
        BY <2>1, <3>1, <3>2 DEF IInv, BlocksBelowCurrent, CurrentAddr
    <2>. QED
      BY <2>2, <2>3
  <1>13. FramesClimb'
    <2>. SUFFICES ASSUME NEW u \in Threads, NEW i \in 1 .. Len(frames'[u])
                  PROVE  LET q == <<u, "stack">> IN
                         /\ base[q] # Unmapped
                         /\ base[q] <= frames'[u][i]
                         /\ frames'[u][i] <= base[q] + offset'[q]
                         /\ \A j \in 1 .. i : frames'[u][j] <= frames'[u][i]
      BY <1>1 DEF FramesClimb, CurrentAddr
    <2>1. CASE u # t
      <3>1. frames'[u] = frames[u] /\ offset'[<<u, "stack">>] = offset[<<u, "stack">>]
        BY <2>1, <1>3, <1>6, StackRegion DEF r
      <3>. QED
        BY <3>1 DEF IInv, FramesClimb, CurrentAddr
    <2>2. CASE u = t
      <3>0. i \in 1 .. n - 1
        BY <2>2, <1>3
      <3>1. i \in 1 .. n /\ i \in 1 .. n - 1
        BY <3>0, <1>2
      <3>2. \A j \in 1 .. i : frames'[t][j] = frames[t][j]
        BY <3>1, <1>2, <1>3
      <3>3. /\ base[r] <= frames[t][i]
            /\ \A j \in 1 .. i : frames[t][j] <= frames[t][i]
        BY <3>1 DEF IInv, FramesClimb, n, r
      <3>4. frames'[t][i] = frames[t][i] /\ frames[t][i] <= frames[t][n]
        BY <3>1, <1>3, <1>4
      <3>. QED
        BY <2>2, <3>2, <3>3, <3>4, <1>4, <1>6 DEF r
    <2>. QED
      BY <2>1, <2>2
  <1>14. FramesSeparate'
    <2>. SUFFICES ASSUME NEW blk \in live', blk.kind = "stack",
                         NEW i \in 1 .. Len(frames'[blk.thread])
                  PROVE  /\ blk.depth < i => blk.addr + blk.size <= frames'[blk.thread][i]
                         /\ i <= blk.depth => frames'[blk.thread][i] <= blk.addr
      BY DEF FramesSeparate
    <2>1. blk.thread \in Threads /\ blk \in live
      BY <1>7 DEF BlockType
    <2>2. i \in 1 .. Len(frames[blk.thread]) /\ frames'[blk.thread][i] = frames[blk.thread][i]
      <3>1. CASE blk.thread = t
        BY <3>1, <1>2, <1>3 DEF n
      <3>2. CASE blk.thread # t
        BY <3>2, <2>1, <1>3
      <3>. QED
        BY <3>1, <3>2
    <2>. QED
      BY <2>1, <2>2 DEF IInv, FramesSeparate
  \* The block a saved address ends at belongs to a frame that stays open.
  <1>15. FramesJustified'
    <2>. SUFFICES ASSUME NEW u \in Threads, NEW i \in 1 .. Len(frames'[u])
                  PROVE  \/ frames'[u][i] = base'[<<u, "stack">>]
                         \/ \E blk \in live' :
                              /\ blk.thread = u /\ blk.kind = "stack" /\ blk.depth < i
                              /\ blk.addr + blk.size = frames'[u][i]
      BY DEF FramesJustified
    <2>1. i \in 1 .. Len(frames[u]) /\ frames'[u][i] = frames[u][i]
      <3>1. CASE u = t
        <4>1. i \in 1 .. n - 1
          BY <3>1, <1>3
        <4>2. i \in 1 .. n /\ frames'[t][i] = frames[t][i]
          BY <4>1, <1>2, <1>3
        <4>. QED
          BY <3>1, <4>2 DEF n
      <3>2. CASE u # t
        BY <3>2, <1>3
      <3>. QED
        BY <3>1, <3>2
    <2>2. CASE frames[u][i] = base[<<u, "stack">>]
      BY <2>1, <2>2, <1>1
    <2>3. ASSUME NEW blk \in live, blk.thread = u, blk.kind = "stack", blk.depth < i,
                 blk.addr + blk.size = frames[u][i]
          PROVE  blk \in live'
      <3>1. u = t => i <= n - 1 /\ i \in Nat
        BY <1>2, <1>3
      <3>2. blk.depth \in Nat
        BY <1>7 DEF BlockType
      <3>. QED
        BY <2>3, <3>1, <3>2, <1>1, <1>2 DEF Dropped
    <2>. QED
      BY <2>1, <2>2, <2>3 DEF IInv, FramesJustified
  <1>16. NoLostSpace'
    <2>. SUFFICES ASSUME NEW q \in Regions, offset'[q] > 0
                  PROVE  \E blk \in live' : /\ blk.thread = q[1] /\ blk.kind = q[2]
                                            /\ blk.addr + blk.size = base[q] + offset'[q]
      BY <1>1 DEF NoLostSpace, CurrentAddr
    <2>1. CASE q = r
      <3>1. frames[t][n] # base[r]
        BY <2>1, <1>5, <1>6
      <3>2. PICK blk \in live : /\ blk.thread = t /\ blk.kind = "stack" /\ blk.depth < n
                                /\ blk.addr + blk.size = frames[t][n]
        BY <3>1, <1>2 DEF IInv, FramesJustified, n, r
      <3>3. blk.depth \in Nat
        BY <1>7 DEF BlockType
      <3>4. blk \in live'
        BY <3>2, <3>3, <1>1, <1>2 DEF Dropped
      <3>. QED
        BY <2>1, <3>2, <3>4, <1>6 DEF r
    <2>2. CASE q # r
      <3>1. offset'[q] = offset[q]
        BY <2>2, <1>6
      <3>2. PICK blk \in live : /\ blk.thread = q[1] /\ blk.kind = q[2]
                                /\ blk.addr + blk.size = base[q] + offset[q]
        BY <3>1 DEF IInv, NoLostSpace, CurrentAddr
      <3>3. ~(q[1] = t /\ q[2] = "stack")
        BY <2>2 DEF Regions, r
      <3>. QED
        BY <3>1, <3>2, <3>3, <1>1 DEF Dropped
    <2>. QED
      BY <2>1, <2>2
  <1>. QED
    BY <1>8, <1>9, <1>10, <1>12, <1>13, <1>14, <1>15, <1>16 DEF IInv

\* What allocateStack and allocateData do: hand out a block between the current
\* address and the end of the fragment at b.
HandsOut(t, kind, d, required, b, addr) ==
  LET r == <<t, kind>> IN
  /\ base' \in [Regions -> Nat \cup {Unmapped}]
  /\ base'[r] = b
  /\ \A q \in Regions : base[q] # Unmapped => base'[q] = base[q]
  /\ \A q \in Regions : q # r => base'[q] = base[q]
  /\ FragmentsApart'
  /\ required \in Nat
  /\ addr % ALIGNMENT = 0
  /\ b + offset[r] <= addr
  /\ addr + required < b + Capacity
  /\ offset' = [offset EXCEPT ![r] = addr + required - b]
  /\ live' = live \cup {[thread |-> t, kind |-> kind, addr |-> addr,
                         size |-> required, depth |-> d]}
  /\ frames' = frames

\* What Allocate does to each variable, once its fragment is chosen
\* (VMemory.java:127-138, 171-181).
LEMMA AllocateFacts ==
  ASSUME RequestsFitInt, IInv, NEW t \in Threads, NEW kind \in {"stack", "heap"},
         NEW d \in Nat, NEW required \in Requests, Allocate(t, kind, d, required)
  PROVE  \E b \in Nat, addr \in Nat : HandsOut(t, kind, d, required, b, addr)
  <1>. DEFINE r == <<t, kind>>
  <1>0. TypeOK /\ FragmentsApart /\ OffsetsBounded /\ r \in Regions
    BY DEF IInv, Regions
  <1>. PICK b \in CurrentBase(r) :
         LET addr == alignOffsetUp(b + offset[r], ALIGNMENT) IN
         /\ Fits(r, required)
         /\ base'   = [base EXCEPT ![r] = b]
         /\ offset' = [offset EXCEPT ![r] = addr + required - b]
         /\ live'   = live \cup {[thread |-> t, kind |-> kind, addr |-> addr,
                                  size |-> required, depth |-> d]}
         /\ UNCHANGED frames
    BY DEF Allocate
  <1>1. /\ b \in Nat
        /\ base' \in [Regions -> Nat \cup {Unmapped}]
        /\ base'[r] = b
        /\ \A q \in Regions : base[q] # Unmapped => base'[q] = base[q]
        /\ \A q \in Regions : q # r => base'[q] = base[q]
        /\ FragmentsApart'
    BY <1>0, MappingFragments
  <1>. DEFINE addr == alignOffsetUp(b + offset[r], ALIGNMENT)
  <1>2. /\ addr \in Nat /\ required \in Nat
        /\ addr % ALIGNMENT = 0
        /\ b + offset[r] <= addr
        /\ addr + required < b + Capacity
    BY <1>0, <1>1, FitsAfterRounding
  <1>. HIDE DEF addr
  <1>3. /\ offset' = [offset EXCEPT ![r] = addr + required - b]
        /\ live'   = live \cup {[thread |-> t, kind |-> kind, addr |-> addr,
                                 size |-> required, depth |-> d]}
        /\ frames' = frames
    BY DEF addr
  <1>4. HandsOut(t, kind, d, required, b, addr)
    BY <1>1, <1>2, <1>3 DEF HandsOut, r
  <1>. QED
    BY <1>1, <1>2, <1>4

\* Every block of every thread lies apart from a block handed out in the
\* unused part of fragment r.
LEMMA FreshBlockApart ==
  ASSUME IInv, NEW r \in Regions, NEW b \in Nat, NEW addr \in Nat, NEW size \in Nat,
         base' \in [Regions -> Nat \cup {Unmapped}], base'[r] = b,
         \A q \in Regions : base[q] # Unmapped => base'[q] = base[q],
         FragmentsApart', b + offset[r] <= addr, addr + size < b + Capacity,
         NEW blk \in live
  PROVE  blk.addr + blk.size <= addr \/ addr + size <= blk.addr
  <1>. DEFINE q == <<blk.thread, blk.kind>>
  <1>1. q \in Regions /\ blk.addr \in Nat /\ blk.size \in Nat
    BY DEF IInv, TypeOK, BlockType, Regions
  <1>2. /\ base[q] # Unmapped /\ base[q] <= blk.addr
        /\ blk.addr + blk.size <= base[q] + offset[q]
        /\ blk.addr + blk.size < base[q] + Capacity
    BY DEF IInv, BlocksBelowCurrent, CurrentAddr
  <1>. HIDE DEF q
  <1>3. base'[q] = base[q] /\ base[q] \in Nat /\ base[q] # Unmapped
    BY <1>1, <1>2 DEF IInv, TypeOK
  <1>4. offset[q] \in Nat /\ offset[r] \in Nat
    BY <1>1 DEF IInv, TypeOK
  <1>5. CASE q = r
    BY <1>1, <1>2, <1>3, <1>4, <1>5
  <1>6. CASE q # r
    <2>1. b # Unmapped
      BY ConstantsAssumption
    <2>2. \/ base[q] + Capacity + ALIGNMENT <= b
          \/ b + Capacity + ALIGNMENT <= base[q]
      BY <2>1, <1>1, <1>3, <1>6 DEF FragmentsApart
    <2>. QED
      BY <2>2, <1>1, <1>2, <1>3, <1>4, ConstantsAssumption DEF ALIGNMENT
  <1>. QED
    BY <1>5, <1>6

\* An allocation on either fragment keeps the invariant (VMemory.java:127-138, 171-181).
LEMMA AllocateStep ==
  ASSUME RequestsFitInt, IInv, NEW t \in Threads, NEW kind \in {"stack", "heap"},
         NEW required \in Requests, NEW d \in Nat,
         d = IF kind = "stack" THEN Len(frames[t]) ELSE 0,
         Allocate(t, kind, d, required)
  PROVE  IInv'
  <1>. DEFINE r == <<t, kind>>
  <1>. PICK b \in Nat, addr \in Nat : HandsOut(t, kind, d, required, b, addr)
    BY AllocateFacts
  <1>a. /\ base' \in [Regions -> Nat \cup {Unmapped}]
        /\ base'[r] = b
        /\ \A q \in Regions : base[q] # Unmapped => base'[q] = base[q]
        /\ \A q \in Regions : q # r => base'[q] = base[q]
        /\ FragmentsApart'
        /\ required \in Nat
        /\ addr % ALIGNMENT = 0
        /\ b + offset[r] <= addr
        /\ addr + required < b + Capacity
        /\ offset' = [offset EXCEPT ![r] = addr + required - b]
        /\ frames' = frames
    BY DEF HandsOut
  <1>. DEFINE new == [thread |-> t, kind |-> kind, addr |-> addr,
                      size |-> required, depth |-> d]
  <1>0. TypeOK /\ r \in Regions /\ b # Unmapped
    BY ConstantsAssumption DEF IInv, Regions
  <1>1. /\ new \in BlockType /\ new.thread = t /\ new.kind = kind
        /\ new.addr = addr /\ new.size = required /\ new.depth = d
        /\ live' = live \cup {new}
    BY <1>a DEF BlockType, HandsOut
  <1>. HIDE DEF r, new
  <1>2. offset[r] \in Nat
    BY <1>0 DEF TypeOK
  <1>3. /\ offset' \in [Regions -> Nat]
        /\ offset'[r] = addr + required - b
        /\ offset[r] <= offset'[r]
        /\ \A q \in Regions : q # r => offset'[q] = offset[q]
    BY <1>a, <1>0, <1>2 DEF TypeOK
  <1>4. TypeOK'
    <2>1. live' \subseteq BlockType
      BY <1>0, <1>1 DEF TypeOK
    <2>2. frames' \in [Threads -> Seq(Nat)]
      BY <1>a, <1>0 DEF TypeOK
    <2>3. base' \in [Regions -> Nat \cup {Unmapped}] /\ offset' \in [Regions -> Nat]
      BY <1>a, <1>3
    <2>. QED
      BY <2>1, <2>2, <2>3 DEF TypeOK
  <1>5. OffsetsBounded'
    BY <1>a, <1>0, <1>2, <1>3, ConstantsAssumption DEF IInv, OffsetsBounded
  <1>6. \A q \in Regions : base[q] # Unmapped =>
          /\ base'[q] = base[q] /\ CurrentAddr(q) <= CurrentAddr(q)'
          /\ CurrentAddr(q) \in Nat /\ CurrentAddr(q)' \in Nat
    <2>. SUFFICES ASSUME NEW q \in Regions, base[q] # Unmapped
                  PROVE  /\ base'[q] = base[q] /\ CurrentAddr(q) <= CurrentAddr(q)'
                         /\ CurrentAddr(q) \in Nat /\ CurrentAddr(q)' \in Nat
      OBVIOUS
    <2>1. base'[q] = base[q]
      BY <1>a
    <2>2. base[q] \in Nat /\ offset[q] \in Nat
      BY <1>0 DEF TypeOK
    <2>3. offset'[q] \in Nat /\ offset[q] <= offset'[q]
      BY <1>3, <2>2
    <2>. QED
      BY <2>1, <2>2, <2>3 DEF CurrentAddr
  <1>7. CurrentAddr(r)' = addr + required
    BY <1>a, <1>3 DEF CurrentAddr
  <1>8. BlocksBelowCurrent'
    <2>. SUFFICES ASSUME NEW blk \in live'
                  PROVE  LET q == <<blk.thread, blk.kind>> IN
                         /\ base'[q] # Unmapped
                         /\ blk.addr % ALIGNMENT = 0
                         /\ base'[q] <= blk.addr
                         /\ blk.addr + blk.size <= CurrentAddr(q)'
                         /\ blk.addr + blk.size < base'[q] + Capacity
                         /\ blk.kind = "heap" => blk.depth = 0
                         /\ blk.kind = "stack" => blk.depth <= Len(frames[blk.thread])
      BY <1>a DEF BlocksBelowCurrent
    <2>1. CASE blk = new
      BY <1>a, <2>1, <1>0, <1>1, <1>2, <1>7 DEF r, TypeOK
    <2>2. CASE blk \in live
      <3>1. <<blk.thread, blk.kind>> \in Regions /\ blk.addr \in Nat /\ blk.size \in Nat
        BY <2>2, <1>0 DEF TypeOK, BlockType, Regions
      <3>. QED
        BY <2>2, <3>1, <1>6 DEF IInv, BlocksBelowCurrent
    <2>. QED
      BY <2>1, <2>2, <1>1
  <1>9. FramesClimb'
    <2>. SUFFICES ASSUME NEW u \in Threads, NEW i \in 1 .. Len(frames[u])
                  PROVE  LET q == <<u, "stack">> IN
                         /\ base'[q] # Unmapped
                         /\ base'[q] <= frames[u][i]
                         /\ frames[u][i] <= CurrentAddr(q)'
                         /\ \A j \in 1 .. i : frames[u][j] <= frames[u][i]
      BY <1>a DEF FramesClimb
    <2>1. frames[u][i] \in Nat
      BY <1>0 DEF TypeOK
    <2>2. /\ base[<<u, "stack">>] # Unmapped
          /\ base[<<u, "stack">>] <= frames[u][i]
          /\ frames[u][i] <= CurrentAddr(<<u, "stack">>)
          /\ \A j \in 1 .. i : frames[u][j] <= frames[u][i]
      BY DEF IInv, FramesClimb
    <2>. DEFINE q == <<u, "stack">>
    <2>4. q \in Regions /\ base[q] # Unmapped
      BY <2>2, StackRegion
    <2>. HIDE DEF q
    <2>5. /\ base'[q] = base[q] /\ CurrentAddr(q) <= CurrentAddr(q)'
          /\ CurrentAddr(q) \in Nat /\ CurrentAddr(q)' \in Nat
      BY <2>4, <1>6
    <2>6. base'[q] = base[q] /\ frames[u][i] <= CurrentAddr(q)'
      BY <2>1, <2>2, <2>5 DEF q
    <2>3. /\ base'[<<u, "stack">>] = base[<<u, "stack">>]
          /\ frames[u][i] <= CurrentAddr(<<u, "stack">>)'
      BY <2>6 DEF q
    <2>. QED
      BY <2>2, <2>3, <1>0, ConstantsAssumption
  <1>10. FramesSeparate'
    <2>. SUFFICES ASSUME NEW blk \in live', blk.kind = "stack",
                         NEW i \in 1 .. Len(frames[blk.thread])
                  PROVE  /\ blk.depth < i => blk.addr + blk.size <= frames[blk.thread][i]
                         /\ i <= blk.depth => frames[blk.thread][i] <= blk.addr
      BY <1>a DEF FramesSeparate
    <2>1. CASE blk \in live
      BY <2>1 DEF IInv, FramesSeparate
    <2>2. CASE blk = new
      <3>1. kind = "stack" /\ d = Len(frames[t]) /\ i \in 1 .. Len(frames[t])
        BY <2>2, <1>1
      <3>2. base[r] # Unmapped /\ frames[t][i] <= CurrentAddr(r)
        BY <3>1 DEF IInv, FramesClimb, r
      <3>3. CurrentAddr(r) = b + offset[r] /\ frames[t][i] \in Nat
        <4>1. base[r] = b
          BY <3>2, <1>0, <1>a
        <4>2. frames[t][i] \in Nat
          BY <3>1, <1>0 DEF TypeOK
        <4>. QED
          BY <4>1, <4>2 DEF CurrentAddr
      <3>4. frames[t][i] <= addr
        BY <1>a, <3>2, <3>3, <1>2
      <3>. QED
        BY <2>2, <3>1, <3>4, <1>1
    <2>. QED
      BY <2>1, <2>2, <1>1
  <1>11. BlocksDisjoint'
    <2>1. \A blk \in live : blk.addr + blk.size <= addr \/ addr + required <= blk.addr
      BY <1>a, <1>0, FreshBlockApart DEF r
    <2>. QED
      BY <2>1, <1>1 DEF IInv, BlocksDisjoint
  <1>12. FramesJustified'
    <2>. SUFFICES ASSUME NEW u \in Threads, NEW i \in 1 .. Len(frames[u])
                  PROVE  \/ frames[u][i] = base'[<<u, "stack">>]
                         \/ \E blk \in live' :
                              /\ blk.thread = u /\ blk.kind = "stack" /\ blk.depth < i
                              /\ blk.addr + blk.size = frames[u][i]
      BY <1>a DEF FramesJustified
    <2>1. base'[<<u, "stack">>] = base[<<u, "stack">>]
      BY <1>6, StackRegion DEF IInv, FramesClimb
    <2>. QED
      BY <2>1, <1>1 DEF IInv, FramesJustified
  <1>13. NoLostSpace'
    <2>. SUFFICES ASSUME NEW q \in Regions, offset'[q] > 0
                  PROVE  \E blk \in live' : /\ blk.thread = q[1] /\ blk.kind = q[2]
                                            /\ blk.addr + blk.size = CurrentAddr(q)'
      BY DEF NoLostSpace
    <2>1. CASE q = r
      BY <2>1, <1>1, <1>7 DEF r
    <2>2. CASE q # r
      <3>1. offset[q] > 0 /\ base[q] # Unmapped
        BY <2>2, <1>3 DEF IInv, OffsetsBounded
      <3>2. CurrentAddr(q)' = CurrentAddr(q)
        BY <2>2, <3>1, <1>3, <1>6 DEF CurrentAddr
      <3>. QED
        BY <3>1, <3>2, <1>1 DEF IInv, NoLostSpace
    <2>. QED
      BY <2>1, <2>2
  <1>. QED
    BY <1>a, <1>4, <1>5, <1>8, <1>9, <1>10, <1>11, <1>12, <1>13 DEF IInv

\* Rewinding a heap to its base frees all of its blocks (VMemory.java:183-185).
LEMMA ResetStep ==
  ASSUME IInv, NEW t \in Threads, resetHeap(t)
  PROVE  IInv'
  <1>. DEFINE r == <<t, "heap">>
              Dropped(blk) == blk.thread = t /\ blk.kind = "heap"
  <1>0. TypeOK /\ FragmentsApart /\ r \in Regions
    BY StackRegion DEF IInv
  <1>. PICK b \in CurrentBase(r) :
         /\ base'   = [base EXCEPT ![r] = b]
         /\ offset' = [offset EXCEPT ![r] = 0]
         /\ live'   = {blk \in live : ~Dropped(blk)}
         /\ UNCHANGED frames
    BY DEF resetHeap
  <1>1. /\ b \in Nat
        /\ base' \in [Regions -> Nat \cup {Unmapped}]
        /\ base'[r] = b
        /\ \A q \in Regions : base[q] # Unmapped => base'[q] = base[q]
        /\ \A q \in Regions : q # r => base'[q] = base[q]
        /\ FragmentsApart'
    BY <1>0, MappingFragments
  <1>. HIDE DEF r, Dropped
  <1>2. /\ offset' \in [Regions -> Nat] /\ offset'[r] = 0
        /\ \A q \in Regions : q # r => offset'[q] = offset[q]
    BY <1>0 DEF TypeOK
  <1>3. live' \subseteq live /\ live \subseteq BlockType
    BY <1>0 DEF TypeOK
  <1>4. TypeOK'
    BY <1>0, <1>1, <1>2, <1>3 DEF TypeOK
  <1>5. OffsetsBounded'
    BY <1>1, <1>2, ConstantsAssumption DEF IInv, OffsetsBounded
  <1>6. BlocksBelowCurrent'
    <2>. SUFFICES ASSUME NEW blk \in live'
                  PROVE  /\ base'[<<blk.thread, blk.kind>>] = base[<<blk.thread, blk.kind>>]
                         /\ offset'[<<blk.thread, blk.kind>>] = offset[<<blk.thread, blk.kind>>]
      BY <1>3 DEF IInv, BlocksBelowCurrent, CurrentAddr
    <2>1. <<blk.thread, blk.kind>> \in Regions /\ <<blk.thread, blk.kind>> # r
      BY <1>3 DEF BlockType, Regions, Dropped, r
    <2>. QED
      BY <2>1, <1>1, <1>2
  <1>7. \A u \in Threads : /\ base[<<u, "stack">>] # Unmapped =>
                               base'[<<u, "stack">>] = base[<<u, "stack">>]
                          /\ offset'[<<u, "stack">>] = offset[<<u, "stack">>]
    BY <1>1, <1>2, StackRegion DEF r
  <1>8. FramesClimb'
    BY <1>7 DEF IInv, FramesClimb, CurrentAddr
  <1>9. FramesSeparate' /\ BlocksDisjoint'
    BY <1>3 DEF IInv, FramesSeparate, BlocksDisjoint
  <1>10. FramesJustified'
    <2>. SUFFICES ASSUME NEW u \in Threads, NEW i \in 1 .. Len(frames[u])
                  PROVE  \/ frames[u][i] = base'[<<u, "stack">>]
                         \/ \E blk \in live' :
                              /\ blk.thread = u /\ blk.kind = "stack" /\ blk.depth < i
                              /\ blk.addr + blk.size = frames[u][i]
      BY DEF FramesJustified
    <2>1. base'[<<u, "stack">>] = base[<<u, "stack">>]
      BY <1>7 DEF IInv, FramesClimb
    <2>2. \A blk \in live : blk.kind = "stack" => blk \in live'
      BY DEF Dropped
    <2>. QED
      BY <2>1, <2>2 DEF IInv, FramesJustified
  <1>11. NoLostSpace'
    <2>. SUFFICES ASSUME NEW q \in Regions, offset'[q] > 0
                  PROVE  \E blk \in live' : /\ blk.thread = q[1] /\ blk.kind = q[2]
                                            /\ blk.addr + blk.size = CurrentAddr(q)'
      BY DEF NoLostSpace
    <2>1. q # r
      BY <1>2
    <2>2. offset[q] > 0 /\ CurrentAddr(q)' = CurrentAddr(q)
      BY <2>1, <1>1, <1>2 DEF CurrentAddr
    <2>3. PICK blk \in live : /\ blk.thread = q[1] /\ blk.kind = q[2]
                              /\ blk.addr + blk.size = CurrentAddr(q)
      BY <2>2 DEF IInv, NoLostSpace
    <2>4. ~(q[1] = t /\ q[2] = "heap")
      BY <2>1 DEF Regions, r
    <2>. QED
      BY <2>2, <2>3, <2>4 DEF Dropped
  <1>. QED
    BY <1>1, <1>4, <1>5, <1>6, <1>8, <1>9, <1>10, <1>11 DEF IInv

-----------------------------------------------------------------------------
(* Theorems. *)

\* Every operation of VMemory.java:113-185, in any thread, keeps the invariant.
LEMMA NextIInv ==
  ASSUME RequestsFitInt, IInv, [Next]_vars
  PROVE  IInv'
  <1>1. CASE UNCHANGED vars
    BY <1>1 DEF vars, IInv, TypeOK, FragmentsApart, OffsetsBounded, BlocksBelowCurrent,
                FramesClimb, FramesSeparate, BlocksDisjoint, FramesJustified,
                NoLostSpace, CurrentAddr
  <1>2. ASSUME NEW t \in Threads, createStackFrame(t) PROVE IInv'
    BY <1>2, CreateStep
  <1>3. ASSUME NEW t \in Threads, destroyStackFrame(t) PROVE IInv'
    BY <1>3, DestroyStep
  <1>4. ASSUME NEW t \in Threads, destroyStackFrameEmpty(t) PROVE IInv'
    BY <1>4, MapOnlyStep, StackRegion DEF destroyStackFrameEmpty
  <1>5. ASSUME NEW t \in Threads, NEW required \in Requests, allocateStack(t, required)
        PROVE  IInv'
    <2>1. Len(frames[t]) \in Nat
      BY DEF IInv, TypeOK
    <2>. QED
      BY <1>5, <2>1, AllocateStep DEF allocateStack
  <1>6. ASSUME NEW t \in Threads, NEW required \in Requests, allocateData(t, required)
        PROVE  IInv'
    BY <1>6, AllocateStep DEF allocateData
  <1>7. ASSUME NEW t \in Threads, NEW required \in Requests,
               NEW kind \in {"stack", "heap"}, AllocateFails(t, kind, required)
        PROVE  IInv'
    BY <1>7, MapOnlyStep DEF AllocateFails, Regions
  <1>8. ASSUME NEW t \in Threads, resetHeap(t) PROVE IInv'
    BY <1>8, ResetStep
  <1>. QED
    BY <1>1, <1>2, <1>3, <1>4, <1>5, <1>6, <1>7, <1>8 DEF Next

\* The inductive invariant holds in every reachable state of the memory.
THEOREM Invariance ==
  ASSUME RequestsFitInt
  PROVE  Spec => []IInv
  <1>1. Init => IInv
    BY InitIInv
  <1>2. IInv /\ [Next]_vars => IInv'
    BY NextIInv
  <1>. QED
    BY <1>1, <1>2, PTL DEF Spec

\* Every block in use is 8-byte aligned and strictly inside its thread's own
\* fragment: verifyStackAddress (VMemory.java:140-144) accepts all of them.
THEOREM BlocksStayInFragment ==
  ASSUME RequestsFitInt
  PROVE  Spec => []BlocksInFragment
  <1>1. IInv => BlocksInFragment
    BY DEF IInv, BlocksBelowCurrent, BlocksInFragment, InFragment
  <1>. QED
    BY <1>1, Invariance, PTL

\* No two live blocks share a byte, within a thread or across threads: the
\* isolation VMemory.java:34-37 asks for.
THEOREM BlocksStayDisjoint ==
  ASSUME RequestsFitInt
  PROVE  Spec => []BlocksDisjoint
  <1>1. IInv => BlocksDisjoint
    BY DEF IInv
  <1>. QED
    BY <1>1, Invariance, PTL

\* Destroying frames gives back every byte: what a fragment has in use ends
\* with a live block (VMemory.java:113-138).
THEOREM SpaceIsNeverLost ==
  ASSUME RequestsFitInt
  PROVE  Spec => []NoLostSpace
  <1>1. IInv => NoLostSpace
    BY DEF IInv
  <1>. QED
    BY <1>1, Invariance, PTL

\* The assertion of setCurrentAddr (VMemory.java:75-78) never fails while the
\* requests stay in the int range; the run vmemory_overflow shows it fail when
\* they do not.
THEOREM CurrentAddrStaysInFragment ==
  ASSUME RequestsFitInt
  PROVE  Spec => []CurrentAddrInFragment
  <1>1. IInv => CurrentAddrInFragment
    BY ConstantsAssumption DEF IInv, OffsetsBounded, TypeOK, CurrentAddrInFragment
  <1>. QED
    BY <1>1, Invariance, PTL

\* Addresses, offsets and saved addresses stay natural numbers: no step takes
\* an offset below the start of its fragment (VMemory.java:69-154).
THEOREM TypeCorrect ==
  ASSUME RequestsFitInt
  PROVE  Spec => []TypeOK
  <1>1. IInv => TypeOK
    BY DEF IInv
  <1>. QED
    BY <1>1, Invariance, PTL

-----------------------------------------------------------------------------
(* VMemory implements FrameAllocator. *)

MappedAtBases == \A r \in Regions : base[r] = Unmapped \/ base[r] \in Bases

\* A mapped fragment starts where the native allocator put it (VMemory.java:89-106).
LEMMA MappedAtBasesInvariant == Spec => []MappedAtBases
  <1>1. Init => MappedAtBases
    BY DEF Init, MappedAtBases
  <1>2. ASSUME MappedAtBases, NEW r \in Regions, NEW b \in CurrentBase(r),
               base' = [base EXCEPT ![r] = b]
        PROVE  MappedAtBases'
    BY <1>2 DEF MappedAtBases, CurrentBase, FreeBases
  <1>3. MappedAtBases /\ [Next]_vars => MappedAtBases'
    <2>. SUFFICES ASSUME MappedAtBases, [Next]_vars PROVE MappedAtBases'
      OBVIOUS
    <2>1. CASE base' = base
      BY <2>1 DEF MappedAtBases
    <2>2. ASSUME NEW t \in Threads, destroyStackFrame(t) PROVE base' = base
      BY <2>2 DEF destroyStackFrame
    <2>3. ASSUME NEW t \in Threads,
                 createStackFrame(t) \/ destroyStackFrameEmpty(t) \/ resetHeap(t)
          PROVE  MappedAtBases'
      BY <2>3, <1>2, StackRegion DEF createStackFrame, destroyStackFrameEmpty, resetHeap, Regions
    <2>4. ASSUME NEW t \in Threads, NEW kind \in {"stack", "heap"}, NEW depth, NEW required,
                 Allocate(t, kind, depth, required) \/ AllocateFails(t, kind, required)
          PROVE  MappedAtBases'
      BY <2>4, <1>2 DEF Allocate, AllocateFails, Regions
    <2>5. CASE Next
      BY <2>5, <2>1, <2>2, <2>3, <2>4 DEF Next, allocateStack, allocateData
    <2>. QED
      BY <2>1, <2>5 DEF vars
  <1>. QED
    BY <1>1, <1>3, PTL DEF Spec

\* The abstract depth of the threads.
Depths == [t \in Threads |-> Len(frames[t])]

\* A bump allocation is an allocation of a block that is apart from all live ones.
LEMMA AllocateImplements ==
  ASSUME RequestsFitInt, IInv, MappedAtBases,
         NEW t \in Threads, NEW kind \in {"stack", "heap"}, NEW required \in Requests,
         NEW d \in Nat, d = IF kind = "stack" THEN Len(frames[t]) ELSE 0,
         Allocate(t, kind, d, required)
  PROVE  \E addr \in Addresses : A!Allocate(t, kind, addr, required)
  <1>. DEFINE r == <<t, kind>>
  <1>1. r \in Regions
    BY DEF Regions
  <1>. PICK b \in Nat, addr \in Nat : HandsOut(t, kind, d, required, b, addr)
    BY AllocateFacts
  <1>2. PICK c \in CurrentBase(r) : base' = [base EXCEPT ![r] = c]
    BY DEF Allocate
  <1>3. c \in Bases /\ b = c
    BY <1>1, <1>2 DEF CurrentBase, FreeBases, MappedAtBases, HandsOut, IInv, TypeOK
  <1>4. offset[r] \in Nat /\ required \in Nat
    BY <1>1 DEF IInv, TypeOK, HandsOut
  <1>5. b <= addr /\ addr <= b + Capacity
    BY <1>4, ConstantsAssumption DEF HandsOut
  <1>6. addr \in Addresses
    BY <1>3, <1>5, ConstantsAssumption
  <1>7. \A blk \in live : blk.addr + blk.size <= addr \/ addr + required <= blk.addr
    BY <1>1, <1>4, FreshBlockApart DEF HandsOut
  <1>8. A!Allocate(t, kind, addr, required)
    <2>1. live' = live \cup {[thread |-> t, kind |-> kind, addr |-> addr, size |-> required,
                              depth |-> IF kind = "stack" THEN Depths[t] ELSE 0]}
      BY DEF HandsOut, Depths
    <2>2. Depths' = Depths
      BY DEF HandsOut, Depths
    <2>. QED
      BY <1>7, <2>1, <2>2 DEF A!Allocate, A!Apart, Depths
  <1>. QED
    BY <1>6, <1>8

\* Whatever the bump allocators do is a step of the abstract allocator: a fresh
\* block is apart from all live blocks, closing a frame frees the blocks of that
\* frame only, and refusing a request changes nothing (VMemory.java:113-185).
THEOREM VMemoryImplementsFrameAllocator ==
  ASSUME RequestsFitInt
  PROVE  Spec => Refinement
  <1>1. Init => A!Init
    BY DEF Init, A!Init
  <1>2. IInv /\ MappedAtBases /\ [Next]_vars => [A!Next]_A!vars
    <2>. SUFFICES ASSUME IInv, MappedAtBases, [Next]_vars PROVE [A!Next]_A!vars
      OBVIOUS
    <2>0. frames \in [Threads -> Seq(Nat)]
      BY DEF IInv, TypeOK
    <2>1. CASE UNCHANGED <<frames, live>>
      BY <2>1 DEF A!vars
    <2>2. ASSUME NEW t \in Threads, createStackFrame(t) PROVE A!Next
      <3>1. PICK a \in Nat : frames' = [frames EXCEPT ![t] = Append(@, a)] /\ live' = live
        <4>1. <<t, "stack">> \in Regions /\ TypeOK /\ FragmentsApart
          BY StackRegion DEF IInv
        <4>2. PICK b \in CurrentBase(<<t, "stack">>) :
                /\ base' = [base EXCEPT ![<<t, "stack">>] = b]
                /\ frames' = [frames EXCEPT ![t] = Append(@, b + offset[<<t, "stack">>])]
                /\ live' = live
          BY <2>2 DEF createStackFrame
        <4>3. b \in Nat
          BY <4>1, <4>2, MappingFragments
        <4>4. b + offset[<<t, "stack">>] \in Nat
          BY <4>1, <4>3 DEF TypeOK
        <4>. QED
          BY <4>2, <4>4
      <3>2. Len(Append(frames[t], a)) = Len(frames[t]) + 1
        BY <2>0
      <3>3. Depths' = [Depths EXCEPT ![t] = @ + 1]
        BY <2>0, <3>1, <3>2 DEF Depths
      <3>. QED
        BY <3>1, <3>3 DEF A!Next, A!PushFrame, Depths
    <2>3. ASSUME NEW t \in Threads, destroyStackFrame(t) PROVE A!Next
      <3>. DEFINE n == Len(frames[t])
      <3>1. /\ n > 0
            /\ frames' = [frames EXCEPT ![t] = SubSeq(@, 1, n - 1)]
            /\ live' = {blk \in live :
                           ~(blk.thread = t /\ blk.kind = "stack" /\ blk.depth = n)}
        BY <2>3 DEF destroyStackFrame
      <3>2. n \in Nat /\ frames[t] \in Seq(Nat)
        BY <2>0
      <3>3. Len(SubSeq(frames[t], 1, n - 1)) = n - 1
        BY <3>1, <3>2, SubSeqProperties
      <3>4. Depths' = [Depths EXCEPT ![t] = @ - 1] /\ Depths[t] = n
        BY <2>0, <3>1, <3>3 DEF Depths
      <3>5. A!PopFrame(t)
        BY <3>1, <3>4 DEF A!PopFrame, Depths
      <3>. QED
        BY <3>5 DEF A!Next
    <2>4. ASSUME NEW t \in Threads, NEW required \in Requests, allocateStack(t, required)
          PROVE  A!Next
      <3>1. Len(frames[t]) \in Nat
        BY <2>0
      <3>. QED
        BY <2>4, <3>1, AllocateImplements DEF allocateStack, A!Next
    <2>5. ASSUME NEW t \in Threads, NEW required \in Requests, allocateData(t, required)
          PROVE  A!Next
      BY <2>5, AllocateImplements DEF allocateData, A!Next
    <2>6. ASSUME NEW t \in Threads, resetHeap(t) PROVE A!Next
      <3>1. /\ live' = {blk \in live : ~(blk.thread = t /\ blk.kind = "heap")}
            /\ frames' = frames
        BY <2>6 DEF resetHeap
      <3>. QED
        BY <3>1 DEF A!Next, A!ResetHeap
    <2>. QED
      BY <2>1, <2>2, <2>3, <2>4, <2>5, <2>6
         DEF Next, vars, destroyStackFrameEmpty, AllocateFails
  <1>. QED
    BY <1>1, <1>2, Invariance, MappedAtBasesInvariant, PTL DEF Spec, Refinement, A!Spec
=============================================================================
