------------------------- MODULE GeneratedCodeProofs -------------------------
(***************************************************************************)
(* Proofs about GeneratedCode, for any number of threads, any depth of     *)
(* calls, any fragments and any requests, those that overflow included.    *)
(*                                                                         *)
(* None of the three properties is inductive.  A return pops the frame of  *)
(* the activation that returns only because every activation has exactly   *)
(* one frame above those that exceptions left behind, and it frees none of *)
(* the blocks of its callers only because the depth at which a block was   *)
(* allocated tells whose it is.                                            *)
(*                                                                         *)
(* The second part proves the properties of GeneratedClasses, for any      *)
(* classes, globals, threads and heaps, over the same SharedMemory.        *)
(***************************************************************************)
EXTENDS GeneratedCode, GeneratedClasses, SequenceTheorems, TLAPS

\* Blocks of any address and size: the requests may wrap around.
Blocks == [thread : Threads, kind : {"stack", "heap"}, addr : Int, size : Int,
           depth : Nat]

Activations == [pc : {"body", "calling"}, entry : Int, own : SUBSET Blocks]

Types == /\ base   \in [Mem!Regions -> Nat \cup {Unmapped}]
         /\ offset \in [Mem!Regions -> Int]
         /\ frames \in [Threads -> Seq(Int)]
         /\ live   \subseteq Blocks
         /\ calls  \in [Threads -> Seq(Activations)]
         /\ thrown \in [Threads -> BOOLEAN]

\* The frames exceptions have left open on a thread.
Left == [t \in Threads |-> Len(frames[t]) - Len(calls[t])]

\* The blocks of an activation were allocated with its frame on top.
BlocksKnowTheirFrame ==
  \A t \in Threads : \A i \in DOMAIN calls[t] : \A blk \in calls[t][i].own :
    blk.thread = t /\ blk.kind = "stack" /\ blk.depth = Left[t] + i

FramesAreMapped ==
  \A t \in Threads : frames[t] # <<>> => base[StackOf(t)] \in Nat

\* Without exceptions there are no other frames than those of the activations.
NothingLeftBehind ==
  \A t \in Threads : ~thrown[t] =>
    /\ Left[t] = 0
    /\ frames[t] # <<>> => frames[t][1] = base[StackOf(t)]
    /\ frames[t] = <<>> => offset[StackOf(t)] = 0

IInv == /\ Types
        /\ FramesMatchCalls
        /\ BlocksKnowTheirFrame
        /\ LocalsStayLive
        /\ FramesAreMapped
        /\ NothingLeftBehind

-----------------------------------------------------------------------------
(* Lemmas. *)

\* Touching the stack of a thread maps it once, and never moves it
\* (VMemory.java:89-106).
LEMMA Mapping ==
  ASSUME Types, NEW r \in Mem!Regions, NEW b \in Mem!CurrentBase(r),
         base' = [base EXCEPT ![r] = b]
  PROVE  /\ b \in Nat
         /\ base' \in [Mem!Regions -> Nat \cup {Unmapped}]
         /\ base'[r] = b
         /\ \A q \in Mem!Regions : base[q] \in Nat => base'[q] = base[q]
         /\ \A q \in Mem!Regions : q # r => base'[q] = base[q]
  <1>1. b \in Nat
    BY MemoryAssumption DEF Mem!ConstantsAssumption, Mem!CurrentBase, Mem!FreeBases, Types
  <1>2. base[r] # Unmapped => b = base[r]
    BY DEF Mem!CurrentBase
  <1>3. Unmapped \notin Nat
    BY MemoryAssumption DEF Mem!ConstantsAssumption
  <1>. QED
    BY <1>1, <1>2, <1>3 DEF Types

\* The position of an activation's frame among n saved addresses.
LEMMA FramePosition ==
  ASSUME NEW m \in Nat, NEW n \in Nat, NEW left \in Nat, left = n - m
  PROVE  /\ \A i \in 1 .. m : left + i \in 1 .. n
         /\ left + m = n
         /\ left + (m + 1) = n + 1
  OBVIOUS

\* The frames of the callers lie below the frame that is closed.
LEMMA CallerPosition ==
  ASSUME NEW m \in Nat \ {0}, NEW n \in Nat \ {0}, NEW left \in Nat, left = n - m
  PROVE  \A i \in 1 .. m - 1 : i \in 1 .. m /\ left + i \in 1 .. n - 1
  OBVIOUS

LEMMA LeftType ==
  ASSUME Types, FramesMatchCalls
  PROVE  Left \in [Threads -> Nat]
  <1>. SUFFICES ASSUME NEW t \in Threads
                PROVE  Len(frames[t]) - Len(calls[t]) \in Nat
    BY DEF Left
  <1>1. Len(frames[t]) \in Nat /\ Len(calls[t]) \in Nat
    BY LenProperties DEF Types
  <1>. QED
    BY <1>1 DEF FramesMatchCalls

LEMMA FramesAt ==
  ASSUME FramesMatchCalls
  PROVE  \A t \in Threads : \A i \in DOMAIN calls[t] :
           frames[t][Left[t] + i] = calls[t][i].entry
  BY DEF FramesMatchCalls, Left

\* A step that leaves no further frame behind and adds none keeps FramesMatchCalls
\* if the running activations still find their frames (VMemory.java:113-125).
LEMMA FramesMatchCallsStep ==
  ASSUME Types', Left' = Left, Left \in [Threads -> Nat],
         \A t \in Threads : \A i \in DOMAIN calls'[t] :
            frames'[t][Left[t] + i] = calls'[t][i].entry
  PROVE  FramesMatchCalls'
  <1>. SUFFICES ASSUME NEW t \in Threads
                PROVE  LET left == Len(frames'[t]) - Len(calls'[t]) IN
                       /\ left >= 0
                       /\ \A i \in DOMAIN calls'[t] :
                            frames'[t][left + i] = calls'[t][i].entry
    BY DEF FramesMatchCalls
  <1>1. Len(frames'[t]) - Len(calls'[t]) = Left[t]
    BY DEF Left
  <1>. DEFINE left == Len(frames'[t]) - Len(calls'[t])
  <1>2. left = Left[t]
    BY <1>1
  <1>. HIDE DEF left
  <1>3. left >= 0 /\ \A i \in DOMAIN calls'[t] : frames'[t][left + i] = calls'[t][i].entry
    BY <1>2
  <1>. QED
    BY <1>3 DEF left

\* Init has no thread inside generated code.
LEMMA InitIInv == Init => IInv
  <1>. SUFFICES ASSUME Init PROVE IInv
    OBVIOUS
  <1>1. \A t \in Threads : StackOf(t) \in Mem!Regions
    BY DEF StackOf, Mem!Regions
  <1>2. Types
    BY EmptySeq DEF Types, Init, Mem!Init
  <1>3. /\ offset = [r \in Mem!Regions |-> 0]
        /\ \A t \in Threads : frames[t] = <<>> /\ calls[t] = <<>>
    BY DEF Init, Mem!Init
  <1>4. ASSUME NEW t \in Threads PROVE Left[t] = 0
    <2>1. Len(frames[t]) = 0 /\ Len(calls[t]) = 0
      BY <1>3, EmptySeq
    <2>2. Left[t] = Len(frames[t]) - Len(calls[t])
      BY DEF Left
    <2>. QED
      BY <2>1, <2>2
  <1>5. ASSUME NEW t \in Threads PROVE DOMAIN calls[t] = {}
    BY <1>3, EmptySeq
  <1>6. FramesMatchCalls
    <2>. SUFFICES ASSUME NEW t \in Threads
                  PROVE  Len(frames[t]) - Len(calls[t]) >= 0
      BY <1>5 DEF FramesMatchCalls
    <2>. QED
      BY <1>3, EmptySeq
  <1>7. BlocksKnowTheirFrame /\ LocalsStayLive
    BY <1>5 DEF BlocksKnowTheirFrame, LocalsStayLive
  <1>8. FramesAreMapped /\ NothingLeftBehind
    BY <1>1, <1>3, <1>4 DEF FramesAreMapped, NothingLeftBehind
  <1>. QED
    BY <1>2, <1>6, <1>7, <1>8 DEF IInv

\* A function opens its frame and becomes the innermost activation of its thread
\* (function.cc:415, VMemory.java:113-117).
LEMMA EnterStep ==
  ASSUME IInv, NEW t \in Threads, Enter(t)
  PROVE  IInv'
  <1>. DEFINE r == StackOf(t)
  <1>1. r \in Mem!Regions
    BY DEF StackOf, Mem!Regions
  <1>2. PICK b \in Mem!CurrentBase(r) :
          /\ base'   = [base EXCEPT ![r] = b]
          /\ frames' = [frames EXCEPT ![t] = Append(@, b + offset[r])]
          /\ UNCHANGED <<offset, live, thrown>>
    BY DEF Enter, Mem!createStackFrame, StackOf
  <1>3. /\ b \in Nat
        /\ base' \in [Mem!Regions -> Nat \cup {Unmapped}]
        /\ base'[r] = b
        /\ \A q \in Mem!Regions : base[q] \in Nat => base'[q] = base[q]
        /\ \A q \in Mem!Regions : q # r => base'[q] = base[q]
    BY <1>1, <1>2, Mapping DEF IInv
  <1>4. b + offset[r] \in Int
    BY <1>1, <1>3 DEF IInv, Types
  <1>5. calls' = [calls EXCEPT ![t] = Append(@, [pc |-> "body", entry |-> b + offset[r], own |-> {}])]
    BY <1>3 DEF Enter, Activation, EntryAddr
  <1>. DEFINE new == [pc |-> "body", entry |-> b + offset[r], own |-> {}]
              addr == b + offset[r]
  <1>6. new \in Activations
    BY <1>4 DEF Activations
  <1>. HIDE DEF new, addr
  <1>7. /\ frames[t] \in Seq(Int) /\ calls[t] \in Seq(Activations)
        /\ frames'[t] = Append(frames[t], addr)
        /\ calls'[t] = Append(calls[t], new)
        /\ \A u \in Threads : u # t => frames'[u] = frames[u] /\ calls'[u] = calls[u]
    BY <1>2, <1>5 DEF IInv, Types, new, addr
  <1>8. Types'
    BY <1>2, <1>3, <1>4, <1>5, <1>6, <1>7 DEF IInv, Types, new, addr
  <1>9. /\ Len(frames[t]) \in Nat /\ Len(calls[t]) \in Nat
        /\ Len(frames'[t]) = Len(frames[t]) + 1
        /\ Len(calls'[t]) = Len(calls[t]) + 1
        /\ DOMAIN calls[t] = 1 .. Len(calls[t])
        /\ DOMAIN calls'[t] = 1 .. Len(calls[t]) + 1
        /\ \A i \in 1 .. Len(calls[t]) : calls'[t][i] = calls[t][i]
        /\ \A i \in 1 .. Len(frames[t]) : frames'[t][i] = frames[t][i]
        /\ calls'[t][Len(calls[t]) + 1] = new
        /\ frames'[t][Len(frames[t]) + 1] = addr
    <2>1. /\ Len(frames[t]) \in Nat /\ Len(calls[t]) \in Nat
          /\ DOMAIN calls[t] = 1 .. Len(calls[t])
      BY <1>7, LenProperties
    <2>2. /\ calls'[t] \in Seq(Activations)
          /\ Len(calls'[t]) = Len(calls[t]) + 1
          /\ \A i \in 1 .. Len(calls[t]) : calls'[t][i] = calls[t][i]
          /\ calls'[t][Len(calls[t]) + 1] = new
      BY <1>6, <1>7, AppendProperties
    <2>3. addr \in Int
      BY <1>4 DEF addr
    <2>4. /\ Len(frames'[t]) = Len(frames[t]) + 1
          /\ \A i \in 1 .. Len(frames[t]) : frames'[t][i] = frames[t][i]
          /\ frames'[t][Len(frames[t]) + 1] = addr
      BY <1>7, <2>3, AppendProperties
    <2>5. DOMAIN calls'[t] = 1 .. Len(calls[t]) + 1
      BY <2>2, LenProperties
    <2>. QED
      BY <2>1, <2>2, <2>4, <2>5
  <1>10. /\ new.entry = addr /\ new.own = {}
    BY DEF new, addr
  <1>11. Left' = Left /\ Left \in [Threads -> Nat]
    <2>1. /\ Len(frames[t]) \in Nat /\ Len(calls[t]) \in Nat
          /\ Len(frames'[t]) = Len(frames[t]) + 1
          /\ Len(calls'[t]) = Len(calls[t]) + 1
      BY <1>9
    <2>2. Len(frames'[t]) - Len(calls'[t]) = Len(frames[t]) - Len(calls[t])
      BY <2>1
    <2>3. \A u \in Threads :
            Len(frames'[u]) - Len(calls'[u]) = Len(frames[u]) - Len(calls[u])
      BY <1>7, <2>2
    <2>4. Left' = Left
      BY <2>3 DEF Left
    <2>. QED
      BY <2>4, LeftType DEF IInv
  <1>12. FramesMatchCalls'
    <2>. SUFFICES ASSUME NEW u \in Threads
                  PROVE  \A i \in DOMAIN calls'[u] :
                           frames'[u][Left[u] + i] = calls'[u][i].entry
      BY <1>8, <1>11, FramesMatchCallsStep
    <2>1. CASE u # t
      BY <2>1, <1>7, FramesAt DEF IInv
    <2>2. CASE u = t
      <3>1. /\ Left[t] \in Nat /\ Left[t] = Len(frames[t]) - Len(calls[t])
            /\ Len(frames[t]) \in Nat /\ Len(calls[t]) \in Nat
        BY <1>9, <1>11 DEF Left
      <3>2. ASSUME NEW i \in 1 .. Len(calls[t])
            PROVE  frames'[t][Left[t] + i] = calls'[t][i].entry
        <4>1. Left[t] + i \in 1 .. Len(frames[t])
          BY <3>1, FramePosition
        <4>2. frames[t][Left[t] + i] = calls[t][i].entry
          BY <1>9, FramesAt DEF IInv
        <4>. QED
          BY <4>1, <4>2, <1>9
      <3>3. frames'[t][Left[t] + (Len(calls[t]) + 1)] = calls'[t][Len(calls[t]) + 1].entry
        <4>1. Left[t] + (Len(calls[t]) + 1) = Len(frames[t]) + 1
          BY <3>1, FramePosition
        <4>. QED
          BY <4>1, <1>9, <1>10
      <3>4. \A i \in 1 .. Len(calls[t]) + 1 : i \in 1 .. Len(calls[t]) \/ i = Len(calls[t]) + 1
        BY <1>9
      <3>. QED
        BY <2>2, <3>2, <3>3, <3>4, <1>9
    <2>. QED
      BY <2>1, <2>2
  <1>13. \A u \in Threads : \A i \in DOMAIN calls'[u] :
           \/ i \in DOMAIN calls[u] /\ calls'[u][i] = calls[u][i]
           \/ calls'[u][i].own = {}
    <2>1. \A i \in 1 .. Len(calls[t]) + 1 : i \in 1 .. Len(calls[t]) \/ i = Len(calls[t]) + 1
      BY <1>9
    <2>. QED
      BY <2>1, <1>7, <1>9, <1>10
  <1>14. BlocksKnowTheirFrame'
    BY <1>11, <1>13 DEF IInv, BlocksKnowTheirFrame
  <1>15. LocalsStayLive'
    BY <1>2, <1>13 DEF IInv, LocalsStayLive
  <1>16. FramesAreMapped'
    <2>. SUFFICES ASSUME NEW u \in Threads, frames'[u] # <<>>
                  PROVE  base'[StackOf(u)] \in Nat
      BY DEF FramesAreMapped, StackOf
    <2>1. CASE u = t
      BY <2>1, <1>3
    <2>2. CASE u # t
      BY <2>2, <1>3, <1>7 DEF IInv, FramesAreMapped, StackOf, Mem!Regions
    <2>. QED
      BY <2>1, <2>2
  <1>17. NothingLeftBehind'
    <2>. SUFFICES ASSUME NEW u \in Threads, ~thrown[u]
                  PROVE  /\ Left[u] = 0
                         /\ frames'[u] # <<>> => frames'[u][1] = base'[StackOf(u)]
                         /\ frames'[u] = <<>> => offset[StackOf(u)] = 0
      BY <1>2, <1>11 DEF NothingLeftBehind, StackOf
    <2>1. CASE u # t
      BY <2>1, <1>3, <1>7, <1>11 DEF IInv, NothingLeftBehind, FramesAreMapped, StackOf, Mem!Regions
    <2>2. CASE u = t
      <3>1. frames'[t] # <<>>
        <4>1. Len(frames'[t]) # 0
          BY <1>9
        <4>. QED
          BY <4>1, EmptySeq
      <3>2. CASE frames[t] = <<>>
        <4>1. Len(frames[t]) = 0 /\ offset[r] = 0
          BY <3>2, <2>2, EmptySeq DEF IInv, NothingLeftBehind
        <4>2. frames'[t][1] = b
          BY <4>1, <1>3, <1>9 DEF addr
        <4>. QED
          BY <2>2, <3>1, <4>2, <1>3, <1>11 DEF IInv, NothingLeftBehind
      <3>3. CASE frames[t] # <<>>
        <4>1. Len(frames[t]) >= 1
          BY <3>3, <1>7, EmptySeq
        <4>2. frames'[t][1] = frames[t][1]
          BY <4>1, <1>9
        <4>. QED
          BY <2>2, <3>1, <3>3, <4>2, <1>1, <1>3, <1>11 DEF IInv, NothingLeftBehind, FramesAreMapped
      <3>. QED
        BY <3>2, <3>3
    <2>. QED
      BY <2>1, <2>2
  <1>. QED
    BY <1>8, <1>12, <1>14, <1>15, <1>16, <1>17 DEF IInv

\* The innermost activation changes, its callers do not.
LEMMA TopChanges ==
  ASSUME Types, NEW t \in Threads, calls[t] # <<>>, NEW a \in Activations,
         calls' = [calls EXCEPT ![t] = [@ EXCEPT ![Len(calls[t])] = a]]
  PROVE  /\ Len(calls[t]) \in Nat \ {0}
         /\ calls' \in [Threads -> Seq(Activations)]
         /\ Len(calls'[t]) = Len(calls[t])
         /\ calls'[t] # <<>>
         /\ \A u \in Threads : DOMAIN calls'[u] = DOMAIN calls[u]
         /\ \A u \in Threads : u # t => calls'[u] = calls[u]
         /\ \A i \in DOMAIN calls[t] :
              calls'[t][i] = IF i = Len(calls[t]) THEN a ELSE calls[t][i]
  <1>. DEFINE c == calls[t]
              n == Len(calls[t])
              d == [c EXCEPT ![n] = a]
  <1>1. /\ c \in Seq(Activations) /\ c # <<>>
        /\ calls' = [calls EXCEPT ![t] = d]
    BY DEF Types
  <1>2. n \in Nat \ {0} /\ DOMAIN c = 1 .. n
    BY <1>1, EmptySeq, LenProperties
  <1>3. n \in 1 .. n
    BY <1>2
  <1>4. /\ d \in Seq(Activations)
        /\ Len(d) = n
        /\ \A j \in 1 .. n : d[j] = IF j = n THEN a ELSE c[j]
    BY <1>1, <1>3, ExceptSeq
  <1>5. DOMAIN d = 1 .. n
    BY <1>4, LenProperties
  <1>. HIDE DEF d
  <1>6. calls'[t] = d /\ \A u \in Threads : u # t => calls'[u] = calls[u]
    BY <1>1 DEF Types
  <1>7. calls' \in [Threads -> Seq(Activations)]
    BY <1>1, <1>4 DEF Types
  <1>8. d # <<>>
    BY <1>2, <1>4, EmptySeq
  <1>. QED
    BY <1>2, <1>4, <1>5, <1>6, <1>7, <1>8

\* A running thread has saved addresses, so its stack is mapped.
LEMMA RunningHasFrame ==
  ASSUME IInv, NEW t \in Threads, calls[t] # <<>>
  PROVE  /\ frames[t] # <<>>
         /\ Len(calls[t]) \in Nat \ {0}
         /\ Len(frames[t]) \in Nat \ {0}
         /\ base[StackOf(t)] \in Nat
  <1>1. /\ Len(calls[t]) \in Nat \ {0} /\ Len(frames[t]) \in Nat
    BY EmptySeq, LenProperties DEF IInv, Types
  <1>2. Len(frames[t]) - Len(calls[t]) >= 0
    BY DEF IInv, FramesMatchCalls
  <1>3. Len(frames[t]) # 0
    BY <1>1, <1>2
  <1>4. frames[t] # <<>>
    BY <1>3, EmptySeq
  <1>. QED
    BY <1>1, <1>3, <1>4 DEF IInv, FramesAreMapped

\* The innermost activation allocates a block (instruction.cc, function.cc:62-110,
\* VMemory.java:127-138).
LEMMA AllocateStep ==
  ASSUME IInv, NEW t \in Threads, NEW required \in Requests,
         NEW pc \in {"body", "calling"},
         calls[t] # <<>>, AllocateOwn(t, required, pc)
  PROVE  IInv'
  <1>. DEFINE r == StackOf(t)
              n == Len(calls[t])
  <1>1. r \in Mem!Regions
    BY DEF StackOf, Mem!Regions
  <1>2. PICK b \in Mem!CurrentBase(r) :
          LET addr  == Mem!alignOffsetUp(b + offset[r], Mem!ALIGNMENT)
              block == [thread |-> t, kind |-> "stack", addr |-> addr,
                        size |-> required, depth |-> Len(frames[t])]
          IN  /\ base'   = [base EXCEPT ![r] = b]
              /\ offset' = [offset EXCEPT ![r] = addr + required - b]
              /\ live'   = live \cup {block}
    BY DEF AllocateOwn, Mem!allocateStack, Mem!Allocate, StackOf
  <1>. DEFINE addr  == Mem!alignOffsetUp(b + offset[r], Mem!ALIGNMENT)
              block == [thread |-> t, kind |-> "stack", addr |-> addr,
                        size |-> required, depth |-> Len(frames[t])]
  <1>3. /\ b \in Nat
        /\ base' \in [Mem!Regions -> Nat \cup {Unmapped}]
        /\ base'[r] = b
        /\ \A q \in Mem!Regions : base[q] \in Nat => base'[q] = base[q]
        /\ \A q \in Mem!Regions : q # r => base'[q] = base[q]
    BY <1>1, <1>2, Mapping DEF IInv
  <1>4. /\ frames[t] # <<>> /\ base[r] \in Nat
        /\ n \in Nat \ {0} /\ Len(frames[t]) \in Nat \ {0}
    BY RunningHasFrame
  <1>5. offset[r] \in Int /\ required \in Int
    BY <1>1, MemoryAssumption DEF IInv, Types, Mem!ConstantsAssumption
  <1>6. addr \in Int
    BY <1>3, <1>5 DEF Mem!alignOffsetUp, Mem!ALIGNMENT
  <1>7. addr + required - b \in Int
    BY <1>3, <1>5, <1>6
  <1>8. block \in Blocks
    BY <1>4, <1>5, <1>6 DEF Blocks
  <1>9. /\ offset' = [offset EXCEPT ![r] = addr + required - b]
        /\ live' = live \cup {block}
        /\ frames' = frames /\ thrown' = thrown
    BY <1>2 DEF AllocateOwn, Mem!allocateStack, Mem!Allocate
  <1>. HIDE DEF addr
  <1>. DEFINE new == [calls[t][n] EXCEPT !.own = @ \cup (live' \ live), !.pc = pc]
  <1>10. calls[t] \in Seq(Activations) /\ calls[t][n] \in Activations
    <2>1. calls[t] \in Seq(Activations) /\ n \in 1 .. n
      BY <1>4 DEF IInv, Types
    <2>. QED
      BY <2>1, ElementOfSeq
  <1>11. new \in Activations /\ new.entry = calls[t][n].entry
         /\ new.own \subseteq calls[t][n].own \cup {block}
    BY <1>8, <1>9, <1>10 DEF Activations
  <1>12. calls' = [calls EXCEPT ![t] = [@ EXCEPT ![n] = new]]
    BY <1>4, <1>10 DEF AllocateOwn, IInv, Types, Activations
  <1>. HIDE DEF new, block
  <1>13. /\ calls' \in [Threads -> Seq(Activations)]
         /\ Len(calls'[t]) = n
         /\ \A u \in Threads : DOMAIN calls'[u] = DOMAIN calls[u]
         /\ \A u \in Threads : u # t => calls'[u] = calls[u]
         /\ \A i \in DOMAIN calls[t] : calls'[t][i] = IF i = n THEN new ELSE calls[t][i]
    BY <1>11, <1>12, TopChanges DEF IInv
  <1>14. Types'
    BY <1>3, <1>7, <1>8, <1>9, <1>13 DEF IInv, Types
  <1>15. Left' = Left /\ Left \in [Threads -> Nat]
    <2>1. \A u \in Threads : Len(calls'[u]) = Len(calls[u])
      BY <1>13
    <2>. QED
      BY <2>1, <1>9, LeftType DEF IInv, Left
  <1>16. FramesMatchCalls'
    <2>1. \A u \in Threads : \A i \in DOMAIN calls[u] : calls'[u][i].entry = calls[u][i].entry
      BY <1>11, <1>13
    <2>2. \A u \in Threads : \A i \in DOMAIN calls[u] : frames[u][Left[u] + i] = calls[u][i].entry
      BY FramesAt DEF IInv
    <2>3. \A u \in Threads : \A i \in DOMAIN calls'[u] : frames'[u][Left[u] + i] = calls'[u][i].entry
      BY <2>1, <2>2, <1>9, <1>13
    <2>. QED
      BY <2>3, <1>14, <1>15, FramesMatchCallsStep
  <1>17. block.thread = t /\ block.kind = "stack" /\ block.depth = Left[t] + n
    <2>1. Left[t] \in Nat /\ Left[t] = Len(frames[t]) - n
      BY <1>15 DEF Left
    <2>2. Left[t] + n = Len(frames[t])
      BY <2>1, <1>4, FramePosition
    <2>. QED
      BY <2>2 DEF block
  <1>18. \A u \in Threads : \A i \in DOMAIN calls'[u] :
           \/ i \in DOMAIN calls[u] /\ calls'[u][i].own \subseteq calls[u][i].own
           \/ /\ u = t /\ i = n
              /\ i \in DOMAIN calls[u]
              /\ calls'[u][i].own \subseteq calls[u][i].own \cup {block}
    BY <1>11, <1>13
  <1>19. BlocksKnowTheirFrame'
    BY <1>15, <1>17, <1>18 DEF IInv, BlocksKnowTheirFrame
  <1>20. LocalsStayLive'
    BY <1>9, <1>18 DEF IInv, LocalsStayLive
  <1>21. FramesAreMapped'
    BY <1>3, <1>9 DEF IInv, FramesAreMapped, StackOf, Mem!Regions
  <1>22. NothingLeftBehind'
    BY <1>3, <1>4, <1>9, <1>14, <1>15
       DEF IInv, Types, NothingLeftBehind, FramesAreMapped, StackOf, Mem!Regions
  <1>. QED
    BY <1>14, <1>16, <1>19, <1>20, <1>21, <1>22 DEF IInv

\* The caller starts or ends a call without a frame of its own kind
\* (Function.java, _invoke of a registered method).
LEMMA PcStep ==
  ASSUME IInv, NEW t \in Threads, NEW pc \in {"body", "calling"},
         calls[t] # <<>>,
         calls' = [calls EXCEPT ![t][Len(calls[t])].pc = pc],
         UNCHANGED <<memVars, thrown>>
  PROVE  IInv'
  <1>. DEFINE n == Len(calls[t])
              new == [calls[t][n] EXCEPT !.pc = pc]
  <1>1. n \in Nat \ {0} /\ calls[t] \in Seq(Activations)
    BY RunningHasFrame DEF IInv, Types
  <1>2. calls[t][n] \in Activations
    <2>1. n \in 1 .. n
      BY <1>1
    <2>. QED
      BY <1>1, <2>1, ElementOfSeq
  <1>3. /\ new \in Activations
        /\ new.entry = calls[t][n].entry /\ new.own = calls[t][n].own
    BY <1>2 DEF Activations
  <1>4. calls' = [calls EXCEPT ![t] = [@ EXCEPT ![n] = new]]
    BY <1>1, <1>2 DEF IInv, Types, Activations
  <1>. HIDE DEF new
  <1>5. /\ calls' \in [Threads -> Seq(Activations)]
        /\ \A u \in Threads : DOMAIN calls'[u] = DOMAIN calls[u]
        /\ \A u \in Threads : Len(calls'[u]) = Len(calls[u])
        /\ \A u \in Threads : \A i \in DOMAIN calls[u] :
             /\ calls'[u][i].entry = calls[u][i].entry
             /\ calls'[u][i].own = calls[u][i].own
    <2>1. /\ calls' \in [Threads -> Seq(Activations)]
          /\ Len(calls'[t]) = n
          /\ \A u \in Threads : DOMAIN calls'[u] = DOMAIN calls[u]
          /\ \A u \in Threads : u # t => calls'[u] = calls[u]
          /\ \A i \in DOMAIN calls[t] : calls'[t][i] = IF i = n THEN new ELSE calls[t][i]
      BY <1>3, <1>4, TopChanges DEF IInv
    <2>2. \A i \in DOMAIN calls[t] : /\ calls'[t][i].entry = calls[t][i].entry
                                     /\ calls'[t][i].own = calls[t][i].own
      BY <1>3, <2>1
    <2>. QED
      BY <2>1, <2>2
  <1>6. UNCHANGED <<base, offset, frames, live, thrown>>
    BY DEF memVars
  <1>7. Types'
    BY <1>5, <1>6 DEF IInv, Types
  <1>8. Left' = Left /\ Left \in [Threads -> Nat]
    BY <1>5, <1>6, LeftType DEF IInv, Left
  <1>9. FramesMatchCalls'
    BY <1>5, <1>6, <1>7, <1>8, FramesAt, FramesMatchCallsStep DEF IInv
  <1>10. BlocksKnowTheirFrame' /\ LocalsStayLive'
    BY <1>5, <1>6, <1>8 DEF IInv, BlocksKnowTheirFrame, LocalsStayLive
  <1>11. FramesAreMapped' /\ NothingLeftBehind'
    BY <1>6, <1>8 DEF IInv, FramesAreMapped, NothingLeftBehind, StackOf
  <1>. QED
    BY <1>7, <1>9, <1>10, <1>11 DEF IInv

\* An allocation that fails finds the stack mapped, and changes nothing
\* (VMemory.java:127-138).
LEMMA FailureChangesNothing ==
  ASSUME IInv, NEW t \in Threads, NEW required, calls[t] # <<>>,
         Mem!AllocateFails(t, "stack", required)
  PROVE  UNCHANGED memVars
  <1>1. StackOf(t) \in Mem!Regions /\ base[StackOf(t)] \in Nat
    BY RunningHasFrame DEF StackOf, Mem!Regions
  <1>2. base[StackOf(t)] # Unmapped
    BY <1>1, MemoryAssumption DEF Mem!ConstantsAssumption
  <1>. QED
    BY <1>1, <1>2
       DEF Mem!AllocateFails, Mem!CurrentBase, StackOf, memVars, IInv, Types

\* An exception drops all activations of its thread and none of their frames.
LEMMA UnwindStep ==
  ASSUME IInv, NEW t \in Threads, Unwind(t), UNCHANGED memVars
  PROVE  IInv'
  <1>1. UNCHANGED <<base, offset, frames, live>>
    BY DEF memVars
  <1>2. /\ calls'[t] = <<>> /\ thrown'[t]
        /\ \A u \in Threads : u # t => calls'[u] = calls[u] /\ thrown'[u] = thrown[u]
    BY DEF Unwind, IInv, Types
  <1>3. Types'
    BY <1>1, EmptySeq DEF Unwind, IInv, Types
  <1>4. DOMAIN calls'[t] = {} /\ Len(calls'[t]) = 0
    BY <1>2, EmptySeq
  <1>5. \A u \in Threads : u # t => Left'[u] = Left[u]
    BY <1>1, <1>2 DEF Left
  <1>6. FramesMatchCalls'
    <2>. SUFFICES ASSUME NEW u \in Threads
                  PROVE  LET left == Len(frames[u]) - Len(calls'[u]) IN
                         /\ left >= 0
                         /\ \A i \in DOMAIN calls'[u] :
                              frames[u][left + i] = calls'[u][i].entry
      BY <1>1, ZenonT(60) DEF FramesMatchCalls
    <2>1. CASE u # t
      BY <2>1, <1>2 DEF IInv, FramesMatchCalls
    <2>2. CASE u = t
      <3>1. Len(frames[t]) \in Nat
        BY LenProperties DEF IInv, Types
      <3>. QED
        BY <2>2, <3>1, <1>4
    <2>. QED
      BY <2>1, <2>2
  <1>7. BlocksKnowTheirFrame'
    BY <1>2, <1>4, <1>5 DEF IInv, BlocksKnowTheirFrame
  <1>8. LocalsStayLive' /\ FramesAreMapped'
    BY <1>1, <1>2, <1>4 DEF IInv, LocalsStayLive, FramesAreMapped, StackOf
  <1>9. NothingLeftBehind'
    BY <1>1, <1>2, <1>5 DEF IInv, NothingLeftBehind, StackOf
  <1>. QED
    BY <1>3, <1>6, <1>7, <1>8, <1>9 DEF IInv

\* A return closes the frame of its own activation and lets the caller go on
\* (block.cc:79-88, VMemory.java:119-125).
LEMMA RetStep ==
  ASSUME IInv, NEW t \in Threads, Ret(t)
  PROVE  IInv'
  <1>. DEFINE r == StackOf(t)
              n == Len(frames[t])
              m == Len(calls[t])
  <1>1. calls[t] # <<>> /\ r \in Mem!Regions
    BY DEF Ret, Running, StackOf, Mem!Regions
  <1>2. /\ n \in Nat \ {0} /\ m \in Nat \ {0} /\ base[r] \in Nat
        /\ frames[t] \in Seq(Int) /\ calls[t] \in Seq(Activations)
    BY <1>1, RunningHasFrame DEF IInv, Types
  <1>3. /\ base' = base /\ thrown' = thrown
        /\ offset' = [offset EXCEPT ![r] = frames[t][n] - base[r]]
        /\ frames' = [frames EXCEPT ![t] = SubSeq(@, 1, n - 1)]
        /\ live'   = {blk \in live :
                        ~(blk.thread = t /\ blk.kind = "stack" /\ blk.depth = n)}
        /\ calls' = [calls EXCEPT ![t] = Resume(SubSeq(@, 1, m - 1))]
    BY DEF Ret, Mem!destroyStackFrame, StackOf, Front
  <1>. DEFINE callers == SubSeq(calls[t], 1, m - 1)
              rest    == SubSeq(frames[t], 1, n - 1)
  <1>4. /\ DOMAIN calls[t] = 1 .. m /\ \A i \in 1 .. m : calls[t][i] \in Activations
        /\ \A i \in 1 .. n : frames[t][i] \in Int
    BY <1>2, LenProperties, ElementOfSeq
  <1>5. /\ callers \in Seq(Activations) /\ Len(callers) = m - 1
        /\ \A i \in 1 .. m - 1 : callers[i] = calls[t][i]
    <2>1. m - 1 \in Int /\ 1 .. m - 1 \subseteq 1 .. m
      BY <1>2
    <2>2. \A i \in 1 .. m - 1 : calls[t][i] \in Activations
      BY <2>1, <1>4
    <2>3. /\ callers \in Seq(Activations)
          /\ Len(callers) = IF 1 <= m - 1 THEN m - 1 - 1 + 1 ELSE 0
          /\ \A i \in 1 .. m - 1 - 1 + 1 : callers[i] = calls[t][1 + i - 1]
      BY <2>1, <2>2, SubSeqProperties
    <2>. HIDE DEF callers
    <2>. QED
      BY <1>2, <2>3
  <1>6. /\ rest \in Seq(Int) /\ Len(rest) = n - 1
        /\ \A i \in 1 .. n - 1 : rest[i] = frames[t][i]
    <2>1. n - 1 \in Int /\ 1 .. n - 1 \subseteq 1 .. n
      BY <1>2
    <2>2. \A i \in 1 .. n - 1 : frames[t][i] \in Int
      BY <2>1, <1>4
    <2>3. /\ rest \in Seq(Int)
          /\ Len(rest) = IF 1 <= n - 1 THEN n - 1 - 1 + 1 ELSE 0
          /\ \A i \in 1 .. n - 1 - 1 + 1 : rest[i] = frames[t][1 + i - 1]
      BY <2>1, <2>2, SubSeqProperties
    <2>. HIDE DEF rest
    <2>. QED
      BY <1>2, <2>3
  <1>. HIDE DEF callers, rest
  <1>. DEFINE resumed == Resume(callers)
  <1>7. /\ resumed \in Seq(Activations) /\ Len(resumed) = m - 1
        /\ DOMAIN resumed = 1 .. m - 1
        /\ \A i \in 1 .. m - 1 : /\ resumed[i].entry = calls[t][i].entry
                                  /\ resumed[i].own = calls[t][i].own
    <2>1. m - 1 \in Nat /\ DOMAIN callers = 1 .. m - 1
      BY <1>2, <1>5, LenProperties
    <2>2. \A i \in 1 .. m - 1 : callers[i] \in Activations
      BY <1>5, ElementOfSeq
    <2>3. resumed = [i \in 1 .. m - 1 |->
                       IF i < m - 1 THEN callers[i] ELSE [callers[i] EXCEPT !.pc = "body"]]
      BY <1>5, <2>1 DEF Resume
    <2>4. \A i \in 1 .. m - 1 : /\ resumed[i] \in Activations
                                /\ resumed[i].entry = callers[i].entry
                                /\ resumed[i].own = callers[i].own
      BY <2>2, <2>3 DEF Activations
    <2>. HIDE DEF resumed
    <2>5. resumed \in [1 .. m - 1 -> Activations]
      BY <2>3, <2>4
    <2>6. resumed \in Seq(Activations)
      BY <2>1, <2>5, SeqDef
    <2>. QED
      BY <1>5, <2>1, <2>3, <2>4, <2>6, LenProperties
  <1>. HIDE DEF resumed
  <1>8. /\ calls'[t] = resumed /\ frames'[t] = rest
        /\ \A u \in Threads : u # t => calls'[u] = calls[u] /\ frames'[u] = frames[u]
        /\ offset'[r] = frames[t][n] - base[r]
        /\ \A q \in Mem!Regions : q # r => offset'[q] = offset[q]
    BY <1>1, <1>3 DEF IInv, Types, resumed, callers, rest
  <1>9. frames[t][n] \in Int /\ frames[t][n] - base[r] \in Int
    BY <1>2, <1>4
  <1>10. Types'
    BY <1>3, <1>6, <1>7, <1>8, <1>9 DEF IInv, Types, resumed, callers, rest
  <1>11. Left' = Left /\ Left \in [Threads -> Nat]
    <2>1. (n - 1) - (m - 1) = n - m
      BY <1>2
    <2>2. \A u \in Threads :
            Len(frames'[u]) - Len(calls'[u]) = Len(frames[u]) - Len(calls[u])
      BY <1>6, <1>7, <1>8, <2>1
    <2>3. Left' = Left
      BY <2>2 DEF Left
    <2>. QED
      BY <2>3, LeftType DEF IInv
  <1>12. Left[t] \in Nat /\ Left[t] = n - m
    BY <1>11 DEF Left
  <1>13. \A i \in 1 .. m - 1 : /\ i \in 1 .. m /\ i \in DOMAIN calls[t]
                               /\ Left[t] + i \in 1 .. n - 1
    BY <1>2, <1>4, <1>12, CallerPosition
  <1>14. FramesMatchCalls'
    <2>. SUFFICES ASSUME NEW u \in Threads
                  PROVE  \A i \in DOMAIN calls'[u] :
                           frames'[u][Left[u] + i] = calls'[u][i].entry
      BY <1>10, <1>11, FramesMatchCallsStep
    <2>1. CASE u # t
      BY <2>1, <1>8, FramesAt DEF IInv
    <2>2. CASE u = t
      <3>. SUFFICES ASSUME NEW i \in 1 .. m - 1
                    PROVE  rest[Left[t] + i] = resumed[i].entry
        BY <2>2, <1>7, <1>8
      <3>1. rest[Left[t] + i] = frames[t][Left[t] + i]
        BY <1>6, <1>13
      <3>2. frames[t][Left[t] + i] = calls[t][i].entry
        BY <1>13, FramesAt DEF IInv
      <3>. QED
        BY <3>1, <3>2, <1>7
    <2>. QED
      BY <2>1, <2>2
  <1>15. \A u \in Threads : \A i \in DOMAIN calls'[u] :
           i \in DOMAIN calls[u] /\ calls'[u][i].own = calls[u][i].own
    BY <1>7, <1>8, <1>13
  <1>16. BlocksKnowTheirFrame'
    BY <1>11, <1>15 DEF IInv, BlocksKnowTheirFrame
  <1>17. LocalsStayLive'
    <2>. SUFFICES ASSUME NEW u \in Threads, NEW i \in DOMAIN calls'[u],
                         NEW blk \in calls[u][i].own
                  PROVE  blk \in live'
      BY <1>15 DEF LocalsStayLive
    <2>1. blk \in live /\ blk.thread = u /\ blk.depth = Left[u] + i
      BY <1>15 DEF IInv, LocalsStayLive, BlocksKnowTheirFrame
    <2>2. CASE u # t
      BY <2>1, <2>2, <1>3
    <2>3. CASE u = t
      <3>1. i \in 1 .. m - 1
        BY <2>3, <1>7, <1>8
      <3>2. Left[t] + i # n
        <4>1. Left[t] + i \in 1 .. n - 1
          BY <3>1, <1>13
        <4>. QED
          BY <4>1, <1>2
      <3>. QED
        BY <2>1, <2>3, <3>2, <1>3
    <2>. QED
      BY <2>2, <2>3
  <1>18. FramesAreMapped'
    <2>1. \A u \in Threads : frames'[u] # <<>> => base[StackOf(u)] \in Nat
      BY <1>2, <1>8 DEF IInv, FramesAreMapped
    <2>. QED
      BY <2>1, <1>3 DEF FramesAreMapped, StackOf
  <1>19. NothingLeftBehind'
    <2>. SUFFICES ASSUME NEW u \in Threads, ~thrown[u]
                  PROVE  /\ Left[u] = 0
                         /\ frames'[u] # <<>> => frames'[u][1] = base[StackOf(u)]
                         /\ frames'[u] = <<>> => offset'[StackOf(u)] = 0
      BY <1>3, <1>11 DEF NothingLeftBehind, StackOf
    <2>1. CASE u # t
      BY <2>1, <1>8 DEF IInv, NothingLeftBehind, StackOf, Mem!Regions
    <2>2. CASE u = t
      <3>1. Left[t] = 0 /\ frames[t][1] = base[r]
        BY <2>2, <1>1, RunningHasFrame DEF IInv, NothingLeftBehind
      <3>2. CASE n = 1
        <4>1. offset'[r] = 0 /\ Len(rest) = 0
          BY <3>1, <3>2, <1>2, <1>6, <1>8
        <4>2. rest = <<>>
          BY <4>1, <1>6, EmptySeq
        <4>. QED
          BY <2>2, <3>1, <4>1, <4>2, <1>8
      <3>3. CASE n # 1
        <4>1. Len(rest) # 0 /\ 1 \in 1 .. n - 1
          <5>1. n \in Nat \ {0} /\ n # 1
            BY <3>3, <1>2
          <5>. HIDE DEF n
          <5>2. n - 1 # 0 /\ 1 \in 1 .. n - 1
            BY <5>1
          <5>. QED
            BY <5>2, <1>6
        <4>2. rest # <<>>
          BY <4>1, EmptySeq
        <4>. QED
          BY <2>2, <3>1, <4>1, <4>2, <1>6, <1>8
      <3>. QED
        BY <3>2, <3>3
    <2>. QED
      BY <2>1, <2>2
  <1>. QED
    BY <1>10, <1>14, <1>16, <1>17, <1>18, <1>19 DEF IInv

\* Every step of a thread, and every stutter, keeps the invariant.
LEMMA NextIInv == IInv /\ [Next]_vars => IInv'
  <1>. SUFFICES ASSUME IInv, [Next]_vars PROVE IInv'
    OBVIOUS
  <1>1. CASE UNCHANGED vars
    <2>1. UNCHANGED <<base, offset, frames, live, calls, thrown>>
      BY <1>1 DEF vars, memVars
    <2>2. Left' = Left
      BY <2>1 DEF Left
    <2>3. FramesMatchCalls'
      BY <2>1 DEF IInv, FramesMatchCalls
    <2>. QED
      BY <2>1, <2>2, <2>3 DEF IInv, Types, BlocksKnowTheirFrame, LocalsStayLive,
         FramesAreMapped, NothingLeftBehind, StackOf
  <1>2. ASSUME NEW t \in Threads, InvokeFromJava(t) \/ EnterCallee(t)
        PROVE  IInv'
    BY <1>2, EnterStep DEF InvokeFromJava, EnterCallee
  <1>3. ASSUME NEW t \in Threads, NEW required \in Requests,
               Alloca(t, required) \/ PackOperands(t, required)
        PROVE  IInv'
    BY <1>3, AllocateStep DEF Alloca, PackOperands, Running
  <1>4. ASSUME NEW t \in Threads, NEW required \in Requests, OutOfStack(t, required)
        PROVE  IInv'
    BY <1>4, FailureChangesNothing, UnwindStep DEF OutOfStack, Running
  <1>5. ASSUME NEW t \in Threads, CallWithoutOperands(t) \/ ExternalReturns(t)
        PROVE  IInv'
    BY <1>5, PcStep DEF CallWithoutOperands, ExternalReturns, Running
  <1>6. ASSUME NEW t \in Threads, CallThrows(t) \/ Unreachable(t)
        PROVE  IInv'
    BY <1>6, UnwindStep DEF CallThrows, Unreachable
  <1>7. ASSUME NEW t \in Threads, Ret(t)
        PROVE  IInv'
    BY <1>7, RetStep
  <1>. QED
    BY <1>1, <1>2, <1>3, <1>4, <1>5, <1>6, <1>7 DEF Next

-----------------------------------------------------------------------------
(* Theorems. *)

\* The inductive invariant holds in every state of generated code.
THEOREM Invariance == Spec => []IInv
  BY InitIInv, NextIInv, PTL DEF Spec

\* Every return pops the frame its own function opened, whatever exceptions left
\* on the stack before (block.cc:79-88, VMemory.java:113-125).
THEOREM ReturnsPopTheirOwnFrame == Spec => []FramesMatchCalls
  <1>1. IInv => FramesMatchCalls
    BY DEF IInv
  <1>. QED
    BY <1>1, Invariance, PTL

\* The locals and the packed operands of a function outlive its callees
\* (function.cc:62-110, block.cc:79-88).
THEOREM LocalsOutliveCallees == Spec => []LocalsStayLive
  <1>1. IInv => LocalsStayLive
    BY DEF IInv
  <1>. QED
    BY <1>1, Invariance, PTL

\* Calls that return leak no stack (function.cc:415, block.cc:81).
THEOREM CallsLeakNothing == Spec => []IdleStackIsEmpty
  <1>1. IInv => IdleStackIsEmpty
    <2>. SUFFICES ASSUME IInv, NEW t \in Threads, calls[t] = <<>>, ~thrown[t]
                  PROVE  frames[t] = <<>> /\ offset[StackOf(t)] = 0
      BY DEF IdleStackIsEmpty
    <2>1. Len(frames[t]) - Len(calls[t]) = 0 /\ Len(calls[t]) = 0
      BY EmptySeq DEF IInv, NothingLeftBehind, Left
    <2>2. frames[t] \in Seq(Int) /\ Len(frames[t]) \in Nat
      BY LenProperties DEF IInv, Types
    <2>3. frames[t] = <<>>
      BY <2>1, <2>2, EmptySeq
    <2>. QED
      BY <2>3 DEF IInv, NothingLeftBehind
  <1>. QED
    BY <1>1, Invariance, PTL

\* Generated code uses the memory through its operations only: what holds of
\* VMemory holds below it (function.cc, block.cc and instruction.cc emit no other
\* change of a fragment or of the saved addresses).
THEOREM GeneratedCodeUsesVMemory == Spec => Mem!Spec
  <1>1. Init => Mem!Init
    BY DEF Init
  <1>2. [Next]_vars => [Mem!Next]_(Mem!vars)
    <2>. SUFFICES ASSUME [Next]_vars
                  PROVE  Mem!Next \/ UNCHANGED memVars
      BY DEF Mem!vars, memVars
    <2>1. CASE UNCHANGED vars
      BY <2>1 DEF vars, memVars
    <2>2. ASSUME NEW t \in Threads, InvokeFromJava(t) \/ EnterCallee(t)
          PROVE  Mem!Next
      BY <2>2 DEF InvokeFromJava, EnterCallee, Enter, Mem!Next
    <2>3. ASSUME NEW t \in Threads, NEW required \in Requests,
                 Alloca(t, required) \/ PackOperands(t, required)
          PROVE  Mem!Next
      BY <2>3 DEF Alloca, PackOperands, AllocateOwn, Mem!Next
    <2>4. ASSUME NEW t \in Threads, NEW required \in Requests, OutOfStack(t, required)
          PROVE  Mem!Next
      BY <2>4 DEF OutOfStack, Mem!Next
    <2>5. ASSUME NEW t \in Threads, \/ CallWithoutOperands(t) \/ ExternalReturns(t)
                                   \/ CallThrows(t) \/ Unreachable(t)
          PROVE  UNCHANGED memVars
      BY <2>5 DEF CallWithoutOperands, ExternalReturns, CallThrows, Unreachable
    <2>6. ASSUME NEW t \in Threads, Ret(t)
          PROVE  Mem!Next
      BY <2>6 DEF Ret, Mem!Next
    <2>. QED
      BY <2>1, <2>2, <2>3, <2>4, <2>5, <2>6 DEF Next
  <1>. QED
    BY <1>1, <1>2, PTL DEF Spec, Mem!Spec

-----------------------------------------------------------------------------
(* The theorems of VMemoryProofs, for the memory of generated code. *)

MemProofs == INSTANCE VMemoryProofs

\* Both instances of VMemory have the same states and steps.
LEMMA MemoryIsSafe ==
  ASSUME Mem!RequestsFitInt
  PROVE  Mem!Spec => [](Mem!TypeOK /\ Mem!BlocksDisjoint)
  <1>1. MemProofs!RequestsFitInt
    BY DEF Mem!RequestsFitInt, MemProofs!RequestsFitInt, Mem!ALIGNMENT, MemProofs!ALIGNMENT
  <1>2. Mem!Init <=> MemProofs!Init
    BY DEF Mem!Init, MemProofs!Init, Mem!Regions, MemProofs!Regions
  <1>3. [Mem!Next]_(Mem!vars) => [MemProofs!Next]_(MemProofs!vars)
    BY DEF Mem!vars, MemProofs!vars, Mem!Next, MemProofs!Next,
       Mem!createStackFrame, MemProofs!createStackFrame,
       Mem!destroyStackFrame, MemProofs!destroyStackFrame,
       Mem!destroyStackFrameEmpty, MemProofs!destroyStackFrameEmpty,
       Mem!allocateStack, MemProofs!allocateStack,
       Mem!allocateData, MemProofs!allocateData,
       Mem!Allocate, MemProofs!Allocate, Mem!Fits, MemProofs!Fits,
       Mem!AllocateFails, MemProofs!AllocateFails,
       Mem!resetHeap, MemProofs!resetHeap,
       Mem!CurrentBase, MemProofs!CurrentBase, Mem!FreeBases, MemProofs!FreeBases,
       Mem!Regions, MemProofs!Regions, Mem!IntAdd, MemProofs!IntAdd,
       Mem!alignOffsetUp, MemProofs!alignOffsetUp, Mem!ALIGNMENT, MemProofs!ALIGNMENT
  <1>4. MemProofs!IInv => Mem!TypeOK /\ Mem!BlocksDisjoint
    BY DEF MemProofs!IInv, MemProofs!TypeOK, Mem!TypeOK, MemProofs!BlockType,
       Mem!BlockType, MemProofs!Regions, Mem!Regions,
       MemProofs!BlocksDisjoint, Mem!BlocksDisjoint
  <1>5. MemProofs!Spec => []MemProofs!IInv
    BY <1>1, MemoryAssumption, MemProofs!Invariance, PTL DEF Mem!ConstantsAssumption
  <1>. QED
    BY <1>2, <1>3, <1>4, <1>5, PTL DEF Mem!Spec, MemProofs!Spec

\* What generated code does keeps the memory safe, if no request wraps.
LEMMA MemoryStaysSafe ==
  ASSUME Mem!RequestsFitInt
  PROVE  Spec => []/\ IInv
                   /\ Mem!TypeOK
                   /\ Mem!BlocksDisjoint
  BY MemoryIsSafe, GeneratedCodeUsesVMemory, Invariance, PTL

\* The saved addresses and the entries of the activations are addresses, the
\* blocks of a function are blocks (VMemory.java:113-138).
THEOREM TypeCorrect ==
  ASSUME Mem!RequestsFitInt
  PROVE  Spec => []TypeOK
  <1>1. IInv /\ Mem!TypeOK => TypeOK
    <2>. SUFFICES ASSUME IInv, Mem!TypeOK, NEW t \in Threads, NEW i \in DOMAIN calls[t]
                  PROVE  /\ calls[t][i].pc \in {"body", "calling"}
                         /\ calls[t][i].entry \in Nat
                         /\ calls[t][i].own \subseteq Mem!BlockType
      BY DEF TypeOK, IInv, Types
    <2>1. calls[t] \in Seq(Activations) /\ frames[t] \in Seq(Nat)
      BY DEF IInv, Types, Mem!TypeOK
    <2>2. /\ i \in 1 .. Len(calls[t]) /\ calls[t][i] \in Activations
          /\ Len(calls[t]) \in Nat /\ Len(frames[t]) \in Nat
      BY <2>1, LenProperties, ElementOfSeq
    <2>3. Left[t] \in Nat /\ Left[t] = Len(frames[t]) - Len(calls[t])
      BY LeftType DEF IInv, Left
    <2>4. Left[t] + i \in 1 .. Len(frames[t])
      BY <2>2, <2>3, FramePosition
    <2>5. frames[t][Left[t] + i] \in Nat
      BY <2>1, <2>4, ElementOfSeq
    <2>6. calls[t][i].entry \in Nat
      BY <2>5, FramesAt DEF IInv
    <2>7. calls[t][i].own \subseteq Mem!BlockType
      BY DEF IInv, LocalsStayLive, Mem!TypeOK
    <2>. QED
      BY <2>2, <2>6, <2>7 DEF Activations
  <1>. QED
    BY <1>1, MemoryStaysSafe, PTL

\* No byte is in the locals of two activations, whatever was rewound before
\* (VMemory.java:34-37, function.cc:62-110): the blocks of two activations are
\* different live blocks.
THEOREM LocalsStayApart ==
  ASSUME Mem!RequestsFitInt
  PROVE  Spec => []LocalsApart
  <1>1. IInv /\ Mem!BlocksDisjoint => LocalsApart
    <2>. SUFFICES ASSUME IInv, Mem!BlocksDisjoint,
                         NEW t \in Threads, NEW u \in Threads,
                         NEW i \in DOMAIN calls[t], NEW j \in DOMAIN calls[u],
                         <<t, i>> # <<u, j>>,
                         NEW a \in calls[t][i].own, NEW b \in calls[u][j].own
                  PROVE  a.addr + a.size <= b.addr \/ b.addr + b.size <= a.addr
      BY DEF LocalsApart
    <2>1. a \in live /\ b \in live
      BY DEF IInv, LocalsStayLive
    <2>2. /\ a.thread = t /\ a.depth = Left[t] + i
          /\ b.thread = u /\ b.depth = Left[u] + j
      BY DEF IInv, BlocksKnowTheirFrame
    <2>3. a # b
      <3>1. CASE t # u
        BY <3>1, <2>2
      <3>2. CASE t = u
        <4>1. i # j
          BY <3>2
        <4>2. Left[t] \in Nat /\ i \in Nat /\ j \in Nat
          <5>1. DOMAIN calls[t] = 1 .. Len(calls[t]) /\ Len(calls[t]) \in Nat
            BY LenProperties DEF IInv, Types
          <5>. QED
            BY <5>1, <3>2, LeftType DEF IInv
        <4>3. Left[t] + i # Left[t] + j
          BY <4>1, <4>2
        <4>. QED
          BY <4>3, <3>2, <2>2
      <3>. QED
        BY <3>1, <3>2
    <2>. QED
      BY <2>1, <2>3 DEF Mem!BlocksDisjoint
  <1>. QED
    BY <1>1, MemoryStaysSafe, PTL

-----------------------------------------------------------------------------
(* Generated classes, over the same memory.  LatestGlobalsLive is not       *)
(* inductive: that another thread's <clinit> does not free the globals of a *)
(* class needs to know that they lie in the heap of the one thread that     *)
(* initialised it, and that no class is initialised twice; that the globals *)
(* of two classes are apart follows from what is proved of the memory.      *)

HeapBlocks == [thread : Threads, kind : {"heap"}, addr : Int, size : Int, depth : {0}]

ClassTypes ==
  /\ base   \in [Mem!Regions -> Nat \cup {Unmapped}]
  /\ offset \in [Mem!Regions -> Int]
  /\ status \in [Classes -> {"unloaded", "defined", "initializing", "ready", "erroneous"}]
  /\ runner \in [Classes -> Threads \cup {NoClass}]
  /\ fields \in [Classes -> Seq(HeapBlocks)]
  /\ latest \in [Threads -> Classes \cup {NoClass}]

Begun(c) == status[c] \notin {"unloaded", "defined"}

\* A class that was not used yet has no globals.
FreshClassesAreEmpty == \A c \in Classes : ~Begun(c) => fields[c] = <<>>

GlobalsLieWithTheRunner ==
  \A c \in Classes : \A i \in DOMAIN fields[c] : fields[c][i].thread = runner[c]

LatestIsRun ==
  \A t \in Threads : latest[t] # NoClass =>
    latest[t] \in Classes /\ Begun(latest[t]) /\ runner[latest[t]] = t

LatestIsLive ==
  \A t \in Threads : latest[t] # NoClass => GlobalBlocks(latest[t]) \subseteq live

ClassesIInv == /\ ClassTypes
               /\ FreshClassesAreEmpty
               /\ GlobalsLieWithTheRunner
               /\ LatestIsRun
               /\ LatestIsLive

-----------------------------------------------------------------------------
(* Lemmas about the memory. *)

\* Touching a heap maps it once, and keeps the types (VMemory.java:148-164).
LEMMA HeapMapping ==
  ASSUME ClassTypes, NEW r \in Mem!Regions, NEW b \in Mem!CurrentBase(r),
         base' = [base EXCEPT ![r] = b]
  PROVE  b \in Nat /\ base' \in [Mem!Regions -> Nat \cup {Unmapped}]
  <1>1. b \in Nat
    BY MemoryAssumption DEF Mem!ConstantsAssumption, Mem!CurrentBase, Mem!FreeBases,
       ClassTypes
  <1>. QED
    BY <1>1 DEF ClassTypes

\* A reset frees the blocks of one heap and no other.
LEMMA ResetEffect ==
  ASSUME ClassTypes, NEW t \in Threads, Mem!resetHeap(t)
  PROVE  /\ base' \in [Mem!Regions -> Nat \cup {Unmapped}]
         /\ offset' \in [Mem!Regions -> Int]
         /\ \A blk \in live : blk.thread # t => blk \in live'
  <1>. DEFINE r == <<t, "heap">>
  <1>1. r \in Mem!Regions
    BY DEF Mem!Regions
  <1>2. PICK b \in Mem!CurrentBase(r) :
          /\ base'   = [base EXCEPT ![r] = b]
          /\ offset' = [offset EXCEPT ![r] = 0]
          /\ live'   = {blk \in live : ~(blk.thread = t /\ blk.kind = "heap")}
    BY DEF Mem!resetHeap
  <1>3. base' \in [Mem!Regions -> Nat \cup {Unmapped}]
    BY <1>1, <1>2, HeapMapping
  <1>. QED
    BY <1>2, <1>3 DEF ClassTypes

\* An allocation frees nothing and hands out a block of the thread's own heap.
LEMMA AllocateEffect ==
  ASSUME ClassTypes, NEW t \in Threads, NEW required \in Requests,
         Mem!allocateData(t, required)
  PROVE  /\ base' \in [Mem!Regions -> Nat \cup {Unmapped}]
         /\ offset' \in [Mem!Regions -> Int]
         /\ live \subseteq live'
         /\ \A blk \in live' \ live : blk \in HeapBlocks /\ blk.thread = t
  <1>. DEFINE r == <<t, "heap">>
  <1>1. r \in Mem!Regions
    BY DEF Mem!Regions
  <1>2. PICK b \in Mem!CurrentBase(r) :
          LET addr == Mem!alignOffsetUp(b + offset[r], Mem!ALIGNMENT) IN
          /\ base'   = [base EXCEPT ![r] = b]
          /\ offset' = [offset EXCEPT ![r] = addr + required - b]
          /\ live'   = live \cup {[thread |-> t, kind |-> "heap", addr |-> addr,
                                   size |-> required, depth |-> 0]}
    BY DEF Mem!allocateData, Mem!Allocate
  <1>. DEFINE addr == Mem!alignOffsetUp(b + offset[r], Mem!ALIGNMENT)
  <1>3. b \in Nat /\ base' \in [Mem!Regions -> Nat \cup {Unmapped}]
    BY <1>1, <1>2, HeapMapping
  <1>4. offset[r] \in Int /\ required \in Int
    BY <1>1, MemoryAssumption DEF ClassTypes, Mem!ConstantsAssumption
  <1>5. addr \in Int
    BY <1>3, <1>4 DEF Mem!alignOffsetUp, Mem!ALIGNMENT
  <1>6. /\ offset' = [offset EXCEPT ![r] = addr + required - b]
        /\ live'   = live \cup {[thread |-> t, kind |-> "heap", addr |-> addr,
                                 size |-> required, depth |-> 0]}
    BY <1>2
  <1>. HIDE DEF addr
  <1>7. addr + required - b \in Int
    BY <1>3, <1>4, <1>5
  <1>8. offset' \in [Mem!Regions -> Int]
    BY <1>6, <1>7 DEF ClassTypes
  <1>9. [thread |-> t, kind |-> "heap", addr |-> addr, size |-> required, depth |-> 0]
          \in HeapBlocks
    BY <1>4, <1>5 DEF HeapBlocks
  <1>. QED
    BY <1>3, <1>6, <1>8, <1>9

\* An allocation that fails maps the heap at most.
LEMMA FailureEffect ==
  ASSUME ClassTypes, NEW t \in Threads, NEW required, Mem!AllocateFails(t, "heap", required)
  PROVE  base' \in [Mem!Regions -> Nat \cup {Unmapped}] /\ UNCHANGED <<offset, live>>
  <1>1. <<t, "heap">> \in Mem!Regions
    BY DEF Mem!Regions
  <1>. QED
    BY <1>1, HeapMapping DEF Mem!AllocateFails

\* The next global variable has a size generated code may ask for.
LEMMA NextGlobalIsRequest ==
  ASSUME ClassTypes, NEW c \in Classes, Len(fields[c]) < Len(Globals[c])
  PROVE  NextGlobal(c) \in Requests
  <1>1. Len(fields[c]) \in Nat /\ Globals[c] \in Seq(Requests) /\ Len(Globals[c]) \in Nat
    BY GlobalsAssumption, LenProperties DEF ClassTypes, GlobalsAssumption
  <1>2. Len(fields[c]) + 1 \in 1 .. Len(Globals[c])
    BY <1>1
  <1>. QED
    BY <1>1, <1>2, ElementOfSeq DEF NextGlobal

-----------------------------------------------------------------------------
(* One lemma per kind of step. *)

LEMMA ClassesInitIInv == ClassesInit => ClassesIInv
  <1>. SUFFICES ASSUME ClassesInit PROVE ClassesIInv
    OBVIOUS
  <1>1. ClassTypes
    BY EmptySeq DEF ClassesInit, Mem!Init, ClassTypes
  <1>2. \A c \in Classes : fields[c] = <<>> /\ DOMAIN fields[c] = {}
    BY DEF ClassesInit
  <1>. QED
    BY <1>1, <1>2 DEF ClassesInit, ClassesIInv, FreshClassesAreEmpty,
       GlobalsLieWithTheRunner,
       LatestIsRun, LatestIsLive

\* A step that frees nothing and changes no fields, and takes no class back to
\* before its use.
LEMMA QuietStep ==
  ASSUME ClassesIInv, ClassTypes', UNCHANGED <<runner, fields, latest>>, live \subseteq live',
         \A c \in Classes : Begun(c) <=> Begun(c)'
  PROVE  ClassesIInv'
  <1>1. FreshClassesAreEmpty'
    BY DEF ClassesIInv, FreshClassesAreEmpty
  <1>2. GlobalsLieWithTheRunner'
    BY DEF ClassesIInv, GlobalsLieWithTheRunner
  <1>3. LatestIsRun'
    BY DEF ClassesIInv, LatestIsRun
  <1>4. LatestIsLive'
    BY DEF ClassesIInv, LatestIsLive, GlobalBlocks
  <1>. QED
    BY <1>1, <1>2, <1>3, <1>4 DEF ClassesIInv

\* <clinit> begins with a reset of the heap of its own thread (sections.cc:95).
LEMMA BeginStep ==
  ASSUME ClassesIInv, NEW t \in Threads, NEW c \in Classes, BeginClInit(t, c)
  PROVE  ClassesIInv'
  <1>1. /\ status[c] = "defined" /\ Mem!resetHeap(t)
        /\ status' = [status EXCEPT ![c] = "initializing"]
        /\ runner' = [runner EXCEPT ![c] = t]
        /\ latest' = [latest EXCEPT ![t] = c]
        /\ fields' = fields
    BY DEF BeginClInit
  <1>2. /\ base' \in [Mem!Regions -> Nat \cup {Unmapped}]
        /\ offset' \in [Mem!Regions -> Int]
        /\ \A blk \in live : blk.thread # t => blk \in live'
    BY <1>1, ResetEffect DEF ClassesIInv
  <1>3. ClassTypes'
    BY <1>1, <1>2 DEF ClassesIInv, ClassTypes
  <1>4. fields[c] = <<>> /\ DOMAIN fields[c] = {}
    BY <1>1 DEF ClassesIInv, FreshClassesAreEmpty, Begun
  <1>5. \A d \in Classes : Begun(d)' <=> Begun(d) \/ d = c
    BY <1>1 DEF ClassesIInv, ClassTypes, Begun
  <1>6. \A d \in Classes : d # c => runner'[d] = runner[d]
    BY <1>1 DEF ClassesIInv, ClassTypes
  <1>7. FreshClassesAreEmpty' /\ GlobalsLieWithTheRunner'
    BY <1>1, <1>4, <1>5, <1>6 DEF ClassesIInv, FreshClassesAreEmpty, GlobalsLieWithTheRunner
  <1>8. \A u \in Threads : latest'[u] # NoClass =>
          \/ u = t /\ latest'[u] = c
          \/ u # t /\ latest'[u] = latest[u] /\ latest[u] # c
    BY <1>1 DEF ClassesIInv, ClassTypes, LatestIsRun, Begun
  <1>9. runner'[c] = t
    BY <1>1 DEF ClassesIInv, ClassTypes
  <1>10. LatestIsRun'
    BY <1>5, <1>6, <1>8, <1>9 DEF ClassesIInv, LatestIsRun
  <1>11. LatestIsLive'
    <2>. SUFFICES ASSUME NEW u \in Threads, latest'[u] # NoClass,
                         NEW i \in DOMAIN fields[latest'[u]]
                  PROVE  fields[latest'[u]][i] \in live'
      BY <1>1 DEF LatestIsLive, GlobalBlocks
    <2>1. u # t /\ latest'[u] = latest[u]
      BY <1>4, <1>8
    <2>2. fields[latest[u]][i] \in live /\ fields[latest[u]][i].thread = u
      BY <2>1 DEF ClassesIInv, LatestIsLive, LatestIsRun, GlobalsLieWithTheRunner,
         GlobalBlocks
    <2>. QED
      BY <2>1, <2>2, <1>2
  <1>. QED
    BY <1>3, <1>7, <1>10, <1>11 DEF ClassesIInv

\* <clinit> allocates the next global variable (sections.cc:103).
LEMMA GlobalStep ==
  ASSUME ClassesIInv, NEW t \in Threads, NEW c \in Classes, AllocateGlobal(t, c)
  PROVE  ClassesIInv'
  <1>1. /\ status[c] = "initializing" /\ runner[c] = t
        /\ Len(fields[c]) < Len(Globals[c])
        /\ Mem!allocateData(t, NextGlobal(c))
        /\ UNCHANGED <<status, runner, latest>>
    BY DEF AllocateGlobal, Initializing
  <1>2. PICK block \in live' \ live : fields' = [fields EXCEPT ![c] = Append(@, block)]
    BY DEF AllocateGlobal
  <1>3. NextGlobal(c) \in Requests
    BY <1>1, NextGlobalIsRequest DEF ClassesIInv
  <1>4. /\ base' \in [Mem!Regions -> Nat \cup {Unmapped}]
        /\ offset' \in [Mem!Regions -> Int]
        /\ live \subseteq live'
        /\ block \in HeapBlocks /\ block.thread = t
    BY <1>1, <1>2, <1>3, AllocateEffect DEF ClassesIInv
  <1>5. /\ fields[c] \in Seq(HeapBlocks)
        /\ fields'[c] = Append(fields[c], block)
        /\ \A d \in Classes : d # c => fields'[d] = fields[d]
    BY <1>2 DEF ClassesIInv, ClassTypes
  <1>6. /\ Len(fields[c]) \in Nat /\ DOMAIN fields[c] = 1 .. Len(fields[c])
        /\ fields'[c] \in Seq(HeapBlocks) /\ Len(fields'[c]) = Len(fields[c]) + 1
        /\ \A i \in 1 .. Len(fields[c]) : fields'[c][i] = fields[c][i]
        /\ fields'[c][Len(fields[c]) + 1] = block
    BY <1>4, <1>5, AppendProperties, LenProperties
  <1>7. DOMAIN fields'[c] = 1 .. Len(fields[c]) + 1
    BY <1>6, LenProperties
  <1>8. \A i \in 1 .. Len(fields[c]) + 1 : i \in 1 .. Len(fields[c]) \/ i = Len(fields[c]) + 1
    BY <1>6
  <1>9. \A i \in DOMAIN fields'[c] :
          \/ i \in DOMAIN fields[c] /\ fields'[c][i] = fields[c][i]
          \/ fields'[c][i] = block
    BY <1>6, <1>7, <1>8
  <1>10. ClassTypes'
    BY <1>1, <1>2, <1>4, <1>5, <1>6 DEF ClassesIInv, ClassTypes
  <1>11. \A d \in Classes : Begun(d)' <=> Begun(d)
    BY <1>1 DEF Begun
  <1>12. Begun(c)
    BY <1>1 DEF Begun
  <1>13. FreshClassesAreEmpty'
    BY <1>5, <1>11, <1>12 DEF ClassesIInv, FreshClassesAreEmpty
  <1>14. GlobalsLieWithTheRunner'
    <2>. SUFFICES ASSUME NEW d \in Classes, NEW i \in DOMAIN fields'[d]
                  PROVE  fields'[d][i].thread = runner[d]
      BY <1>1 DEF GlobalsLieWithTheRunner
    <2>1. CASE d = c
      BY <2>1, <1>1, <1>4, <1>9 DEF ClassesIInv, GlobalsLieWithTheRunner
    <2>2. CASE d # c
      BY <2>2, <1>5 DEF ClassesIInv, GlobalsLieWithTheRunner
    <2>. QED
      BY <2>1, <2>2
  <1>15. LatestIsRun'
    BY <1>1, <1>11 DEF ClassesIInv, LatestIsRun
  <1>16. LatestIsLive'
    <2>. SUFFICES ASSUME NEW u \in Threads, latest[u] # NoClass,
                         NEW i \in DOMAIN fields'[latest[u]]
                  PROVE  fields'[latest[u]][i] \in live'
      BY <1>1 DEF LatestIsLive, GlobalBlocks
    <2>1. CASE latest[u] = c /\ fields'[c][i] = block
      BY <2>1, <1>2
    <2>2. CASE i \in DOMAIN fields[latest[u]] /\ fields'[latest[u]][i] = fields[latest[u]][i]
      BY <2>2, <1>4 DEF ClassesIInv, LatestIsLive, GlobalBlocks
    <2>. QED
      BY <2>1, <2>2, <1>5, <1>9 DEF ClassesIInv, LatestIsRun
  <1>. QED
    BY <1>10, <1>13, <1>14, <1>15, <1>16 DEF ClassesIInv

\* Every step, and every stutter, keeps the invariant.
LEMMA ClassesNextIInv == ClassesIInv /\ [ClassesNext]_memoryAndClasses => ClassesIInv'
  <1>. SUFFICES ASSUME ClassesIInv, [ClassesNext]_memoryAndClasses PROVE ClassesIInv'
    OBVIOUS
  <1>1. CASE UNCHANGED memoryAndClasses
    BY <1>1, QuietStep DEF memoryAndClasses, ClassesIInv, ClassTypes, Begun
  <1>2. ASSUME NEW c \in Classes, loadClass(c) PROVE ClassesIInv'
    BY <1>2, QuietStep DEF loadClass, ClassesIInv, ClassTypes, Begun
  <1>3. ASSUME NEW t \in Threads, NEW c \in Classes, BeginClInit(t, c) PROVE ClassesIInv'
    BY <1>3, BeginStep
  <1>4. ASSUME NEW t \in Threads, NEW c \in Classes, AllocateGlobal(t, c) PROVE ClassesIInv'
    BY <1>4, GlobalStep
  <1>5. ASSUME NEW t \in Threads, NEW c \in Classes, ClInitFails(t, c) PROVE ClassesIInv'
    <2>1. base' \in [Mem!Regions -> Nat \cup {Unmapped}] /\ UNCHANGED <<offset, live>>
      BY <1>5, FailureEffect DEF ClInitFails, ClassesIInv
    <2>. QED
      BY <2>1, <1>5, QuietStep DEF ClInitFails, Initializing, ClassesIInv, ClassTypes, Begun
  <1>6. ASSUME NEW t \in Threads, NEW c \in Classes, EndClInit(t, c) PROVE ClassesIInv'
    BY <1>6, QuietStep DEF EndClInit, Initializing, ClassesIInv, ClassTypes, Begun
  <1>7. ASSUME NEW t \in Threads, NEW required \in Requests, AllocateMemInfo(t, required)
        PROVE  ClassesIInv'
    <2>1. /\ base' \in [Mem!Regions -> Nat \cup {Unmapped}]
          /\ offset' \in [Mem!Regions -> Int]
          /\ live \subseteq live'
      BY <1>7, AllocateEffect, FailureEffect DEF AllocateMemInfo, ClassesIInv, ClassTypes
    <2>. QED
      BY <2>1, <1>7, QuietStep DEF AllocateMemInfo, classVars, ClassesIInv, ClassTypes,
         Begun
  <1>. QED
    BY <1>1, <1>2, <1>3, <1>4, <1>5, <1>6, <1>7 DEF ClassesNext, ClInitStep

-----------------------------------------------------------------------------
(* Theorems. *)

\* The inductive invariant holds in every state.
THEOREM ClassesInvariance == ClassesSpec => []ClassesIInv
  BY ClassesInitIInv, ClassesNextIInv, PTL DEF ClassesSpec

\* Classes and the Numba runtime use the memory through its operations only.
LEMMA ClassesUseVMemory == ClassesSpec => Mem!Spec
  <1>1. ClassesInit => Mem!Init
    BY DEF ClassesInit
  <1>2. ClassesIInv /\ [ClassesNext]_memoryAndClasses => [Mem!Next]_(Mem!vars)
    <2>. SUFFICES ASSUME ClassesIInv, [ClassesNext]_memoryAndClasses
                  PROVE  Mem!Next \/ UNCHANGED <<base, offset, frames, live>>
      BY DEF Mem!vars
    <2>1. CASE UNCHANGED memoryAndClasses
      BY <2>1 DEF memoryAndClasses
    <2>2. ASSUME NEW c \in Classes, loadClass(c)
          PROVE  UNCHANGED <<base, offset, frames, live>>
      BY <2>2 DEF loadClass
    <2>3. ASSUME NEW t \in Threads, NEW c \in Classes, BeginClInit(t, c)
          PROVE  Mem!Next
      BY <2>3 DEF BeginClInit, Mem!Next
    <2>4. ASSUME NEW t \in Threads, NEW c \in Classes,
                 AllocateGlobal(t, c) \/ ClInitFails(t, c)
          PROVE  Mem!Next
      <3>1. NextGlobal(c) \in Requests
        BY <2>4, NextGlobalIsRequest DEF AllocateGlobal, ClInitFails, ClassesIInv
      <3>. QED
        BY <3>1, <2>4 DEF AllocateGlobal, ClInitFails, Mem!Next
    <2>5. ASSUME NEW t \in Threads, NEW c \in Classes, EndClInit(t, c)
          PROVE  UNCHANGED <<base, offset, frames, live>>
      BY <2>5 DEF EndClInit
    <2>6. ASSUME NEW t \in Threads, NEW required \in Requests, AllocateMemInfo(t, required)
          PROVE  Mem!Next
      BY <2>6 DEF AllocateMemInfo, Mem!Next
    <2>. QED
      BY <2>1, <2>2, <2>3, <2>4, <2>5, <2>6 DEF ClassesNext, ClInitStep
  <1>. QED
    BY <1>1, <1>2, ClassesInvariance, PTL DEF ClassesSpec, Mem!Spec

\* The globals of the class that a thread initialised last stay allocated, and apart
\* from those of every other thread's last class (sections.cc:92-122,
\* VMemory.java:171-185).
THEOREM GlobalsStayLive ==
  ASSUME Mem!RequestsFitInt
  PROVE  ClassesSpec => []LatestGlobalsLive
  <1>1. ClassesIInv /\ Mem!BlocksDisjoint => LatestGlobalsLive
    <2>. SUFFICES ASSUME ClassesIInv, Mem!BlocksDisjoint, NEW t \in Threads,
                         latest[t] # NoClass
                  PROVE  /\ GlobalBlocks(latest[t]) \subseteq live
                         /\ \A u \in Threads \ {t} : latest[u] # NoClass =>
                              \A b \in GlobalBlocks(latest[t]), d \in GlobalBlocks(latest[u]) :
                                Apart(b, d)
      BY DEF LatestGlobalsLive
    <2>1. ASSUME NEW u \in Threads, latest[u] # NoClass, NEW b \in GlobalBlocks(latest[u])
          PROVE  b \in live /\ b.thread = u
      BY <2>1 DEF ClassesIInv, LatestIsLive, LatestIsRun, GlobalsLieWithTheRunner,
         GlobalBlocks
    <2>2. ASSUME NEW u \in Threads \ {t}, latest[u] # NoClass,
                 NEW b \in GlobalBlocks(latest[t]), NEW d \in GlobalBlocks(latest[u])
          PROVE  Apart(b, d)
      BY <2>1, <2>2 DEF Mem!BlocksDisjoint, Apart
    <2>. QED
      BY <2>1, <2>2
  <1>. QED
    BY <1>1, ClassesInvariance, ClassesUseVMemory, MemoryIsSafe, PTL

\* The fields of a class hold blocks of the memory.
LEMMA FieldsHoldBlocks ==
  ASSUME Mem!RequestsFitInt
  PROVE  ClassesSpec => [](fields \in [Classes -> Seq(Mem!BlockType)])
  <1>. DEFINE F == fields \in [Classes -> Seq(Mem!BlockType)]
  <1>1. ClassesInit => F
    BY EmptySeq DEF ClassesInit
  <1>2. F /\ ClassesIInv /\ Mem!TypeOK' /\ [ClassesNext]_memoryAndClasses => F'
    <2>. SUFFICES ASSUME F, ClassesIInv, Mem!TypeOK', [ClassesNext]_memoryAndClasses PROVE F'
      OBVIOUS
    <2>1. ASSUME NEW t \in Threads, NEW c \in Classes, AllocateGlobal(t, c) PROVE F'
      <3>1. PICK block \in live' : fields' = [fields EXCEPT ![c] = Append(@, block)]
        BY <2>1 DEF AllocateGlobal
      <3>2. block \in Mem!BlockType
        <4>1. live' \subseteq Mem!BlockType
          BY DEF Mem!TypeOK, Mem!BlockType
        <4>. QED
          BY <4>1
      <3>3. Append(fields[c], block) \in Seq(Mem!BlockType)
        BY <3>2, AppendProperties
      <3>. QED
        BY <3>1, <3>3
    <2>2. CASE UNCHANGED fields
      BY <2>2
    <2>. QED
      BY <2>1, <2>2 DEF ClassesNext, ClInitStep, loadClass, BeginClInit, ClInitFails,
         EndClInit,
         AllocateMemInfo, classVars, memoryAndClasses
  <1>. QED
    BY <1>1, <1>2, ClassesInvariance, ClassesUseVMemory, MemoryIsSafe, PTL DEF ClassesSpec

\* The state has its type (LLJVMClassLoader, sections.cc:42-122): whatever threads and
\* classes there are, static fields point to blocks of the memory.
THEOREM ClassesTypeCorrect ==
  ASSUME Mem!RequestsFitInt
  PROVE  ClassesSpec => []ClassesTypeOK
  <1>1. ClassesIInv /\ Mem!TypeOK /\ fields \in [Classes -> Seq(Mem!BlockType)]
          => ClassesTypeOK
    BY DEF ClassesIInv, ClassTypes, ClassesTypeOK
  <1>. QED
    BY <1>1, ClassesInvariance, FieldsHoldBlocks, ClassesUseVMemory, MemoryIsSafe, PTL
=============================================================================
