-------------------------- MODULE PyArrayHolderProofs --------------------------
(***************************************************************************)
(* Proofs about PyArrayHolder, for any holders, native blocks, arrays and  *)
(* moves of the collector.                                                 *)
(*                                                                         *)
(* MemoryIsOwned and DataStaysIntact are kept together: what one owner     *)
(* frees is no other owner's because their blocks are disjoint, and what   *)
(* one owner copied survives because the others free and write only what   *)
(* is theirs or free.  Only an owner is ever in the middle of with().      *)
(***************************************************************************)
EXTENDS PyArrayHolder, TLAPS

Pending == [array : Arrays \cup {Garbage}, addr : Places \cup {Garbage}]

\* An owner has a structure, and only an owner has a with() in progress.
OwnersHaveBlocks ==
  /\ \A h \in Owners : handle[h].holder \in Blocks
  /\ \A h \in Handles : pending[h] # Idle => h \in Owners /\ pending[h].array \in Arrays

IInv == /\ TypeOK
        /\ pending \in [Handles -> Pending]
        /\ stored \in [Handles -> [given : Arrays \cup {Garbage}, copied : Arrays \cup {Garbage}]]
        /\ OwnersHaveBlocks
        /\ MemoryIsOwned
        /\ DataStaysIntact

\* An open holder, owner or view, has a structure to read and to reshape.
OpenHaveBlocks == \A h \in Handles : handle[h].state = "open" => handle[h].holder \in Blocks

-----------------------------------------------------------------------------
(* Lemmas. *)

\* MemoryIsOwned, block by block.
LEMMA OwnedBlocks ==
  ASSUME IInv, failures = 0
  PROVE  /\ allocated \subseteq Blocks
         /\ \A h \in Owners : /\ handle[h].holder \in allocated
                              /\ Header(h).data \in allocated \cup {NoData}
                              /\ Header(h).data # handle[h].holder
         /\ \A h, o \in Owners : h # o => Owned(h) \cap Owned(o) = {}
         /\ \A b \in allocated : b \in leaked \/ \E h \in Owners : b \in Owned(h)
         /\ NoData \notin allocated
         /\ leaked \subseteq allocated
         /\ \A h \in Owners : Owned(h) \cap leaked = {}
  <1>1. allocated \subseteq Blocks /\ NoData \notin Blocks
    BY PyArrayAssumption DEF IInv, TypeOK, PyArrayAssumption
  <1>2. /\ allocated = leaked \cup UNION {Owned(h) : h \in Owners}
        /\ \A h \in Owners : Owned(h) \cap leaked = {}
        /\ \A h, o \in Owners : h # o => Owned(h) \cap Owned(o) = {}
        /\ \A h \in Owners : Header(h).data # handle[h].holder
    BY DEF IInv, MemoryIsOwned
  <1>3. \A h \in Owners : handle[h].holder \in Blocks
    BY DEF IInv, OwnersHaveBlocks
  <1>4. \A h \in Owners : handle[h].holder # NoData
    BY <1>1, <1>3
  <1>5. \A h \in Owners : Owned(h) \subseteq allocated
    BY <1>2
  <1>6. \A h \in Owners : handle[h].holder \in allocated
    BY <1>4, <1>5 DEF Owned
  <1>7. \A h \in Owners : Header(h).data \in allocated \cup {NoData}
    BY <1>5 DEF Owned
  <1>8. \A b \in allocated : b \in leaked \/ \E h \in Owners : b \in Owned(h)
    BY <1>2
  <1>. QED
    BY <1>1, <1>2, <1>6, <1>7, <1>8

\* The converse.
LEMMA BlocksOwned ==
  ASSUME \A h \in Owners : Owned(h) \subseteq allocated,
         \A b \in allocated : b \in leaked \/ \E h \in Owners : b \in Owned(h),
         leaked \subseteq allocated,
         \A h \in Owners : Owned(h) \cap leaked = {},
         \A h, o \in Owners : h # o => Owned(h) \cap Owned(o) = {},
         \A h \in Owners : Header(h).data # handle[h].holder
  PROVE  MemoryIsOwned
  <1>1. allocated = leaked \cup UNION {Owned(h) : h \in Owners}
    OBVIOUS
  <1>. QED
    BY <1>1 DEF MemoryIsOwned

\* And after a step.
LEMMA MemoryOwnedAfter ==
  ASSUME \A h \in Owners' : Owned(h)' \subseteq allocated',
         \A b \in allocated' : b \in leaked' \/ \E h \in Owners' : b \in Owned(h)',
         leaked' \subseteq allocated',
         \A h \in Owners' : Owned(h)' \cap leaked' = {},
         \A h, o \in Owners' : h # o => Owned(h)' \cap Owned(o)' = {},
         \A h \in Owners' : Header(h)'.data # handle'[h].holder
  PROVE  MemoryIsOwned'
  <1>1. allocated' = leaked' \cup UNION {Owned(h)' : h \in Owners'}
    OBVIOUS
  <1>. QED
    BY <1>1 DEF MemoryIsOwned

\* Java's wrapping multiplication yields a long.
LEMMA TimesIsWord ==
  ASSUME NEW x \in Int, NEW y \in Int
  PROVE  Times(x, y) \in -(WordMax + 1) .. WordMax
  <1>1. WordMax \in Nat
    BY PyArrayAssumption DEF PyArrayAssumption
  <1>. DEFINE p == x * y + WordMax + 1
              m == 2 * (WordMax + 1)
  <1>2. p \in Int /\ m \in Nat \ {0}
    BY <1>1
  <1>. HIDE DEF p, m
  <1>3. p % m \in 0 .. m - 1
    BY <1>2
  <1>. DEFINE r == p % m
  <1>. HIDE DEF r
  <1>4. r \in 0 .. 2 * (WordMax + 1) - 1
    BY <1>3 DEF r, m
  <1>5. r - (WordMax + 1) \in -(WordMax + 1) .. WordMax
    BY <1>1, <1>4
  <1>. QED
    BY <1>5 DEF Times, r, p, m

LEMMA BytesAreArrays ==
  ASSUME NEW p
  PROVE  BytesAt(p) \in Arrays \cup {Garbage}
  BY DEF BytesAt

LEMMA InitIInv == Init => IInv
  <1>. SUFFICES ASSUME Init PROVE IInv
    OBVIOUS
  <1>1. 0 \in -(WordMax + 1) .. WordMax /\ 0 \in 0 .. WordMax
    BY PyArrayAssumption DEF PyArrayAssumption
  <1>2. TypeOK
    BY <1>1 DEF Init, TypeOK, Zeroed, Unused
  <1>3. Owners = {}
    BY DEF Init, Owners, Unused
  <1>4. /\ pending \in [Handles -> Pending]
        /\ stored \in [Handles -> [given : Arrays \cup {Garbage}, copied : Arrays \cup {Garbage}]]
    BY DEF Init, Pending, Idle, Nothing
  <1>5. MemoryIsOwned /\ DataStaysIntact
    BY <1>3, BlocksOwned DEF Init, DataStaysIntact
  <1>. QED
    BY <1>2, <1>3, <1>4, <1>5 DEF IInv, OwnersHaveBlocks, Init, Idle

-----------------------------------------------------------------------------
(* One lemma per kind of step. *)

\* A step that leaves the memory and the data of every owner alone.
LEMMA QuietStep ==
  ASSUME IInv, TypeOK', OwnersHaveBlocks',
         pending' \in [Handles -> Pending],
         stored' \in [Handles -> [given : Arrays \cup {Garbage}, copied : Arrays \cup {Garbage}]],
         UNCHANGED <<allocated, contents, failures, leaked>>,
         Owners' = Owners,
         \A h \in Owners : handle'[h].holder = handle[h].holder,
         \A b \in Blocks : header'[b].data = header[b].data,
         \A h \in Owners : stored'[h] = stored[h]
  PROVE  IInv'
  <1>1. \A h \in Owners : Header(h)'.data = Header(h).data
    BY DEF IInv, OwnersHaveBlocks, Header
  <1>2. \A h \in Owners : Owned(h)' = Owned(h)
    BY <1>1 DEF Owned
  <1>3. MemoryIsOwned'
    <2>. SUFFICES ASSUME failures = 0 PROVE MemoryIsOwned'
      BY DEF MemoryIsOwned
    <2>1. /\ allocated = leaked \cup UNION {Owned(h) : h \in Owners}
          /\ \A h \in Owners : Owned(h) \cap leaked = {}
          /\ \A h, o \in Owners : h # o => Owned(h) \cap Owned(o) = {}
          /\ \A h \in Owners : Header(h).data # handle[h].holder
      BY DEF IInv, MemoryIsOwned
    <2>2. {Owned(h)' : h \in Owners} = {Owned(h) : h \in Owners}
      BY <1>2
    <2>. QED
      BY <2>1, <2>2, <1>1, <1>2 DEF MemoryIsOwned
  <1>4. DataStaysIntact'
    BY <1>1 DEF IInv, DataStaysIntact
  <1>. QED
    BY <1>3, <1>4 DEF IInv

\* An owner is constructed in a free block (PyArrayHolder.java, the constructor).
LEMMA ConstructStep ==
  ASSUME IInv, NEW h \in Handles, NEW state \in {"constructing", "open"},
         Construct(h, state),
         pending' \in [Handles -> Pending],
         \A o \in Handles : pending'[o] # Idle =>
            pending'[o].array \in Arrays /\ (o = h \/ pending[o] # Idle)
  PROVE  IInv'
  <1>1. handle[h] = Unused
    BY DEF Construct
  <1>2. PICK b \in Blocks \ allocated :
          /\ allocated' = allocated \cup {b}
          /\ header'    = [header EXCEPT ![b] = Zeroed]
          /\ layoutBy'  = [layoutBy EXCEPT ![b] = h]
          /\ handle'    = [handle EXCEPT ![h] =
                             [state |-> state, holder |-> b, owner |-> TRUE, numDim |-> 1]]
    BY DEF Construct
  <1>3. /\ stored' = [stored EXCEPT ![h] = Nothing]
        /\ UNCHANGED <<contents, place, moves, supported, failures, leaked>>
    BY DEF Construct
  <1>4. Zeroed \in [nitems : 0 .. WordMax, itemsize : 0 .. WordMax, data : Blocks \cup {NoData},
                    words : [0 .. 3 -> -(WordMax + 1) .. WordMax]]
    <2>1. 0 \in -(WordMax + 1) .. WordMax /\ 0 \in 0 .. WordMax
      BY PyArrayAssumption DEF PyArrayAssumption
    <2>. QED
      BY <2>1 DEF Zeroed
  <1>5. TypeOK'
    BY <1>2, <1>3, <1>4 DEF IInv, TypeOK
  <1>6. stored' \in [Handles -> [given : Arrays \cup {Garbage}, copied : Arrays \cup {Garbage}]]
    BY <1>3 DEF IInv, Nothing
  <1>7. /\ Owners' = Owners \cup {h} /\ h \notin Owners
        /\ handle'[h].holder = b
        /\ \A o \in Owners : handle'[o] = handle[o] /\ stored'[o] = stored[o]
    BY <1>1, <1>2, <1>3 DEF IInv, TypeOK, Owners, Unused
  <1>8. OwnersHaveBlocks'
    BY <1>7 DEF IInv, OwnersHaveBlocks
  <1>. SUFFICES MemoryIsOwned' /\ DataStaysIntact'
    BY <1>5, <1>6, <1>8 DEF IInv
  <1>. SUFFICES ASSUME failures = 0 PROVE MemoryIsOwned' /\ DataStaysIntact'
    BY <1>3 DEF MemoryIsOwned, DataStaysIntact
  <1>9. \A o \in Owners : handle[o].holder \in allocated /\ handle[o].holder # b
    BY <1>2, OwnedBlocks
  <1>10. /\ Header(h)' = Zeroed /\ Owned(h)' = {b}
    <2>1. header'[b] = Zeroed
      BY <1>2 DEF IInv, TypeOK
    <2>2. b # NoData
      BY PyArrayAssumption DEF PyArrayAssumption
    <2>. QED
      BY <2>1, <2>2, <1>7 DEF Header, Owned, Zeroed
  <1>11. \A o \in Owners : Header(o)' = Header(o) /\ Owned(o)' = Owned(o)
    <2>1. \A o \in Owners : Header(o)' = Header(o)
      BY <1>2, <1>7, <1>9 DEF IInv, TypeOK, Header
    <2>. QED
      BY <2>1, <1>7 DEF Owned
  <1>12. \A o \in Owners : Owned(o) \subseteq allocated
    BY OwnedBlocks DEF Owned
  <1>13. MemoryIsOwned'
    <2>1. \A o \in Owners' : Owned(o)' \subseteq allocated'
      BY <1>2, <1>7, <1>10, <1>11, <1>12
    <2>2. \A a \in allocated' : a \in leaked \/ \E o \in Owners' : a \in Owned(o)'
      BY <1>2, <1>7, <1>10, <1>11, OwnedBlocks
    <2>6. leaked \subseteq allocated' /\ \A o \in Owners' : Owned(o)' \cap leaked = {}
      BY <1>2, <1>7, <1>10, <1>11, OwnedBlocks
    <2>3. \A o, p \in Owners' : o # p => Owned(o)' \cap Owned(p)' = {}
      BY <1>2, <1>7, <1>10, <1>11, <1>12, OwnedBlocks
    <2>4. \A o \in Owners' : Header(o)'.data # handle'[o].holder
      <3>1. Zeroed.data # b
        BY PyArrayAssumption DEF PyArrayAssumption, Zeroed
      <3>. QED
        BY <3>1, <1>7, <1>10, <1>11, OwnedBlocks
    <2>5. allocated' = leaked' \cup UNION {Owned(o)' : o \in Owners'}
      BY <1>3, <2>1, <2>2, <2>6
    <2>. QED
      BY <1>3, <2>3, <2>4, <2>5, <2>6 DEF MemoryIsOwned
  <1>14. DataStaysIntact'
    BY <1>3, <1>7, <1>10, <1>11 DEF IInv, DataStaysIntact, Zeroed
  <1>. QED
    BY <1>13, <1>14

\* with() replaces the data of one owner (PyArrayHolder.java:195-229).
LEMMA SetArrayDataStep ==
  ASSUME IInv, NEW h \in Handles, setArrayData(h)
  PROVE  IInv'
  <1>. DEFINE a == pending[h].array
              s == handle[h].holder
              d == Header(h).data
              kept == allocated \ {d}
              bytes == BytesAt(pending[h].addr)
  <1>1. h \in Owners /\ a \in Arrays /\ s \in Blocks
    BY DEF setArrayData, IInv, OwnersHaveBlocks
  <1>2. AfterRelease(h) = kept
    BY <1>1 DEF AfterRelease, Owners
  <1>3. PICK b \in Blocks \ kept :
          /\ allocated' = kept \cup {b}
          /\ contents'  = [Forgotten(kept) EXCEPT ![b] = bytes]
          /\ header'    = [header EXCEPT ![s] =
               [nitems |-> Length[a], itemsize |-> ItemSize[a], data |-> b,
                words  |-> [@.words EXCEPT ![0] = Length[a], ![1] = ItemSize[a]]]]
          /\ handle'    = [handle EXCEPT ![h].state = "open", ![h].numDim = 1]
          /\ stored'    = [stored EXCEPT ![h] = [given |-> a, copied |-> bytes]]
    BY <1>2 DEF setArrayData
  <1>4. pending' = [pending EXCEPT ![h] = Idle] /\ UNCHANGED <<place, moves, supported, failures, leaked>>
    BY DEF setArrayData
  <1>5. bytes \in Arrays \cup {Garbage}
    BY BytesAreArrays
  <1>6. /\ Length[a] \in 0 .. WordMax /\ ItemSize[a] \in 0 .. WordMax
        /\ Length[a] \in -(WordMax + 1) .. WordMax
        /\ ItemSize[a] \in -(WordMax + 1) .. WordMax
    <2>1. WordMax \in Nat /\ Length[a] \in 0 .. WordMax /\ ItemSize[a] \in 1 .. WordMax
      BY <1>1, PyArrayAssumption DEF PyArrayAssumption
    <2>. QED
      BY <2>1
  <1>. HIDE DEF bytes
  <1>7. /\ header' \in [Blocks -> [nitems : 0 .. WordMax, itemsize : 0 .. WordMax, data : Blocks \cup {NoData},
                              words : [0 .. 3 -> -(WordMax + 1) .. WordMax]]]
        /\ header'[s].data = b
        /\ \A c \in Blocks : c # s => header'[c] = header[c]
    <2>. DEFINE W == [0 .. 3 -> -(WordMax + 1) .. WordMax]
                ws == [header[s].words EXCEPT ![0] = Length[a], ![1] = ItemSize[a]]
    <2>1. header[s].words \in W
      BY <1>1 DEF IInv, TypeOK
    <2>2. ws \in W
      BY <2>1, <1>6
    <2>3. header' = [header EXCEPT ![s] =
               [nitems |-> Length[a], itemsize |-> ItemSize[a], data |-> b, words |-> ws]]
      BY <1>1, <1>3 DEF IInv, TypeOK
    <2>. HIDE DEF ws, W
    <2>4. header \in [Blocks -> [nitems : 0 .. WordMax, itemsize : 0 .. WordMax, data : Blocks \cup {NoData},
                                 words : W]]
      BY DEF IInv, TypeOK, W
    <2>5. header' \in [Blocks -> [nitems : 0 .. WordMax, itemsize : 0 .. WordMax, data : Blocks \cup {NoData},
                                  words : W]]
      BY <2>2, <2>3, <2>4, <1>6
    <2>. QED
      BY <1>1, <2>3, <2>4, <2>5 DEF W
  <1>8. /\ handle' \in [Handles -> [state : {"unused", "constructing", "open"},
                             holder : Blocks \cup {NoData}, owner : BOOLEAN,
                             numDim : {1, 2}]]
        /\ \A o \in Handles : /\ handle'[o].holder = handle[o].holder
                              /\ handle'[o].owner = handle[o].owner
    <2>. DEFINE S == {"unused", "constructing", "open"}
                D == {1, 2}
                B == BOOLEAN
                R == Blocks \cup {NoData}
    <2>1. /\ handle \in [Handles -> [state : S, holder : R, owner : B, numDim : D]]
          /\ "open" \in S /\ 1 \in D
      BY DEF IInv, TypeOK
    <2>2. handle' = [handle EXCEPT ![h].state = "open", ![h].numDim = 1]
      BY <1>3
    <2>. HIDE DEF S, D, B, R
    <2>3. /\ handle' \in [Handles -> [state : S, holder : R, owner : B, numDim : D]]
          /\ \A o \in Handles : /\ handle'[o].holder = handle[o].holder
                                /\ handle'[o].owner = handle[o].owner
      BY ONLY <2>1, <2>2
    <2>. QED
      BY <2>3 DEF S, D, B, R
  <1>9. contents' \in [Blocks -> Arrays \cup {Garbage}]
    BY <1>3, <1>5 DEF IInv, TypeOK, Forgotten
  <1>10. TypeOK'
    BY <1>3, <1>4, <1>7, <1>8, <1>9 DEF IInv, TypeOK
  <1>11. /\ pending' \in [Handles -> Pending]
         /\ \A o \in Handles : pending'[o] = IF o = h THEN Idle ELSE pending[o]
    BY <1>4 DEF IInv, Pending, Idle
  <1>12. stored' \in [Handles -> [given : Arrays \cup {Garbage}, copied : Arrays \cup {Garbage}]]
    BY <1>1, <1>3, <1>5 DEF IInv
  <1>13. Owners' = Owners
    BY <1>8 DEF Owners
  <1>14. OwnersHaveBlocks'
    <2>1. \A o \in Owners : o \in Handles /\ handle[o].holder \in Blocks
      BY DEF IInv, OwnersHaveBlocks, Owners
    <2>2. \A o \in Owners : handle'[o].holder \in Blocks
      BY <2>1, <1>8
    <2>3. \A o \in Handles : pending[o] # Idle => o \in Owners /\ pending[o].array \in Arrays
      BY DEF IInv, OwnersHaveBlocks
    <2>4. \A o \in Handles : pending'[o] # Idle => o \in Owners /\ pending'[o].array \in Arrays
      BY <2>3, <1>11
    <2>. QED
      BY <2>2, <2>4, <1>13 DEF OwnersHaveBlocks
  <1>. SUFFICES ASSUME failures = 0 PROVE MemoryIsOwned' /\ DataStaysIntact'
    BY <1>4, <1>10, <1>11, <1>12, <1>14 DEF IInv, MemoryIsOwned, DataStaysIntact
  <1>15. /\ s \in allocated /\ d \in allocated \cup {NoData} /\ d # s
         /\ \A o \in Owners : o # h => /\ handle[o].holder \in allocated
                                       /\ handle[o].holder # s
                                       /\ Owned(o) \subseteq kept
    <2>1. s \in Owned(h) /\ (d # NoData => d \in Owned(h))
      BY <1>1, PyArrayAssumption DEF PyArrayAssumption, Owned
    <2>2. \A o \in Owners : handle[o].holder \in Owned(o)
      BY PyArrayAssumption DEF PyArrayAssumption, IInv, OwnersHaveBlocks, Owned
    <2>3. NoData \notin allocated /\ \A o \in Owners : Owned(o) \subseteq allocated
      BY OwnedBlocks DEF Owned
    <2>. QED
      BY <1>1, <2>1, <2>2, <2>3, OwnedBlocks
  <1>16. b # s /\ b # NoData
    BY <1>3, <1>15, PyArrayAssumption DEF PyArrayAssumption
  <1>17. Header(h)'.data = b /\ Owned(h)' = {s, b}
    BY <1>1, <1>7, <1>8, <1>16, PyArrayAssumption DEF PyArrayAssumption, Header, Owned
  <1>18. \A o \in Owners : o # h => Header(o)' = Header(o) /\ Owned(o)' = Owned(o)
    <2>1. \A o \in Owners : o \in Handles /\ handle[o].holder \in Blocks
      BY DEF IInv, OwnersHaveBlocks, Owners
    <2>2. \A o \in Owners : o # h => header'[handle'[o].holder] = header[handle[o].holder]
      BY <2>1, <1>7, <1>8, <1>15
    <2>3. \A o \in Owners : o # h => Header(o)' = Header(o)
      BY <2>2 DEF Header
    <2>. QED
      BY <2>1, <2>3, <1>8 DEF Owned
  <1>19. MemoryIsOwned'
    <2>1. \A o \in Owners : Owned(o)' \subseteq allocated'
      BY <1>3, <1>15, <1>17, <1>18
    <2>2. \A c \in allocated' : c \in leaked \/ \E o \in Owners : c \in Owned(o)'
      <3>. SUFFICES ASSUME NEW c \in kept, c \notin leaked
                    PROVE  \E o \in Owners : c \in Owned(o)'
        BY <1>1, <1>3, <1>17
      <3>1. PICK o \in Owners : c \in Owned(o)
        BY OwnedBlocks
      <3>2. CASE o = h
        BY <3>1, <3>2, <1>17 DEF Owned
      <3>3. CASE o # h
        BY <3>1, <3>3, <1>18
      <3>. QED
        BY <3>2, <3>3
    <2>3. \A o, p \in Owners : o # p => Owned(o)' \cap Owned(p)' = {}
      <3>1. \A o \in Owners : o # h => b \notin Owned(o) /\ s \notin Owned(o)
        <4>1. s \in Owned(h)
          BY <1>1, PyArrayAssumption DEF PyArrayAssumption, Owned
        <4>. QED
          BY <4>1, <1>1, <1>3, <1>15, OwnedBlocks
      <3>. QED
        BY <3>1, <1>17, <1>18, OwnedBlocks
    <2>4. \A o \in Owners : Header(o)'.data # handle'[o].holder
      BY <1>8, <1>16, <1>17, <1>18, OwnedBlocks DEF Owners
    <2>6. leaked \subseteq kept /\ \A o \in Owners : Owned(o)' \cap leaked = {}
      <3>1. leaked \subseteq kept
        <4>1. d # NoData => d \in Owned(h)
          BY DEF Owned
        <4>. QED
          BY <4>1, <1>1, OwnedBlocks
      <3>2. s \notin leaked /\ b \notin leaked
        BY <3>1, <1>1, <1>3, <1>15, OwnedBlocks, PyArrayAssumption DEF PyArrayAssumption, Owned
      <3>. QED
        BY <3>1, <3>2, <1>17, <1>18, OwnedBlocks
    <2>5. allocated' = leaked' \cup UNION {Owned(o)' : o \in Owners}
      BY <1>3, <1>4, <2>1, <2>2, <2>6
    <2>. QED
      BY <1>4, <1>13, <2>3, <2>4, <2>5, <2>6 DEF MemoryIsOwned
  <1>20. DataStaysIntact'
    <2>. SUFFICES ASSUME NEW o \in Owners, Header(o)'.data # NoData
                  PROVE  contents'[Header(o)'.data] = stored'[o].copied
      BY <1>13 DEF DataStaysIntact
    <2>1. CASE o = h
      <3>1. contents'[b] = bytes
        BY <1>3 DEF Forgotten
      <3>2. stored'[h].copied = bytes
        BY <1>1, <1>3 DEF IInv, Owners
      <3>. QED
        BY <2>1, <3>1, <3>2, <1>17
    <2>2. CASE o # h
      <3>1. Header(o)' = Header(o) /\ stored'[o] = stored[o]
        BY <2>2, <1>3, <1>18 DEF IInv, Owners
      <3>2. Header(o).data \in kept /\ Header(o).data # b
        BY <2>2, <3>1, <1>3, <1>15 DEF Owned
      <3>3. contents'[Header(o).data] = contents[Header(o).data]
        BY <3>2, <1>3, OwnedBlocks DEF Forgotten
      <3>. QED
        BY <3>1, <3>3 DEF IInv, DataStaysIntact
    <2>. QED
      BY <2>1, <2>2
  <1>. QED
    BY <1>19, <1>20

\* with() fails to allocate (PyArrayHolder.java:204-216).  What there is to free is
\* lost to the structure that still points to it; where there is nothing to free, an
\* open holder is as before and the structure of create(ar) is lost.
LEMMA FailStep ==
  ASSUME IInv, NEW h \in Handles, setArrayDataFails(h)
  PROVE  IInv'
  <1>. DEFINE s == handle[h].holder
  <1>1. /\ allocated' = AfterRelease(h)
        /\ handle'    = [handle EXCEPT ![h] = IF @.state = "open" THEN @ ELSE Unused]
        /\ pending'   = [pending EXCEPT ![h] = Idle]
        /\ leaked'    = IF handle[h].state = "open" THEN leaked ELSE leaked \cup {s}
        /\ contents'  = Forgotten(AfterRelease(h))
        /\ UNCHANGED <<header, place, moves, supported, stored, layoutBy>>
    BY DEF setArrayDataFails
  <1>2. h \in Owners /\ s \in Blocks
    BY DEF setArrayDataFails, IInv, OwnersHaveBlocks
  <1>3. /\ failures \in Nat /\ failures' \in Nat
        /\ failures' = 0 => failures = 0 /\ Header(h).data = NoData
    BY DEF setArrayDataFails, IInv, TypeOK
  <1>4. /\ handle' \in [Handles -> [state : {"unused", "constructing", "open"},
                                    holder : Blocks \cup {NoData}, owner : BOOLEAN,
                                    numDim : {1, 2}]]
        /\ \A o \in Handles : o # h => handle'[o] = handle[o]
        /\ handle'[h] = IF handle[h].state = "open" THEN handle[h] ELSE Unused
    BY <1>1 DEF IInv, TypeOK, Unused
  <1>5. TypeOK'
    <2>1. allocated' \subseteq Blocks /\ leaked' \subseteq Blocks
      BY <1>1, <1>2 DEF IInv, TypeOK, AfterRelease
    <2>2. contents' \in [Blocks -> Arrays \cup {Garbage}]
      BY <1>1 DEF IInv, TypeOK, Forgotten
    <2>. QED
      BY <1>1, <1>3, <1>4, <2>1, <2>2 DEF IInv, TypeOK
  <1>6. /\ pending' \in [Handles -> Pending]
        /\ \A o \in Handles : pending'[o] = IF o = h THEN Idle ELSE pending[o]
    BY <1>1 DEF IInv, Pending, Idle
  <1>7. \A o \in Owners' : o \in Owners /\ handle'[o] = handle[o]
    BY <1>4 DEF Owners, Unused
  <1>8. OwnersHaveBlocks'
    <2>1. \A o \in Owners' : handle'[o].holder \in Blocks
      BY <1>7 DEF IInv, OwnersHaveBlocks
    <2>2. \A o \in Handles : pending'[o] # Idle =>
            o # h /\ o \in Owners /\ pending'[o].array \in Arrays
      BY <1>6 DEF IInv, OwnersHaveBlocks
    <2>3. \A o \in Handles : pending'[o] # Idle => o \in Owners'
      BY <2>2, <1>4 DEF Owners
    <2>. QED
      BY <2>1, <2>2, <2>3 DEF OwnersHaveBlocks
  <1>9. stored' \in [Handles -> [given : Arrays \cup {Garbage}, copied : Arrays \cup {Garbage}]]
    BY <1>1 DEF IInv
  <1>. SUFFICES ASSUME failures' = 0 PROVE MemoryIsOwned' /\ DataStaysIntact'
    BY <1>5, <1>6, <1>8, <1>9 DEF IInv, MemoryIsOwned, DataStaysIntact
  <1>10. failures = 0 /\ Header(h).data = NoData
    BY <1>3
  <1>11. allocated' = allocated
    BY <1>1, <1>10, OwnedBlocks DEF AfterRelease
  <1>12. \A o \in Owners' : /\ Header(o)' = Header(o) /\ Owned(o)' = Owned(o)
                             /\ stored'[o] = stored[o]
    <2>1. \A o \in Owners' : Header(o)' = Header(o)
      BY <1>1, <1>7 DEF Header
    <2>. QED
      BY <2>1, <1>1, <1>7 DEF Owned
  <1>13. MemoryIsOwned'
    <2>1. \A o \in Owners : Owned(o) \subseteq allocated
      BY <1>10, OwnedBlocks DEF Owned
    <2>2. /\ \A o \in Owners' : Owned(o)' \subseteq allocated'
          /\ \A o, p \in Owners' : o # p => Owned(o)' \cap Owned(p)' = {}
          /\ \A o \in Owners' : Header(o)'.data # handle'[o].holder
      BY <2>1, <1>7, <1>10, <1>11, <1>12, OwnedBlocks
    <2>3. CASE handle[h].state = "open"
      <3>1. Owners' = Owners /\ leaked' = leaked
        BY <2>3, <1>1, <1>4 DEF Owners
      <3>2. /\ \A c \in allocated' : c \in leaked' \/ \E o \in Owners' : c \in Owned(o)'
            /\ leaked' \subseteq allocated' /\ \A o \in Owners' : Owned(o)' \cap leaked' = {}
        BY <3>1, <1>10, <1>11, <1>12, OwnedBlocks
      <3>. QED
        BY <3>2, <2>2, MemoryOwnedAfter
    <2>4. CASE handle[h].state # "open"
      <3>1. Owners' = Owners \ {h} /\ leaked' = leaked \cup {s}
        BY <2>4, <1>1, <1>4 DEF Owners, Unused
      <3>2. Owned(h) = {s}
        BY <1>2, <1>10, PyArrayAssumption DEF PyArrayAssumption, Owned
      <3>3. \A c \in allocated' : c \in leaked' \/ \E o \in Owners' : c \in Owned(o)'
        <4>. SUFFICES ASSUME NEW c \in allocated, c \notin leaked, c # s
                      PROVE  \E o \in Owners' : c \in Owned(o)'
          BY <3>1, <1>11
        <4>1. PICK o \in Owners : c \in Owned(o)
          BY <1>10, OwnedBlocks
        <4>. QED
          BY <4>1, <3>1, <3>2, <1>12
      <3>4. leaked' \subseteq allocated' /\ \A o \in Owners' : Owned(o)' \cap leaked' = {}
        BY <3>1, <3>2, <1>2, <1>10, <1>11, <1>12, OwnedBlocks
      <3>. QED
        BY <3>3, <3>4, <2>2, MemoryOwnedAfter
    <2>. QED
      BY <2>3, <2>4
  <1>14. DataStaysIntact'
    <2>. SUFFICES ASSUME NEW o \in Owners', Header(o)'.data # NoData
                  PROVE  contents'[Header(o)'.data] = stored'[o].copied
      BY DEF DataStaysIntact
    <2>1. /\ o \in Owners /\ Header(o)'.data = Header(o).data
          /\ Header(o).data \in allocated /\ Header(o).data \in Blocks
      BY <1>7, <1>10, <1>12, OwnedBlocks
    <2>2. contents'[Header(o).data] = contents[Header(o).data]
      BY <2>1, <1>1, <1>11 DEF Forgotten
    <2>3. contents[Header(o).data] = stored[o].copied
      BY <2>1, <1>10 DEF IInv, DataStaysIntact
    <2>. QED
      BY <2>1, <2>2, <2>3, <1>12
  <1>. QED
    BY <1>13, <1>14

\* create(ar) throws (ArrayUtils.java:66-71): the structure it allocated in a free
\* block is nobody's.
LEMMA CreateFailsStep ==
  ASSUME IInv, createWithFails
  PROVE  IInv'
  <1>1. PICK b \in Blocks \ allocated :
          /\ allocated' = allocated \cup {b}
          /\ leaked'    = leaked \cup {b}
          /\ header'    = [header EXCEPT ![b] = Zeroed]
    BY DEF createWithFails
  <1>2. UNCHANGED <<contents, handle, pending, place, moves, supported, failures, stored>>
    BY DEF createWithFails
  <1>3. Zeroed \in [nitems : 0 .. WordMax, itemsize : 0 .. WordMax, data : Blocks \cup {NoData},
                    words : [0 .. 3 -> -(WordMax + 1) .. WordMax]]
    <2>1. 0 \in -(WordMax + 1) .. WordMax /\ 0 \in 0 .. WordMax
      BY PyArrayAssumption DEF PyArrayAssumption
    <2>. QED
      BY <2>1 DEF Zeroed
  <1>4. TypeOK'
    BY <1>1, <1>2, <1>3 DEF IInv, TypeOK
  <1>5. Owners' = Owners /\ OwnersHaveBlocks'
    BY <1>2 DEF IInv, Owners, OwnersHaveBlocks
  <1>6. /\ pending' \in [Handles -> Pending]
        /\ stored' \in [Handles -> [given : Arrays \cup {Garbage}, copied : Arrays \cup {Garbage}]]
    BY <1>2 DEF IInv
  <1>. SUFFICES ASSUME failures = 0 PROVE MemoryIsOwned' /\ DataStaysIntact'
    BY <1>2, <1>4, <1>5, <1>6 DEF IInv, MemoryIsOwned, DataStaysIntact
  <1>7. \A o \in Owners : Header(o)' = Header(o) /\ Owned(o)' = Owned(o)
    <2>1. \A o \in Owners : handle[o].holder \in allocated /\ handle[o].holder # b
      BY <1>1, OwnedBlocks
    <2>2. \A o \in Owners : Header(o)' = Header(o)
      BY <2>1, <1>1, <1>2 DEF IInv, TypeOK, Header
    <2>. QED
      BY <2>2, <1>2 DEF Owned
  <1>8. MemoryIsOwned'
    <2>1. \A o \in Owners : Owned(o) \subseteq allocated
      BY OwnedBlocks DEF Owned
    <2>2. \A c \in allocated' : c \in leaked' \/ \E o \in Owners' : c \in Owned(o)'
      BY <1>1, <1>5, <1>7, OwnedBlocks
    <2>3. leaked' \subseteq allocated' /\ \A o \in Owners' : Owned(o)' \cap leaked' = {}
      BY <2>1, <1>1, <1>5, <1>7, OwnedBlocks
    <2>4. \A o \in Owners' : Owned(o)' \subseteq allocated'
      BY <2>1, <1>1, <1>5, <1>7
    <2>5. /\ \A o, p \in Owners' : o # p => Owned(o)' \cap Owned(p)' = {}
          /\ \A o \in Owners' : Header(o)'.data # handle'[o].holder
      BY <1>2, <1>5, <1>7, OwnedBlocks
    <2>. QED
      BY <2>2, <2>3, <2>4, <2>5, MemoryOwnedAfter
  <1>9. DataStaysIntact'
    BY <1>2, <1>5, <1>7 DEF IInv, DataStaysIntact
  <1>. QED
    BY <1>8, <1>9

\* close() of an owner frees its two blocks (PyArrayHolder.java:364-370).
LEMMA CloseOwnerStep ==
  ASSUME IInv, NEW h \in Handles, close(h), handle[h].owner
  PROVE  IInv'
  <1>. DEFINE s == handle[h].holder
              d == Header(h).data
              kept == allocated \ {d, s}
  <1>1. h \in Owners /\ s \in Blocks /\ pending[h] = Idle
    BY DEF close, Ready, IInv, OwnersHaveBlocks, Owners
  <1>2. /\ allocated' = kept
        /\ contents'  = Forgotten(kept)
        /\ header'    = [header EXCEPT ![s] = Zeroed]
        /\ handle'    = [handle EXCEPT ![h] = Unused]
        /\ stored'    = [stored EXCEPT ![h] = Nothing]
        /\ UNCHANGED <<pending, place, moves, supported, failures, leaked>>
    <2>1. AfterRelease(h) \ {s} = kept
      BY DEF AfterRelease
    <2>. QED
      BY <2>1 DEF close
  <1>3. Zeroed \in [nitems : 0 .. WordMax, itemsize : 0 .. WordMax, data : Blocks \cup {NoData},
                    words : [0 .. 3 -> -(WordMax + 1) .. WordMax]]
    <2>1. 0 \in -(WordMax + 1) .. WordMax /\ 0 \in 0 .. WordMax
      BY PyArrayAssumption DEF PyArrayAssumption
    <2>. QED
      BY <2>1 DEF Zeroed
  <1>4. header' \in [Blocks -> [nitems : 0 .. WordMax, itemsize : 0 .. WordMax, data : Blocks \cup {NoData},
                                words : [0 .. 3 -> -(WordMax + 1) .. WordMax]]]
    BY <1>2, <1>3 DEF IInv, TypeOK
  <1>5. allocated' \subseteq Blocks /\ contents' \in [Blocks -> Arrays \cup {Garbage}]
    BY <1>2 DEF IInv, TypeOK, Forgotten
  <1>6. handle' \in [Handles -> [state : {"unused", "constructing", "open"},
                                 holder : Blocks \cup {NoData}, owner : BOOLEAN,
                                 numDim : {1, 2}]]
    BY <1>2 DEF IInv, TypeOK, Unused
  <1>7. TypeOK'
    BY <1>2, <1>4, <1>5, <1>6 DEF IInv, TypeOK
  <1>8. stored' \in [Handles -> [given : Arrays \cup {Garbage}, copied : Arrays \cup {Garbage}]]
    BY <1>2 DEF IInv, Nothing
  <1>9. /\ Owners' = Owners \ {h}
        /\ \A o \in Owners : o # h => handle'[o] = handle[o] /\ stored'[o] = stored[o]
    BY <1>2 DEF IInv, TypeOK, Owners, Unused
  <1>10. OwnersHaveBlocks'
    <2>1. \A o \in Owners' : handle'[o].holder \in Blocks
      BY <1>9 DEF IInv, OwnersHaveBlocks
    <2>2. \A o \in Handles : pending'[o] # Idle => o \in Owners' /\ pending'[o].array \in Arrays
      BY <1>1, <1>2, <1>9 DEF IInv, OwnersHaveBlocks
    <2>. QED
      BY <2>1, <2>2 DEF OwnersHaveBlocks
  <1>. SUFFICES MemoryIsOwned' /\ DataStaysIntact'
    BY <1>2, <1>7, <1>8, <1>10 DEF IInv
  <1>. SUFFICES ASSUME failures = 0 PROVE MemoryIsOwned' /\ DataStaysIntact'
    BY <1>2 DEF MemoryIsOwned, DataStaysIntact
  <1>11. Owned(h) = {s, d} \ {NoData} /\ s \in Owned(h)
    BY <1>1, PyArrayAssumption DEF PyArrayAssumption, Owned
  <1>12. \A o \in Owners : o # h => /\ Owned(o) \subseteq kept
                                    /\ handle[o].holder \in Blocks
                                    /\ handle[o].holder # s
    <2>1. \A o \in Owners : /\ handle[o].holder \in Blocks
                            /\ handle[o].holder \in Owned(o)
                            /\ Owned(o) \subseteq allocated
                            /\ NoData \notin Owned(o)
      BY PyArrayAssumption, OwnedBlocks
         DEF PyArrayAssumption, IInv, OwnersHaveBlocks, Owned
    <2>2. \A o \in Owners : o # h => Owned(o) \cap Owned(h) = {}
      BY <1>1, OwnedBlocks
    <2>. QED
      BY <2>1, <2>2, <1>11
  <1>13. \A o \in Owners : o # h => Header(o)' = Header(o) /\ Owned(o)' = Owned(o)
    <2>1. \A c \in Blocks : c # s => header'[c] = header[c]
      BY <1>2 DEF IInv, TypeOK
    <2>2. \A o \in Owners : o # h => Header(o)' = Header(o)
      BY <2>1, <1>9, <1>12 DEF Header
    <2>. QED
      BY <2>2, <1>9 DEF Owned
  <1>14. MemoryIsOwned'
    <2>1. \A o \in Owners' : Owned(o)' \subseteq allocated'
      BY <1>2, <1>9, <1>12, <1>13
    <2>2. \A c \in allocated' : c \in leaked \/ \E o \in Owners' : c \in Owned(o)'
      <3>. SUFFICES ASSUME NEW c \in kept, c \notin leaked
                    PROVE  \E o \in Owners' : c \in Owned(o)'
        BY <1>2
      <3>1. PICK o \in Owners : c \in Owned(o)
        BY OwnedBlocks
      <3>2. o # h
        BY <3>1, <1>11
      <3>. QED
        BY <3>1, <3>2, <1>9, <1>13
    <2>3. \A o, p \in Owners' : o # p => Owned(o)' \cap Owned(p)' = {}
      BY <1>9, <1>13, OwnedBlocks
    <2>4. \A o \in Owners' : Header(o)'.data # handle'[o].holder
      BY <1>9, <1>13, OwnedBlocks
    <2>6. leaked \subseteq kept /\ \A o \in Owners' : Owned(o)' \cap leaked = {}
      <3>1. leaked \subseteq allocated /\ \A o \in Owners : Owned(o) \cap leaked = {}
        BY OwnedBlocks
      <3>. QED
        BY <3>1, <1>1, <1>9, <1>11, <1>13, OwnedBlocks
    <2>5. allocated' = leaked' \cup UNION {Owned(o)' : o \in Owners'}
      BY <1>2, <2>1, <2>2, <2>6
    <2>. QED
      BY <1>2, <2>3, <2>4, <2>5, <2>6 DEF MemoryIsOwned
  <1>15. DataStaysIntact'
    <2>. SUFFICES ASSUME NEW o \in Owners, o # h, Header(o).data # NoData
                  PROVE  contents'[Header(o).data] = stored[o].copied
      BY <1>9, <1>13 DEF DataStaysIntact
    <2>1. Header(o).data \in kept
      BY <1>12 DEF Owned
    <2>2. contents'[Header(o).data] = contents[Header(o).data]
      BY <2>1, <1>2, OwnedBlocks DEF Forgotten
    <2>. QED
      BY <2>2 DEF IInv, DataStaysIntact
  <1>. QED
    BY <1>14, <1>15

\* close() of a view, which frees nothing.
LEMMA CloseViewStep ==
  ASSUME IInv, NEW h \in Handles, close(h), ~handle[h].owner
  PROVE  IInv'
  <1>1. /\ handle' = [handle EXCEPT ![h] = Unused]
        /\ stored' = [stored EXCEPT ![h] = Nothing]
        /\ UNCHANGED <<allocated, contents, header, layoutBy, pending, place, moves, supported, failures, leaked>>
    BY DEF close
  <1>2. TypeOK'
    BY <1>1 DEF IInv, TypeOK, Unused
  <1>3. h \notin Owners /\ Owners' = Owners
    BY <1>1 DEF IInv, TypeOK, Owners, Unused
  <1>4. \A o \in Owners : handle'[o] = handle[o] /\ stored'[o] = stored[o]
    BY <1>1, <1>3 DEF IInv, TypeOK, Owners
  <1>5. OwnersHaveBlocks'
    BY <1>1, <1>3, <1>4 DEF IInv, OwnersHaveBlocks
  <1>6. stored' \in [Handles -> [given : Arrays \cup {Garbage}, copied : Arrays \cup {Garbage}]]
    BY <1>1 DEF IInv, Nothing
  <1>7. pending' \in [Handles -> Pending]
    BY <1>1 DEF IInv
  <1>. QED
    BY <1>1, <1>2, <1>3, <1>4, <1>5, <1>6, <1>7, QuietStep

\* create(addr, dim): a view owns nothing.
LEMMA ViewStep ==
  ASSUME IInv, NEW h \in Handles, NEW o \in Handles, NEW dim \in {1, 2},
         createView(h, o, dim)
  PROVE  IInv'
  <1>1. /\ handle[h] = Unused
        /\ handle' = [handle EXCEPT ![h] =
             [state |-> "open", holder |-> handle[o].holder, owner |-> FALSE, numDim |-> dim]]
        /\ UNCHANGED <<allocated, header, contents, pending, place, moves, supported, failures, leaked, stored>>
    BY DEF createView
  <1>2. TypeOK'
    BY <1>1 DEF IInv, TypeOK
  <1>3. h \notin Owners /\ Owners' = Owners
    BY <1>1 DEF IInv, TypeOK, Owners, Unused
  <1>4. \A p \in Owners : handle'[p] = handle[p]
    BY <1>1, <1>3 DEF IInv, TypeOK, Owners
  <1>5. OwnersHaveBlocks'
    BY <1>1, <1>3, <1>4 DEF IInv, OwnersHaveBlocks
  <1>6. /\ pending' \in [Handles -> Pending]
        /\ stored' \in [Handles -> [given : Arrays \cup {Garbage}, copied : Arrays \cup {Garbage}]]
    BY <1>1 DEF IInv
  <1>. QED
    BY <1>1, <1>2, <1>3, <1>4, <1>5, <1>6, QuietStep

\* with() takes the address of its array (PyArrayHolder.java:208-216).
LEMMA WithStep ==
  ASSUME IInv, NEW h \in Handles, NEW a \in Arrays, with(h, a)
  PROVE  IInv'
  <1>1. /\ handle[h].owner
        /\ pending' = [pending EXCEPT ![h] = [array |-> a, addr |-> place[a]]]
        /\ UNCHANGED <<allocated, header, contents, handle, place, moves, supported, failures, leaked, stored, layoutBy>>
    BY DEF with, ReadAddress
  <1>2. TypeOK' /\ Owners' = Owners
    BY <1>1 DEF IInv, TypeOK, Owners
  <1>3. pending' \in [Handles -> Pending]
    BY <1>1 DEF IInv, TypeOK, Pending
  <1>4. OwnersHaveBlocks'
    <2>1. \A p \in Handles : pending'[p] # Idle => p \in Owners /\ pending'[p].array \in Arrays
      BY <1>1 DEF IInv, OwnersHaveBlocks, Owners
    <2>. QED
      BY <2>1, <1>1, <1>2 DEF IInv, OwnersHaveBlocks
  <1>5. stored' \in [Handles -> [given : Arrays \cup {Garbage}, copied : Arrays \cup {Garbage}]]
    BY <1>1 DEF IInv
  <1>. QED
    BY <1>1, <1>2, <1>3, <1>4, <1>5, QuietStep

\* reshape1d and reshape2d write shape and strides only.
LEMMA LayoutStep ==
  ASSUME IInv, NEW h \in Handles, NEW numDim \in {1, 2},
         NEW words \in [0 .. 3 -> -(WordMax + 1) .. WordMax],
         Layout(h, words, numDim)
  PROVE  IInv'
  <1>1. /\ header' = [header EXCEPT ![handle[h].holder].words = words]
        /\ handle' = [handle EXCEPT ![h].numDim = numDim]
        /\ UNCHANGED <<allocated, contents, pending, place, moves, supported, failures, leaked, stored>>
    BY DEF Layout
  <1>2. /\ header' \in [Blocks -> [nitems : 0 .. WordMax, itemsize : 0 .. WordMax, data : Blocks \cup {NoData},
                                   words : [0 .. 3 -> -(WordMax + 1) .. WordMax]]]
        /\ \A b \in Blocks : header'[b].data = header[b].data
    <2>. DEFINE W == [0 .. 3 -> -(WordMax + 1) .. WordMax]
    <2>1. header \in [Blocks -> [nitems : 0 .. WordMax, itemsize : 0 .. WordMax, data : Blocks \cup {NoData},
                                 words : W]]
      BY DEF IInv, TypeOK
    <2>2. words \in W
      OBVIOUS
    <2>. HIDE DEF W
    <2>3. /\ header' \in [Blocks -> [nitems : 0 .. WordMax, itemsize : 0 .. WordMax, data : Blocks \cup {NoData},
                                     words : W]]
          /\ \A b \in Blocks : header'[b].data = header[b].data
      BY <2>1, <2>2, <1>1
    <2>. QED
      BY <2>3 DEF W
  <1>3. /\ handle' \in [Handles -> [state : {"unused", "constructing", "open"},
                                    holder : Blocks \cup {NoData}, owner : BOOLEAN,
                                    numDim : {1, 2}]]
        /\ \A o \in Handles : /\ handle'[o].holder = handle[o].holder
                              /\ handle'[o].owner = handle[o].owner
    <2>. DEFINE S == {"unused", "constructing", "open"}
                D == {1, 2}
                B == BOOLEAN
                R == Blocks \cup {NoData}
    <2>1. handle \in [Handles -> [state : S, holder : R, owner : B, numDim : D]] /\ numDim \in D
      BY DEF IInv, TypeOK
    <2>. HIDE DEF S, D, B, R
    <2>2. /\ handle' \in [Handles -> [state : S, holder : R, owner : B, numDim : D]]
          /\ \A o \in Handles : /\ handle'[o].holder = handle[o].holder
                                /\ handle'[o].owner = handle[o].owner
      BY <2>1, <1>1
    <2>. QED
      BY <2>2 DEF S, D, B, R
  <1>4. TypeOK'
    BY <1>1, <1>2, <1>3 DEF IInv, TypeOK
  <1>5. Owners' = Owners /\ \A o \in Owners : o \in Handles
    BY <1>3 DEF Owners
  <1>6. OwnersHaveBlocks'
    BY <1>1, <1>3, <1>5 DEF IInv, OwnersHaveBlocks
  <1>7. /\ pending' \in [Handles -> Pending]
        /\ stored' \in [Handles -> [given : Arrays \cup {Garbage}, copied : Arrays \cup {Garbage}]]
    BY <1>1 DEF IInv
  <1>. QED
    BY <1>1, <1>2, <1>3, <1>4, <1>5, <1>6, <1>7, QuietStep

\* The dimensions and strides the two operations write are longs.
LEMMA ReshapeStep ==
  ASSUME IInv, OpenHaveBlocks, NEW h \in Handles, NEW x \in Dims, NEW y \in Dims
  PROVE  /\ reshape2d(h, x, y) => IInv'
         /\ reshape1d(h, x) => IInv'
  <1>. DEFINE Word == -(WordMax + 1) .. WordMax
              size == Header(h).itemsize
              old  == Header(h).words
  <1>1. /\ x \in Word /\ y \in Word /\ x \in Int /\ y \in Int
    BY PyArrayAssumption DEF PyArrayAssumption
  <1>2. ASSUME Ready(h) PROVE old \in [0 .. 3 -> Word] /\ size \in 0 .. WordMax
    BY <1>2 DEF Ready, OpenHaveBlocks, IInv, TypeOK, Header
  <1>3. 0 .. WordMax \subseteq Word /\ 0 .. WordMax \subseteq Int
    BY PyArrayAssumption DEF PyArrayAssumption
  <1>4. ASSUME reshape2d(h, x, y) PROVE IInv'
    <2>. DEFINE words == [old EXCEPT ![0] = x, ![1] = y, ![2] = Times(y, size), ![3] = size]
    <2>1. Ready(h) /\ Layout(h, words, 2)
      BY <1>4 DEF reshape2d
    <2>2. size \in Word /\ Times(y, size) \in Word
      BY <2>1, <1>1, <1>2, <1>3, TimesIsWord
    <2>3. old \in [0 .. 3 -> Word]
      BY <2>1, <1>2
    <2>. HIDE DEF Word, size, old
    <2>4. words \in [0 .. 3 -> Word]
      BY <2>2, <2>3, <1>1
    <2>. HIDE DEF words
    <2>5. words \in [0 .. 3 -> -(WordMax + 1) .. WordMax]
      BY <2>4 DEF Word
    <2>. QED
      BY <2>1, <2>5, LayoutStep
  <1>5. ASSUME reshape1d(h, x) PROVE IInv'
    <2>. DEFINE words == [old EXCEPT ![0] = x, ![1] = size]
    <2>1. Ready(h) /\ Layout(h, words, 1)
      BY <1>5 DEF reshape1d
    <2>2. size \in Word /\ old \in [0 .. 3 -> Word]
      BY <2>1, <1>2, <1>3
    <2>. HIDE DEF Word, size, old
    <2>3. words \in [0 .. 3 -> Word]
      BY <2>2, <1>1
    <2>. HIDE DEF words
    <2>4. words \in [0 .. 3 -> -(WordMax + 1) .. WordMax]
      BY <2>3 DEF Word
    <2>. QED
      BY <2>1, <2>4, LayoutStep
  <1>. QED
    BY <1>4, <1>5

\* The collector moves an array, which no native block notices.
LEMMA MoveStep ==
  ASSUME IInv, NEW a \in Arrays, NEW p \in Places, Move(a, p)
  PROVE  IInv'
  <1>1. /\ place' = [place EXCEPT ![a] = p]
        /\ UNCHANGED <<allocated, header, contents, handle, pending, supported, failures, leaked, stored, layoutBy>>
    BY DEF Move
  <1>2. TypeOK' /\ Owners' = Owners /\ OwnersHaveBlocks'
    BY <1>1 DEF IInv, TypeOK, Owners, OwnersHaveBlocks
  <1>3. /\ pending' \in [Handles -> Pending]
        /\ stored' \in [Handles -> [given : Arrays \cup {Garbage}, copied : Arrays \cup {Garbage}]]
    BY <1>1 DEF IInv
  <1>. QED
    BY <1>1, <1>2, <1>3, QuietStep

\* create() and create(ar), PyArrayHolder.java: both allocate a structure.
LEMMA CreateSteps ==
  ASSUME IInv, NEW h \in Handles
  PROVE  /\ create(h) => IInv'
         /\ \A a \in Arrays : createWith(h, a) => IInv'
  <1>1. ASSUME create(h) PROVE IInv'
    <2>1. Construct(h, "open") /\ pending' = pending
      BY <1>1 DEF create
    <2>2. /\ pending' \in [Handles -> Pending]
          /\ \A o \in Handles : pending'[o] # Idle =>
               pending'[o].array \in Arrays /\ (o = h \/ pending[o] # Idle)
      BY <2>1 DEF IInv, OwnersHaveBlocks
    <2>. QED
      BY <2>1, <2>2, ConstructStep
  <1>2. ASSUME NEW a \in Arrays, createWith(h, a) PROVE IInv'
    <2>1. /\ Construct(h, "constructing")
          /\ pending' = [pending EXCEPT ![h] = [array |-> a, addr |-> place[a]]]
      BY <1>2 DEF createWith, ReadAddress
    <2>2. /\ pending' \in [Handles -> Pending]
          /\ \A o \in Handles : pending'[o] # Idle =>
               pending'[o].array \in Arrays /\ (o = h \/ pending[o] # Idle)
      BY <2>1 DEF IInv, TypeOK, OwnersHaveBlocks, Pending
    <2>. QED
      BY <2>1, <2>2, ConstructStep
  <1>. QED
    BY <1>1, <1>2

LEMMA NextIInv == IInv /\ OpenHaveBlocks /\ [Next]_vars => IInv'
  <1>. SUFFICES ASSUME IInv, OpenHaveBlocks, [Next]_vars PROVE IInv'
    OBVIOUS
  <1>1. CASE UNCHANGED vars
    <2>1. TypeOK' /\ Owners' = Owners /\ OwnersHaveBlocks'
      BY <1>1 DEF vars, IInv, TypeOK, Owners, OwnersHaveBlocks
    <2>2. /\ pending' \in [Handles -> Pending]
          /\ stored' \in [Handles -> [given : Arrays \cup {Garbage}, copied : Arrays \cup {Garbage}]]
      BY <1>1 DEF vars, IInv
    <2>. QED
      BY <1>1, <2>1, <2>2, QuietStep DEF vars
  <1>2. ASSUME NEW h \in Handles, create(h) \/ \E a \in Arrays : createWith(h, a)
        PROVE  IInv'
    BY <1>2, CreateSteps
  <1>3. ASSUME NEW h \in Handles, \E a \in Arrays : with(h, a) PROVE IInv'
    BY <1>3, WithStep
  <1>4. ASSUME NEW h \in Handles, \E o \in Handles, dim \in {1, 2} : createView(h, o, dim)
        PROVE  IInv'
    BY <1>4, ViewStep
  <1>5. ASSUME NEW h \in Handles, setArrayData(h) \/ setArrayDataFails(h) PROVE IInv'
    BY <1>5, SetArrayDataStep, FailStep
  <1>6. ASSUME NEW h \in Handles,
               \/ \E x, y \in Dims : reshape2d(h, x, y)
               \/ \E length \in Dims : reshape1d(h, length)
        PROVE  IInv'
    <2>1. ASSUME NEW x \in Dims, NEW y \in Dims, reshape2d(h, x, y) PROVE IInv'
      BY <2>1, ReshapeStep
    <2>2. ASSUME NEW length \in Dims, reshape1d(h, length) PROVE IInv'
      BY <2>2, ReshapeStep
    <2>. QED
      BY <1>6, <2>1, <2>2
  <1>7. ASSUME NEW h \in Handles, close(h) PROVE IInv'
    BY <1>7, CloseOwnerStep, CloseViewStep
  <1>8. ASSUME NEW a \in Arrays, NEW p \in Places, Move(a, p) PROVE IInv'
    BY <1>8, MoveStep
  <1>9. CASE createWithFails
    BY <1>9, CreateFailsStep
  <1>. QED
    BY <1>1, <1>2, <1>3, <1>4, <1>5, <1>6, <1>7, <1>8, <1>9 DEF Next

LEMMA NextOpenHaveBlocks == IInv /\ OpenHaveBlocks /\ [Next]_vars => OpenHaveBlocks'
  <1>. SUFFICES ASSUME IInv, OpenHaveBlocks, [Next]_vars PROVE OpenHaveBlocks'
    OBVIOUS
  <1>. USE DEF OpenHaveBlocks
  <1>0. handle \in [Handles -> [state : {"unused", "constructing", "open"},
                                holder : Blocks \cup {NoData}, owner : BOOLEAN,
                                numDim : {1, 2}]]
    BY DEF IInv, TypeOK
  <1>1. CASE UNCHANGED vars
    BY <1>1 DEF vars
  <1>2. ASSUME NEW h \in Handles, NEW state, Construct(h, state) PROVE OpenHaveBlocks'
    BY <1>0, <1>2 DEF Construct, IInv, TypeOK
  <1>3. ASSUME NEW h \in Handles, NEW a \in Arrays, with(h, a) PROVE OpenHaveBlocks'
    BY <1>3 DEF with
  <1>4. ASSUME NEW h \in Handles, NEW o \in Handles, NEW dim \in {1, 2}, createView(h, o, dim)
        PROVE  OpenHaveBlocks'
    BY <1>0, <1>4 DEF createView
  <1>5. ASSUME NEW h \in Handles, setArrayData(h) PROVE OpenHaveBlocks'
    <2>1. handle[h].holder \in Blocks /\ pending[h] # Idle
      BY <1>5 DEF setArrayData, IInv, OwnersHaveBlocks
    <2>2. handle' = [handle EXCEPT ![h].state = "open", ![h].numDim = 1]
      BY <1>5 DEF setArrayData
    <2>. QED
      BY <1>0, <2>1, <2>2
  <1>6. ASSUME NEW h \in Handles, setArrayDataFails(h) PROVE OpenHaveBlocks'
    BY <1>0, <1>6 DEF setArrayDataFails, Unused
  <1>7. ASSUME NEW h \in Handles, NEW words, NEW numDim, Layout(h, words, numDim)
        PROVE  OpenHaveBlocks'
    BY <1>0, <1>7 DEF Layout
  <1>8. ASSUME NEW h \in Handles, close(h) PROVE OpenHaveBlocks'
    BY <1>0, <1>8 DEF close, Unused
  <1>9. ASSUME NEW a \in Arrays, NEW p \in Places, Move(a, p) PROVE OpenHaveBlocks'
    BY <1>9 DEF Move
  <1>10. CASE createWithFails
    BY <1>10 DEF createWithFails
  <1>. QED
    BY <1>1, <1>2, <1>3, <1>4, <1>5, <1>6, <1>7, <1>8, <1>9, <1>10
       DEF Next, create, createWith, reshape1d, reshape2d

-----------------------------------------------------------------------------
(* Shape and strides. *)

ItemSizes == {0} \cup {ItemSize[a] : a \in Arrays}

\* The words of structure hd are a shape of n dimensions that covers its items,
\* and the strides to it.
Shaped(hd, n) ==
  /\ n = 1 => hd.words[0] = hd.nitems /\ hd.words[1] = hd.itemsize
  /\ n # 1 => /\ hd.words[0] * hd.words[1] = hd.nitems
              /\ hd.words[2] = hd.words[1] * hd.itemsize
              /\ hd.words[3] = hd.itemsize

ShapedFor(h) ==
  handle[h].state = "open" /\ layoutBy[handle[h].holder] = h => Shaped(Header(h), handle[h].numDim)

Laid == /\ layoutBy \in [Blocks -> Handles \cup {NoData}]
        /\ \A b \in Blocks : header[b].itemsize \in ItemSizes
        /\ \A h \in Handles : ShapedFor(h)

\* Products that fit are not wrapped.
LEMMA TimesFits ==
  ASSUME NEW x \in Int, NEW y \in Int, x * y \in -(WordMax + 1) .. WordMax
  PROVE  Times(x, y) = x * y
  <1>1. WordMax \in Nat
    BY PyArrayAssumption DEF PyArrayAssumption
  <1>. DEFINE p == x * y
              m == 2 * (WordMax + 1)
              r == (p + WordMax + 1) % m
  <1>. HIDE DEF p
  <1>2. p \in -(WordMax + 1) .. WordMax
    BY DEF p
  <1>3. m \in Nat \ {0} /\ p + WordMax + 1 \in 0 .. m - 1
    BY <1>1, <1>2
  <1>. HIDE DEF m
  <1>4. r = p + WordMax + 1
    BY <1>3
  <1>5. r - (WordMax + 1) = p
    BY <1>1, <1>2, <1>4
  <1>. QED
    BY <1>5 DEF Times, r, p, m

\* The other holders of the structure did not set its layout last.
LEMMA OthersStayShaped ==
  ASSUME Laid, NEW o \in Handles, handle'[o] = handle[o],
         layoutBy'[handle[o].holder] = o =>
           layoutBy[handle[o].holder] = o /\ header'[handle[o].holder] = header[handle[o].holder]
  PROVE  ShapedFor(o)'
  BY DEF Laid, ShapedFor, Header

LEMMA LaidStep ==
  ASSUME ProductsFit, IInv, OpenHaveBlocks, Laid, [Next]_vars
  PROVE  Laid'
  <1>0. /\ NoData \notin Blocks \cup Handles
        /\ WordMax \in Nat /\ Dims \subseteq Int
        /\ \A a \in Arrays : ItemSize[a] \in Int
        /\ layoutBy \in [Blocks -> Handles \cup {NoData}]
    BY PyArrayAssumption DEF PyArrayAssumption, Laid
  <1>h. handle \in [Handles -> [state : {"unused", "constructing", "open"},
                                holder : Blocks \cup {NoData}, owner : BOOLEAN,
                                numDim : {1, 2}]]
    BY DEF IInv, TypeOK
  <1>b. header \in [Blocks -> [nitems : 0 .. WordMax, itemsize : 0 .. WordMax,
                               data : Blocks \cup {NoData},
                               words : [0 .. 3 -> -(WordMax + 1) .. WordMax]]]
    BY DEF IInv, TypeOK
  <1>s. /\ \A b \in Blocks : header[b].itemsize \in ItemSizes
        /\ \A h \in Handles : ShapedFor(h)
    BY DEF Laid
  <1>1. CASE UNCHANGED vars
    BY <1>1 DEF vars, Laid, ShapedFor, Header
  <1>2. ASSUME NEW h \in Handles, NEW state, Construct(h, state) PROVE Laid'
    <2>1. PICK b \in Blocks \ allocated :
            /\ header'   = [header EXCEPT ![b] = Zeroed]
            /\ layoutBy' = [layoutBy EXCEPT ![b] = h]
            /\ handle'   = [handle EXCEPT ![h] =
                              [state |-> state, holder |-> b, owner |-> TRUE, numDim |-> 1]]
      BY <1>2 DEF Construct
    <2>2. Shaped(Zeroed, 1) /\ Zeroed.itemsize \in ItemSizes
      BY DEF Shaped, Zeroed, ItemSizes
    <2>3. /\ header'[b] = Zeroed /\ \A c \in Blocks \ {b} : header'[c] = header[c]
          /\ layoutBy'[b] = h /\ \A c \in Blocks \ {b} : layoutBy'[c] = layoutBy[c]
          /\ handle'[h].holder = b /\ handle'[h].numDim = 1
          /\ \A o \in Handles \ {h} : handle'[o] = handle[o]
      BY <2>1, <1>0, <1>h, <1>b
    <2>4. ShapedFor(h)'
      BY <2>2, <2>3 DEF ShapedFor, Header
    <2>5. ASSUME NEW o \in Handles \ {h} PROVE ShapedFor(o)'
      <3>1. CASE handle[o].state = "open"
        <4>1. handle[o].holder \in Blocks
          BY <3>1 DEF OpenHaveBlocks
        <4>. QED
          BY <2>3, <4>1, OthersStayShaped
      <3>2. CASE handle[o].state # "open"
        BY <2>3, <3>2 DEF ShapedFor
      <3>. QED
        BY <3>1, <3>2
    <2>6. layoutBy' \in [Blocks -> Handles \cup {NoData}]
      BY <2>1, <1>0
    <2>7. \A c \in Blocks : header'[c].itemsize \in ItemSizes
      BY <1>s, <2>2, <2>3
    <2>. QED
      BY <2>4, <2>5, <2>6, <2>7 DEF Laid
  <1>3. ASSUME NEW h \in Handles, NEW a \in Arrays, with(h, a) PROVE Laid'
    BY <1>3 DEF with, Laid, ShapedFor, Header
  <1>4. ASSUME NEW h \in Handles, NEW o \in Handles, NEW dim \in {1, 2}, createView(h, o, dim)
        PROVE  Laid'
    <2>1. /\ handle' = [handle EXCEPT ![h] =
               [state |-> "open", holder |-> handle[o].holder, owner |-> FALSE, numDim |-> dim]]
          /\ layoutBy' = [b \in Blocks |-> IF layoutBy[b] = h THEN NoData ELSE layoutBy[b]]
          /\ header' = header /\ handle[o].holder \in Blocks
      BY <1>4 DEF createView, OpenHaveBlocks
    <2>2. /\ layoutBy' \in [Blocks -> Handles \cup {NoData}]
          /\ \A b \in Blocks : layoutBy'[b] # h
          /\ \A b \in Blocks, v \in Handles : layoutBy'[b] = v => layoutBy[b] = v
      BY <2>1, <1>0
    <2>3. handle'[h].holder \in Blocks /\ \A v \in Handles \ {h} : handle'[v] = handle[v]
      BY <2>1, <1>h
    <2>4. ShapedFor(h)'
      BY <2>2, <2>3 DEF ShapedFor
    <2>5. ASSUME NEW v \in Handles \ {h} PROVE ShapedFor(v)'
      <3>1. CASE handle[v].state = "open"
        <4>1. handle[v].holder \in Blocks
          BY <3>1 DEF OpenHaveBlocks
        <4>. QED
          BY <2>1, <2>2, <2>3, <4>1, OthersStayShaped
      <3>2. CASE handle[v].state # "open"
        BY <2>3, <3>2 DEF ShapedFor
      <3>. QED
        BY <3>1, <3>2
    <2>. QED
      BY <1>s, <2>1, <2>2, <2>4, <2>5 DEF Laid
  <1>5. ASSUME NEW h \in Handles, setArrayDataFails(h) PROVE Laid'
    <2>1. /\ handle' = [handle EXCEPT ![h] = IF @.state = "open" THEN @ ELSE Unused]
          /\ header' = header /\ layoutBy' = layoutBy
      BY <1>5 DEF setArrayDataFails
    <2>2. \A o \in Handles : handle'[o] = handle[o] \/ handle'[o].state = "unused"
      BY <2>1, <1>h DEF Unused
    <2>3. \A o \in Handles : ShapedFor(o)'
      BY <1>s, <2>1, <2>2 DEF ShapedFor, Header
    <2>. QED
      BY <1>0, <1>s, <2>1, <2>3 DEF Laid
  \* A holder writes the words of its structure and takes its layout over.
  <1>6. ASSUME NEW h \in Handles, NEW hd, NEW n, handle[h].holder \in Blocks,
               header' = [header EXCEPT ![handle[h].holder] = hd],
               layoutBy' = [layoutBy EXCEPT ![handle[h].holder] = h],
               handle'[h].holder = handle[h].holder, handle'[h].numDim = n,
               \A o \in Handles \ {h} : handle'[o] = handle[o],
               hd.itemsize \in ItemSizes, Shaped(hd, n)
        PROVE  Laid'
    <2>. DEFINE s == handle[h].holder
    <2>1. /\ header'[s] = hd /\ \A c \in Blocks \ {s} : header'[c] = header[c]
          /\ layoutBy'[s] = h /\ \A c \in Blocks \ {s} : layoutBy'[c] = layoutBy[c]
      BY <1>6, <1>0, <1>b
    <2>2. ShapedFor(h)'
      BY <1>6, <2>1 DEF ShapedFor, Header
    <2>3. ASSUME NEW o \in Handles \ {h} PROVE ShapedFor(o)'
      <3>1. CASE handle[o].state = "open"
        <4>1. handle[o].holder \in Blocks
          BY <3>1 DEF OpenHaveBlocks
        <4>. QED
          BY <1>6, <2>1, <4>1, OthersStayShaped
      <3>2. CASE handle[o].state # "open"
        BY <1>6, <3>2 DEF ShapedFor
      <3>. QED
        BY <3>1, <3>2
    <2>4. layoutBy' \in [Blocks -> Handles \cup {NoData}]
      BY <1>6, <1>0
    <2>5. \A c \in Blocks : header'[c].itemsize \in ItemSizes
      BY <1>6, <1>s, <2>1
    <2>. QED
      BY <2>2, <2>3, <2>4, <2>5 DEF Laid
  <1>7. ASSUME NEW h \in Handles, setArrayData(h) PROVE Laid'
    <2>1. handle[h].holder \in Blocks /\ pending[h].array \in Arrays /\ pending[h] # Idle
      BY <1>7 DEF setArrayData, IInv, OwnersHaveBlocks
    <2>2. PICK b \in Blocks :
            /\ header'   = [header EXCEPT ![handle[h].holder] =
                 [nitems |-> Length[pending[h].array], itemsize |-> ItemSize[pending[h].array],
                  data |-> b,
                  words |-> [@.words EXCEPT ![0] = Length[pending[h].array],
                                            ![1] = ItemSize[pending[h].array]]]]
            /\ handle'   = [handle EXCEPT ![h].state = "open", ![h].numDim = 1]
            /\ layoutBy' = [layoutBy EXCEPT ![handle[h].holder] = h]
      BY <1>7 DEF setArrayData
    <2>. DEFINE a == pending[h].array
                s == handle[h].holder
                w == [header[s].words EXCEPT ![0] = Length[a], ![1] = ItemSize[a]]
                hd == [nitems |-> Length[a], itemsize |-> ItemSize[a], data |-> b, words |-> w]
    <2>3. header' = [header EXCEPT ![s] = hd]
      BY <2>2
    <2>4. w[0] = Length[a] /\ w[1] = ItemSize[a]
      BY <2>1, <1>b
    <2>5. Shaped(hd, 1) /\ hd.itemsize \in ItemSizes
      BY <2>1, <2>4 DEF Shaped, ItemSizes
    <2>6. /\ handle'[h].holder = s /\ handle'[h].numDim = 1
          /\ \A o \in Handles \ {h} : handle'[o] = handle[o]
      BY <2>2, <1>h
    <2>. HIDE DEF hd
    <2>. QED
      BY <1>6, <2>1, <2>2, <2>3, <2>5, <2>6
  <1>8. ASSUME NEW h \in Handles, NEW w, NEW n \in {1, 2}, Ready(h), Layout(h, w, n),
               Shaped([Header(h) EXCEPT !.words = w], n)
        PROVE  Laid'
    <2>. DEFINE s == handle[h].holder
                hd == [header[s] EXCEPT !.words = w]
    <2>1. s \in Blocks
      BY <1>8 DEF Ready, OpenHaveBlocks
    <2>2. /\ header' = [header EXCEPT ![s] = hd]
          /\ layoutBy' = [layoutBy EXCEPT ![s] = h]
          /\ handle' = [handle EXCEPT ![h].numDim = n]
      BY <1>8, <2>1, <1>b DEF Layout
    <2>3. hd.itemsize \in ItemSizes /\ Shaped(hd, n)
      BY <1>8, <1>s, <1>b, <2>1 DEF Header
    <2>4. /\ handle'[h].holder = s /\ handle'[h].numDim = n
          /\ \A o \in Handles \ {h} : handle'[o] = handle[o]
      BY <2>2, <1>h
    <2>. HIDE DEF hd
    <2>. QED
      BY <1>6, <2>1, <2>2, <2>3, <2>4
  <1>9. ASSUME NEW h \in Handles, NEW x \in Dims, NEW y \in Dims, reshape2d(h, x, y) PROVE Laid'
    <2>. DEFINE s == handle[h].holder
                z == header[s].itemsize
                w == [header[s].words EXCEPT ![0] = x, ![1] = y, ![2] = Times(y, z), ![3] = z]
                hd == [header[s] EXCEPT !.words = w]
    <2>1. s \in Blocks /\ Ready(h) /\ header[s].nitems = Times(x, y) /\ Layout(h, w, 2)
      BY <1>9 DEF reshape2d, Ready, OpenHaveBlocks, Header
    <2>2. z \in ItemSizes /\ z \in Int /\ x \in Int /\ y \in Int
      BY <1>0, <1>s, <1>b, <2>1
    <2>. HIDE DEF z
    <2>3. y * z \in -(WordMax + 1) .. WordMax
      <3>1. CASE z = 0
        <4>1. y * z = 0
          BY <2>2, <3>1
        <4>. QED
          BY <1>0, <4>1
      <3>2. CASE \E a \in Arrays : z = ItemSize[a]
        BY <3>2 DEF ProductsFit
      <3>. QED
        BY <2>2, <3>1, <3>2 DEF ItemSizes
    <2>4. Times(x, y) = x * y /\ Times(y, z) = y * z
      BY <2>2, <2>3, TimesFits DEF ProductsFit
    <2>5. w[0] = x /\ w[1] = y /\ w[2] = Times(y, z) /\ w[3] = z
      BY <2>1, <1>b
    <2>6. hd.words = w /\ hd.nitems = header[s].nitems /\ hd.itemsize = z
      BY <2>1, <1>b DEF z
    <2>. HIDE DEF w, hd
    <2>7. Shaped(hd, 2)
      BY <2>1, <2>4, <2>5, <2>6 DEF Shaped
    <2>. QED
      BY <1>8, <2>1, <2>7 DEF Header, hd
  <1>10. ASSUME NEW h \in Handles, NEW length \in Dims, reshape1d(h, length) PROVE Laid'
    <2>. DEFINE s == handle[h].holder
                z == header[s].itemsize
                w == [header[s].words EXCEPT ![0] = length, ![1] = z]
                hd == [header[s] EXCEPT !.words = w]
    <2>1. s \in Blocks /\ Ready(h) /\ header[s].nitems = length /\ Layout(h, w, 1)
      BY <1>10 DEF reshape1d, Ready, OpenHaveBlocks, Header
    <2>2. w[0] = length /\ w[1] = z
      BY <2>1, <1>b
    <2>3. hd.words = w /\ hd.nitems = header[s].nitems /\ hd.itemsize = z
      BY <2>1, <1>b
    <2>. HIDE DEF w, hd, z
    <2>4. Shaped(hd, 1)
      BY <2>1, <2>2, <2>3 DEF Shaped
    <2>. QED
      BY <1>8, <2>1, <2>4 DEF Header, hd
  <1>11. ASSUME NEW h \in Handles, close(h) PROVE Laid'
    <2>. DEFINE s == handle[h].holder
    <2>1. /\ handle' = [handle EXCEPT ![h] = Unused] /\ s \in Blocks
          /\ \/ /\ header'   = [header EXCEPT ![s] = Zeroed]
                /\ layoutBy' = [layoutBy EXCEPT ![s] = NoData]
             \/ header' = header /\ layoutBy' = layoutBy
      BY <1>11 DEF close, Ready, OpenHaveBlocks
    <2>2. /\ handle'[h].state = "unused"
          /\ \A o \in Handles \ {h} : handle'[o] = handle[o]
      BY <2>1, <1>h DEF Unused
    <2>3. /\ layoutBy' \in [Blocks -> Handles \cup {NoData}]
          /\ \A b \in Blocks, o \in Handles :
               layoutBy'[b] = o => layoutBy[b] = o /\ header'[b] = header[b]
      BY <2>1, <1>0, <1>b
    <2>4. ASSUME NEW o \in Handles \ {h} PROVE ShapedFor(o)'
      <3>1. CASE handle[o].state = "open"
        <4>1. handle[o].holder \in Blocks
          BY <3>1 DEF OpenHaveBlocks
        <4>. QED
          BY <2>2, <2>3, <4>1, OthersStayShaped
      <3>2. CASE handle[o].state # "open"
        BY <2>2, <3>2 DEF ShapedFor
      <3>. QED
        BY <3>1, <3>2
    <2>5. ShapedFor(h)'
      BY <2>2 DEF ShapedFor
    <2>6. \A c \in Blocks : header'[c].itemsize \in ItemSizes
      BY <1>s, <1>b, <2>1 DEF Zeroed, ItemSizes
    <2>. QED
      BY <2>3, <2>4, <2>5, <2>6 DEF Laid
  <1>12. ASSUME NEW a \in Arrays, NEW p \in Places, Move(a, p) PROVE Laid'
    BY <1>12 DEF Move, Laid, ShapedFor, Header
  <1>13. CASE createWithFails
    <2>1. PICK b \in Blocks \ allocated :
            /\ header'   = [header EXCEPT ![b] = Zeroed]
            /\ layoutBy' = [layoutBy EXCEPT ![b] = NoData]
            /\ handle'   = handle
      BY <1>13 DEF createWithFails
    <2>2. /\ layoutBy' \in [Blocks -> Handles \cup {NoData}]
          /\ \A c \in Blocks, o \in Handles :
               layoutBy'[c] = o => layoutBy[c] = o /\ header'[c] = header[c]
      BY <2>1, <1>0, <1>b
    <2>3. ASSUME NEW o \in Handles PROVE ShapedFor(o)'
      <3>1. CASE handle[o].state = "open"
        <4>1. handle[o].holder \in Blocks
          BY <3>1 DEF OpenHaveBlocks
        <4>. QED
          BY <2>1, <2>2, <4>1, OthersStayShaped
      <3>2. CASE handle[o].state # "open"
        BY <2>1, <3>2 DEF ShapedFor
      <3>. QED
        BY <3>1, <3>2
    <2>4. \A c \in Blocks : header'[c].itemsize \in ItemSizes
      BY <1>s, <1>b, <2>1 DEF Zeroed, ItemSizes
    <2>. QED
      BY <2>2, <2>3, <2>4 DEF Laid
  <1>. QED
    BY <1>1, <1>2, <1>3, <1>4, <1>5, <1>7, <1>9, <1>10, <1>11, <1>12, <1>13
       DEF Next, create, createWith

-----------------------------------------------------------------------------
(* The theorems. *)

\* IInv and OpenHaveBlocks are kept by every step; neither is without the other,
\* since a reshape writes the words of the structure it reads.
THEOREM Invariance == Spec => [](IInv /\ OpenHaveBlocks)
  <1>1. Init => OpenHaveBlocks
    BY DEF Init, OpenHaveBlocks, Unused
  <1>2. IInv /\ OpenHaveBlocks /\ [Next]_vars => (IInv /\ OpenHaveBlocks)'
    BY NextIInv, NextOpenHaveBlocks
  <1>. QED
    BY <1>1, <1>2, InitIInv, PTL DEF Spec

\* Every item count, item size, dimension and stride in a structure is a long,
\* because reshape multiplies as Java does.
THEOREM TypeCorrect == Spec => []TypeOK
  <1>1. IInv => TypeOK
    BY DEF IInv
  <1>. QED
    BY <1>1, Invariance, PTL

\* PyArrayHolder.java:195-209, 364-370: however many holders share the native
\* heap, each allocated block belongs to one open owner or is the structure of a
\* create(ar) that threw, until an allocation fails after the old data was freed.
THEOREM MemoryHasOneOwner == Spec => []MemoryIsOwned
  <1>1. IInv => MemoryIsOwned
    BY DEF IInv
  <1>. QED
    BY <1>1, Invariance, PTL

\* PyArrayHolder.java:204-229: the bytes with() copied are there until the same
\* owner replaces or frees them, whatever the other holders free and allocate.
THEOREM DataSurvives == Spec => []DataStaysIntact
  <1>1. IInv => DataStaysIntact
    BY DEF IInv
  <1>. QED
    BY <1>1, Invariance, PTL

\* PyArrayHolder.java:148-193, 221-228: whatever holders share a structure and
\* reshape it, the one that last set the layout reads a shape that covers the
\* items and row-major strides, for dimensions whose products do not wrap.
THEOREM LayoutsMatch == ASSUME ProductsFit PROVE Spec => []LayoutMatchesItems
  <1>1. Init => Laid
    BY PyArrayAssumption DEF Init, Laid, ShapedFor, Zeroed, Unused, ItemSizes
  <1>2. IInv /\ OpenHaveBlocks /\ Laid /\ [Next]_vars => Laid'
    BY LaidStep
  <1>3. ASSUME IInv, Laid PROVE LayoutMatchesItems
    <2>. SUFFICES ASSUME NEW h \in Handles, handle[h].state = "open",
                         layoutBy[handle[h].holder] = h
                  PROVE  LET w == Header(h).words
                             n == handle[h].numDim
                         IN /\ Header(h).nitems = IF n = 1 THEN w[0] ELSE w[0] * w[1]
                            /\ w[n] = IF n = 1 THEN Header(h).itemsize
                                               ELSE w[1] * Header(h).itemsize
                            /\ w[2 * n - 1] = Header(h).itemsize
      BY DEF LayoutMatchesItems
    <2>1. Shaped(Header(h), handle[h].numDim)
      BY <1>3 DEF Laid, ShapedFor
    <2>2. handle[h].numDim \in {1, 2}
      BY <1>3 DEF IInv, TypeOK
    <2>3. CASE handle[h].numDim = 1
      BY <2>1, <2>3 DEF Shaped
    <2>4. CASE handle[h].numDim = 2
      BY <2>1, <2>4 DEF Shaped
    <2>. QED
      BY <2>2, <2>3, <2>4
  <1>. QED
    BY <1>1, <1>2, <1>3, Invariance, PTL DEF Spec
==============================================================================
