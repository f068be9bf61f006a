---------------------------- MODULE PyArrayHolder ----------------------------
(***************************************************************************)
(* Arrays handed to Numba code: python/.../util/python/PyArrayHolder.java. *)
(*                                                                         *)
(* An owner allocates a native block for the array structure and, in       *)
(* with(), one for the data, and frees both in close(); a view, made by    *)
(* create(addr, dim), only reads and reshapes a structure it does not own. *)
(* Shape and strides share four words of the structure; where the strides  *)
(* begin depends on the number of dimensions, which each Java object keeps *)
(* for itself.                                                             *)
(*                                                                         *)
(* with() takes the address of the Java array before it frees, allocates   *)
(* and copies; the collector may move the array in between.  Where the JVM *)
(* is not one whose addresses ArrayUtils can take, addressOf throws, and   *)
(* create(ar) loses the structure it has allocated.                        *)
(***************************************************************************)
EXTENDS Integers, FiniteSets

CONSTANTS
  Handles,   \* the PyArrayHolder objects
  Blocks,    \* blocks of native memory
  NoData,    \* dataAddr = 0
  Arrays,    \* Java arrays
  Length,    \* Length[a]: the items of a
  ItemSize,  \* ItemSize[a]: the bytes of an item
  Places,    \* addresses in the Java heap
  Garbage,   \* bytes that are no array
  Dims,      \* the dimensions reshape is called with
  WordMax,   \* the largest Java long
  MaxMoves,  \* bound: arrays the collector moves
  MaxFailures  \* bound: allocations that fail after data was freed

ASSUME PyArrayAssumption ==
  /\ NoData \notin Blocks \cup Handles
  /\ Garbage \notin Arrays
  /\ WordMax \in Nat /\ MaxMoves \in Nat /\ MaxFailures \in Nat
  /\ Length \in [Arrays -> 0 .. WordMax] /\ ItemSize \in [Arrays -> 1 .. WordMax]
  /\ Dims \subseteq -(WordMax + 1) .. WordMax

VARIABLES
  allocated,  \* native blocks in use
  header,     \* header[b]: the array structure in block b
  contents,   \* contents[b]: the data in block b
  handle,     \* handle[h]: the fields of a holder
  pending,    \* pending[h]: what with() has read so far
  place,      \* place[a]: where the collector keeps a
  moves,      \* how many arrays were moved
  supported,  \* ArrayUtils.isJavaArrayAddrSupported
  failures,   \* history: how often with() freed data and could not allocate anew
  leaked,     \* history: the structures of create(ar) that threw
  stored,     \* history, stored[h]: the array with() was given, the bytes it copied
  layoutBy    \* history, layoutBy[b]: the holder that last set shape and strides

vars == <<allocated, header, contents, handle, pending, place, moves, supported,
          failures, leaked, stored, layoutBy>>

Unused == [state |-> "unused", holder |-> NoData, owner |-> FALSE, numDim |-> 1]
Idle   == [array |-> Garbage, addr |-> Garbage]
Zeroed == [nitems |-> 0, itemsize |-> 0, data |-> NoData, words |-> [i \in 0 .. 3 |-> 0]]
Nothing == [given |-> Garbage, copied |-> Garbage]

\* Java's long multiplication wraps around.
Times(x, y) == ((x * y + WordMax + 1) % (2 * (WordMax + 1))) - (WordMax + 1)

\* The bytes at an address of the Java heap.
BytesAt(p) == IF \E a \in Arrays : place[a] = p
              THEN CHOOSE a \in Arrays : place[a] = p ELSE Garbage

Header(h) == header[handle[h].holder]

\* Open, and not in the middle of with().
Ready(h) == handle[h].state = "open" /\ pending[h] = Idle

Init == /\ allocated = {}
        /\ header    = [b \in Blocks |-> Zeroed]
        /\ contents  = [b \in Blocks |-> Garbage]
        /\ handle    = [h \in Handles |-> Unused]
        /\ pending   = [h \in Handles |-> Idle]
        /\ place     \in {f \in [Arrays -> Places] :
                            \A a, b \in Arrays : a # b => f[a] # f[b]}
        /\ moves     = 0
        /\ supported \in BOOLEAN
        /\ failures  = 0
        /\ leaked    = {}
        /\ stored    = [h \in Handles |-> Nothing]
        /\ layoutBy  = [b \in Blocks |-> NoData]

\* Mutant: the structure is not zeroed.
ConstructUnzeroed(h, state) ==
  /\ handle[h] = Unused
  /\ \E b \in Blocks \ allocated :
       /\ allocated' = allocated \cup {b}
       /\ header'    = [header EXCEPT ![b] = [Zeroed EXCEPT !.data = Garbage]]
       /\ layoutBy'  = [layoutBy EXCEPT ![b] = h]
       /\ handle'    = [handle EXCEPT ![h] =
                          [state |-> state, holder |-> b, owner |-> TRUE, numDim |-> 1]]
  /\ stored' = [stored EXCEPT ![h] = Nothing]
  /\ UNCHANGED <<contents, place, moves, supported, failures, leaked>>

\* The constructor of an owner: a zeroed structure, one dimension.
Construct(h, state) ==
  /\ handle[h] = Unused
  /\ \E b \in Blocks \ allocated :
       /\ allocated' = allocated \cup {b}
       /\ header'    = [header EXCEPT ![b] = Zeroed]
       /\ layoutBy'  = [layoutBy EXCEPT ![b] = h]
       /\ handle'    = [handle EXCEPT ![h] =
                          [state |-> state, holder |-> b, owner |-> TRUE, numDim |-> 1]]
  /\ stored' = [stored EXCEPT ![h] = Nothing]
  /\ UNCHANGED <<contents, place, moves, supported, failures, leaked>>

\* ArrayUtils.addressOf.
ReadAddress(h, a) ==
  /\ supported
  /\ pending' = [pending EXCEPT ![h] = [array |-> a, addr |-> place[a]]]

create(h) == Construct(h, "open") /\ UNCHANGED pending

\* create(ar) throws, for addressOf does or there is no array: its caller never
\* gets the holder, and nobody frees the structure.
createWithFails ==
  \E b \in Blocks \ allocated :
    /\ allocated' = allocated \cup {b}
    /\ leaked'    = leaked \cup {b}
    /\ header'    = [header EXCEPT ![b] = Zeroed]
    /\ layoutBy'  = [layoutBy EXCEPT ![b] = NoData]
    /\ UNCHANGED <<contents, handle, pending, place, moves, supported, failures, stored>>

\* create(ar): the holder is not the caller's before with() returns.
createWith(h, a) == Construct(h, "constructing") /\ ReadAddress(h, a)

\* create(addr, dim): a view of the structure of an open holder.
createView(h, o, dim) ==
  /\ handle[h] = Unused
  /\ handle[o].state = "open"
  /\ handle' = [handle EXCEPT ![h] =
       [state |-> "open", holder |-> handle[o].holder, owner |-> FALSE, numDim |-> dim]]
  /\ layoutBy' = [b \in Blocks |-> IF layoutBy[b] = h THEN NoData ELSE layoutBy[b]]
  /\ UNCHANGED <<allocated, header, contents, pending, place, moves, supported, failures, leaked, stored>>

\* with(ar): first ArrayUtils.addressOf(ar), and if that throws nothing happens;
\* only owners, by the assertion.
with(h, a) ==
  /\ Ready(h) /\ handle[h].owner
  /\ ReadAddress(h, a)
  /\ UNCHANGED <<allocated, header, contents, handle, place, moves, supported, failures, leaked, stored, layoutBy>>

\* Mutant: the old data is not freed.
AfterNoRelease(h) == allocated

\* releaseArrayDataIfNecessary
AfterRelease(h) ==
  IF handle[h].owner THEN allocated \ {Header(h).data} ELSE allocated

\* What freed memory holds is nobody's concern: it counts as garbage.
Forgotten(kept) == [b \in Blocks |-> IF b \in kept THEN contents[b] ELSE Garbage]

\* setArrayData: the old data is freed, then the new block is allocated and filled.
setArrayData(h) ==
  /\ pending[h] # Idle
  /\ LET a == pending[h].array
         s == handle[h].holder
     IN \E b \in Blocks \ AfterRelease(h) :
          /\ allocated' = AfterRelease(h) \cup {b}
          /\ contents'  = [Forgotten(AfterRelease(h)) EXCEPT ![b] = BytesAt(pending[h].addr)]
          /\ header'    = [header EXCEPT ![s] =
               [nitems |-> Length[a], itemsize |-> ItemSize[a], data |-> b,
                words  |-> [@.words EXCEPT ![0] = Length[a], ![1] = ItemSize[a]]]]
          /\ handle'    = [handle EXCEPT ![h].state = "open", ![h].numDim = 1]
          /\ stored'    = [stored EXCEPT ![h] =
               [given |-> a, copied |-> BytesAt(pending[h].addr)]]
          /\ layoutBy'  = [layoutBy EXCEPT ![s] = h]
  /\ pending' = [pending EXCEPT ![h] = Idle]
  /\ UNCHANGED <<place, moves, supported, failures, leaked>>

\* allocateMemory throws: the old data is gone, the structure still points to it,
\* and the caller of create(ar) never gets the holder.
setArrayDataFails(h) ==
  /\ pending[h] # Idle
  /\ IF Header(h).data = NoData THEN UNCHANGED failures
     ELSE failures < MaxFailures /\ failures' = failures + 1
  /\ allocated' = AfterRelease(h)
  /\ handle'    = [handle EXCEPT ![h] = IF @.state = "open" THEN @ ELSE Unused]
  /\ pending'   = [pending EXCEPT ![h] = Idle]
  /\ leaked'    = IF handle[h].state = "open" THEN leaked ELSE leaked \cup {handle[h].holder}
  /\ contents'  = Forgotten(AfterRelease(h))
  /\ UNCHANGED <<header, place, moves, supported, stored, layoutBy>>

\* The words reshape writes: the shape, and the strides right behind it.
Layout(h, words, numDim) ==
  /\ header'   = [header EXCEPT ![handle[h].holder].words = words]
  /\ handle'   = [handle EXCEPT ![h].numDim = numDim]
  /\ layoutBy' = [layoutBy EXCEPT ![handle[h].holder] = h]
  /\ UNCHANGED <<allocated, contents, pending, place, moves, supported, failures, leaked, stored>>

reshape2d(h, x, y) ==
  /\ Ready(h)
  /\ Header(h).nitems = Times(x, y)
  /\ Layout(h, [Header(h).words EXCEPT ![0] = x, ![1] = y,
                  ![2] = Times(y, Header(h).itemsize), ![3] = Header(h).itemsize], 2)

\* Mutant: numDim is not updated.
reshape1dKeepingNumDim(h, length) ==
  /\ Ready(h)
  /\ Header(h).nitems = length
  /\ Layout(h, [Header(h).words EXCEPT ![0] = length, ![1] = Header(h).itemsize],
            handle[h].numDim)

reshape1d(h, length) ==
  /\ Ready(h)
  /\ Header(h).nitems = length
  /\ Layout(h, [Header(h).words EXCEPT ![0] = length, ![1] = Header(h).itemsize], 1)

\* Mutant: a view frees what it does not own.
closeIgnoringOwner(h) ==
  /\ Ready(h)
  /\ handle' = [handle EXCEPT ![h] = Unused]
  /\ stored' = [stored EXCEPT ![h] = Nothing]
  /\ allocated' = allocated \ {Header(h).data, handle[h].holder}
  /\ contents'  = Forgotten(allocated')
  /\ UNCHANGED <<header, pending, place, moves, supported, failures, leaked, layoutBy>>

\* close(), once per holder, and an owner not before the views of its structure.
close(h) ==
  /\ Ready(h)
  /\ handle[h].owner =>
       \A v \in Handles \ {h} : handle[v].holder # handle[h].holder \/ handle[v] = Unused
  /\ handle' = [handle EXCEPT ![h] = Unused]
  /\ stored' = [stored EXCEPT ![h] = Nothing]
  /\ IF handle[h].owner
     THEN /\ allocated' = AfterRelease(h) \ {handle[h].holder}
          /\ contents'  = Forgotten(allocated')
          /\ header'    = [header EXCEPT ![handle[h].holder] = Zeroed]
          /\ layoutBy'  = [layoutBy EXCEPT ![handle[h].holder] = NoData]
     ELSE UNCHANGED <<allocated, contents, header, layoutBy>>
  /\ UNCHANGED <<pending, place, moves, supported, failures, leaked>>

\* The collector moves an array.
Move(a, p) ==
  /\ moves < MaxMoves
  /\ BytesAt(p) = Garbage
  /\ place' = [place EXCEPT ![a] = p]
  /\ moves' = moves + 1
  /\ UNCHANGED <<allocated, header, contents, handle, pending, supported, failures, leaked, stored, layoutBy>>

Next == \/ \E h \in Handles :
             \/ create(h)
             \/ \E a \in Arrays : createWith(h, a) \/ with(h, a)
             \/ \E o \in Handles, dim \in {1, 2} : createView(h, o, dim)
             \/ setArrayData(h)
             \/ setArrayDataFails(h)
             \/ \E x, y \in Dims : reshape2d(h, x, y)
             \/ \E length \in Dims : reshape1d(h, length)
             \/ close(h)
        \/ createWithFails
        \/ \E a \in Arrays, p \in Places : Move(a, p)

Spec == Init /\ [][Next]_vars

-----------------------------------------------------------------------------
(* Properties. *)

\* The state has its type.
TypeOK ==
  /\ allocated \subseteq Blocks
  /\ header \in [Blocks -> [nitems : 0 .. WordMax, itemsize : 0 .. WordMax, data : Blocks \cup {NoData},
                            words : [0 .. 3 -> -(WordMax + 1) .. WordMax]]]
  /\ contents \in [Blocks -> Arrays \cup {Garbage}]
  /\ handle \in [Handles -> [state : {"unused", "constructing", "open"},
                             holder : Blocks \cup {NoData}, owner : BOOLEAN,
                             numDim : {1, 2}]]
  /\ place \in [Arrays -> Places]
  /\ supported \in BOOLEAN /\ failures \in Nat
  /\ leaked \subseteq Blocks

Owners == {h \in Handles : handle[h].owner}

\* The native memory an owner is responsible for.
Owned(h) == {handle[h].holder, Header(h).data} \ {NoData}

\* PyArrayHolder.java:92-118, 195-209, 364-370: the allocated blocks are the
\* structures and the data of the open owners, each block of exactly one of them,
\* and the structures of create(ar) that threw, which nothing else leaks, over any
\* number of with() and close(); nothing is freed twice, nothing in use is freed.
\* It ends with an allocation that fails after the old data was freed.
MemoryIsOwned ==
  failures = 0 =>
    /\ allocated = leaked \cup UNION {Owned(h) : h \in Owners}
    /\ \A h \in Owners : Owned(h) \cap leaked = {}
    /\ \A h, o \in Owners : h # o => Owned(h) \cap Owned(o) = {}
    /\ \A h \in Owners : Header(h).data # handle[h].holder

\* PyArrayHolder.java:204-229: what with() copied stays what the structure points
\* to until the next with() or close() of the same owner, although blocks are
\* freed and reused by others; again until an allocation fails after a free.
DataStaysIntact ==
  failures = 0 =>
    \A h \in Owners : Header(h).data # NoData =>
      contents[Header(h).data] = stored[h].copied

\* What reshape is called with: no product of dimensions, or of a dimension and
\* an item size, leaves a long.
ProductsFit ==
  \A x, y \in Dims :
    /\ x * y \in -(WordMax + 1) .. WordMax
    /\ \A a \in Arrays : y * ItemSize[a] \in -(WordMax + 1) .. WordMax

\* PyArrayHolder.java:148-193, 221-228: the holder that last set the layout, owner
\* or view, reads back a shape that covers the items and row-major strides,
\* whatever layouts of other dimensions it overwrote.
LayoutMatchesItems ==
  \A h \in Handles :
    handle[h].state = "open" /\ layoutBy[handle[h].holder] = h =>
      LET w == Header(h).words
          n == handle[h].numDim
      IN /\ Header(h).nitems = IF n = 1 THEN w[0] ELSE w[0] * w[1]
         /\ w[n] = IF n = 1 THEN Header(h).itemsize ELSE w[1] * Header(h).itemsize
         /\ w[2 * n - 1] = Header(h).itemsize

\* PyArrayHolder.java:214, "We need to copy array data because object addresses can
\* change between calls": the copy holds the array with() was given.
CopiesTheArray == \A h \in Handles : stored[h].copied = stored[h].given
=============================================================================
