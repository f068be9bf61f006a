------------------------------ MODULE Aggregates ------------------------------
(***************************************************************************)
(* Vectors, structs and arrays in translated functions.                    *)
(*                                                                         *)
(* LLVM values of these types become addresses of blocks on the stack of   *)
(* VMemory.  Every instruction that makes such a value allocates a block   *)
(* and fills it, field by field, at offsets that each handler computes for *)
(* itself; loads of them copy nothing, and a shuffle replaces the local    *)
(* variable of its first operand.  The model executes the instructions of  *)
(* one function, in any well-typed order, twice: value and objects are     *)
(* what LLVM computes, local and memory what the translated code does.     *)
(*                                                                         *)
(* Numbers are abstract tokens, and a byte knows the number it belongs to, *)
(* so a read at the wrong place or of the wrong width yields Junk.         *)
(***************************************************************************)
EXTENDS Integers, Sequences

CONSTANTS
  Number,            \* a number other than zero
  Sum, Less, Convert, Address,  \* how other tokens are made
  Arguments,         \* types of the arguments that are values
  Pointee,           \* the type an argument of pointer type points to
  ArgumentAddress,   \* where the caller has them, the pointee last
  Allocated,         \* types allocated by alloca
  GlobalLists,       \* the global variables a module may define
  HeapBase,          \* the first address of the heap
  StackBase,         \* the first address of the stack, behind the heap
  Masks,             \* masks of shufflevector, from 0, -1 is undef
  CastWidths,        \* widths vector elements are converted to
  MaxInstructions,   \* bound: instructions executed
  Divergences        \* what is known to differ from LLVM and is admitted

Features == {"storeAfterLoad", "zeroMask", "aggregateStore", "resizingCast",
             "padding", "mixedOperands", "dataArray"}

\* Tokens that are no Number and no <<op, x, y>>: zero, LLVM's undef, which may
\* be any number, and what is read from bytes that are no number.
Zero  == <<"zero">>
Undef == <<"undef">>
Junk  == <<"junk">>

-----------------------------------------------------------------------------
(* Types and their layout. *)

\* A composite type: the widths of its numbers, and how many of them each field
\* has, one or, if it is an array in a struct, several.
Scalar(w)         == [kind |-> "scalar", widths |-> <<w>>, counts |-> <<1>>]
Sequential(k, n, w) == [kind |-> k, widths |-> [i \in 1..n |-> w], counts |-> [i \in 1..n |-> 1]]
Vector(n, w)      == Sequential("vector", n, w)
Array(n, w)       == Sequential("array", n, w)
Struct(ws, cs)    == [kind |-> "struct", widths |-> ws, counts |-> cs]
PointerTo(t)      == [kind |-> "pointer", to |-> t]

\* Sums(s)[n]: the first n numbers of s together.
Sums(s) == LET sum[n \in 0 .. Len(s)] == IF n = 0 THEN 0 ELSE sum[n - 1] + s[n] IN sum

Total(s)  == Sums(s)[Len(s)]
Leaves(t) == t.widths

getTypeAllocSize(t) == Total(Leaves(t))

\* Where the f-th field and the i-th number begin.
LeavesBefore(t, f) == Sums(t.counts)[f - 1]
LeafOffset(t, i)   == Sums(Leaves(t))[i - 1]

\* Mutant: the offset of a field is rounded up to its width.
AlignedOffset(t, f) ==
  LET o == LeafOffset(t, LeavesBefore(t, f) + 1) w == Leaves(t)[LeavesBefore(t, f) + 1]
  IN o + ((w - (o % w)) % w)

Offset(t, f) == LeafOffset(t, LeavesBefore(t, f) + 1)

\* The numbers of the f-th field of a type or a value.
OfField(t, f, s) == SubSeq(s, LeavesBefore(t, f) + 1, LeavesBefore(t, f) + t.counts[f])

FieldType(t, f) == LET w == Leaves(t)[LeavesBefore(t, f) + 1]
                   IN IF t.counts[f] = 1 THEN Scalar(w) ELSE Array(t.counts[f], w)

Widths == {1, 2, 4, 8}

\* The numbers of an array are of one width, those of a struct in each field.
IsValueType(t) ==
  /\ t = [kind |-> t.kind, widths |-> t.widths, counts |-> t.counts]
  /\ t.widths \in Seq(Widths) /\ t.counts \in Seq(Nat \ {0}) /\ t.counts # <<>>
  /\ Len(t.widths) = Total(t.counts)
  /\ t.kind \in {"scalar", "vector", "array", "struct"}
  /\ t.kind # "struct" => \A i \in DOMAIN t.widths : t.widths[i] = t.widths[1]
  /\ t.kind # "struct" => \A f \in DOMAIN t.counts : t.counts[f] = 1
  /\ t.kind = "scalar" => Len(t.counts) = 1
  /\ \A f \in DOMAIN t.counts : \A i \in 1 .. t.counts[f] :
       t.widths[LeavesBefore(t, f) + i] = t.widths[LeavesBefore(t, f) + 1]

IsSequence(s) == Len(s) \in Nat /\ s = [i \in 1 .. Len(s) |-> s[i]]

\* Contents a global variable may have.
IsConstant(g) ==
  /\ IsValueType(g.ty) /\ IsSequence(g.value)
  /\ Len(g.value) = Len(g.ty.widths)
  /\ \A i \in DOMAIN g.value : g.value[i] \notin {Undef, Junk}

AlignUp(a, n) == a + ((n - (a % n)) % n)

-----------------------------------------------------------------------------
(* Memory. *)

Byte(token, w, i) == IF token = Zero THEN <<Zero, 0, 0>> ELSE <<token, w, i>>

\* The bytes of f are written into m.
Overwrite(m, f) ==
  [b \in DOMAIN f \cup DOMAIN m |-> IF b \in DOMAIN f THEN f[b] ELSE m[b]]

Write(m, a, w, token) == Overwrite(m, [b \in a .. a + w - 1 |-> Byte(token, w, b - a)])

Read(m, a, w) ==
  IF \A b \in a .. a + w - 1 : b \in DOMAIN m /\ m[b] = Byte(m[a][1], w, b - a)
  THEN m[a][1] ELSE Junk

ReadAll(m, a, t) == [i \in DOMAIN Leaves(t) |-> Read(m, a + LeafOffset(t, i), Leaves(t)[i])]

zero(m, a, n) == Overwrite(m, [b \in a .. a + n - 1 |-> Byte(Zero, 1, 0)])

memcpy(m, to, from, n) ==
  Overwrite(m, [b \in {c \in to .. to + n - 1 : from + (c - to) \in DOMAIN m} |-> m[from + (b - to)]])

\* pack: cursor is the memory and the address of the next value.
pack(cursor, w, token) ==
  LET a == AlignUp(cursor.addr, w)
  IN [memory |-> Write(cursor.memory, a, w, token), addr |-> a + w]

\* The bytes of a string.
packString(m, a, tokens) ==
  Overwrite(m, [b \in a .. a + Len(tokens) - 1 |-> Byte(tokens[b - a + 1], 1, 0)])

\* The result of a scalar operation, on the stack of the JVM and in LLVM.
Result(op, x, y) == CASE Junk  \in {x, y} -> Junk
                      [] Undef \in {x, y} -> Undef
                      [] OTHER -> <<op, x, y>>

\* What a vector instruction computes for one element, from the numbers at one
\* or two addresses.  Address 0 stands for the constant zero.
Copied(a)          == [kind |-> "copied", x |-> a]
Computed(op, a, b) == [kind |-> "computed", op |-> op, x |-> a, y |-> b]

Load(m, a, w)         == IF a = 0 THEN Zero ELSE Read(m, a, w)
Compute(m, w, source) ==
  IF source.kind = "copied" THEN Load(m, source.x, w)
  ELSE Result(source.op, Load(m, source.x, w), Load(m, source.y, w))

\* The code of a vector instruction: numbers of width w computed one after the
\* other from numbers of width from, in the memory with those before, and stored
\* from a on.
Fill(m, a, w, from, sources) ==
  LET filled[i \in 0 .. Len(sources)] ==
        IF i = 0 THEN m
        ELSE Write(filled[i - 1], a + (i - 1) * w, w, Compute(filled[i - 1], from, sources[i]))
  IN filled[Len(sources)]

VARIABLES
  memory,    \* the bytes written so far
  stack,     \* VMemFragment.currentAddr of the stack
  blocks,    \* history: the address ranges allocated so far
  reg,       \* the LLVM registers: type, local variable and LLVM value
  objects,   \* LLVM: type and contents of what pointers point to
  executed   \* how many instructions have been executed, -1 before <clinit>

vars == <<memory, stack, blocks, reg, objects, executed>>

\* What the caller passes lies in its own memory: the aggregates of Arguments,
\* then the object that the last argument points to.
ArgumentTypes == Append(Arguments, Pointee)
Token(a, i)   == <<Number, a, i>>

ArgumentValue(a)     == [i \in DOMAIN Leaves(ArgumentTypes[a]) |-> Token(a, i)]
ArgumentBytes(a, i)  == LET at == ArgumentAddress[a] + LeafOffset(ArgumentTypes[a], i)
                        IN at .. at + Leaves(ArgumentTypes[a])[i] - 1
ArgumentNumbers      == UNION {{a} \X DOMAIN Leaves(ArgumentTypes[a]) : a \in DOMAIN ArgumentTypes}

ArgumentMemory ==
  [b \in UNION {ArgumentBytes(n[1], n[2]) : n \in ArgumentNumbers} |->
     LET n == CHOOSE n \in ArgumentNumbers : b \in ArgumentBytes(n[1], n[2])
         t == ArgumentTypes[n[1]]
     IN Byte(Token(n[1], n[2]), Leaves(t)[n[2]], b - ArgumentAddress[n[1]] - LeafOffset(t, n[2]))]

EndOfArgument(a) == ArgumentAddress[a] + getTypeAllocSize(ArgumentTypes[a])

\* The globals lie one behind the other, each at a multiple of 8.
GlobalAddress(gs) ==
  LET sizes == [g \in DOMAIN gs |-> AlignUp(getTypeAllocSize(gs[g].ty), 8)]
  IN [g \in DOMAIN gs |-> HeapBase + Sums(sizes)[g - 1]]

ASSUME AggregatesAssumption ==
  /\ Divergences \subseteq Features /\ MaxInstructions \in Nat
  /\ CastWidths \subseteq Widths /\ Masks \subseteq Seq(Int) /\ Number \notin {Undef, Junk}
  /\ \A mask \in Masks : mask # <<>> /\ \A i \in DOMAIN mask : mask[i] >= -1
  /\ \A t \in Allocated \cup {Pointee} : IsValueType(t)
  /\ IsSequence(Arguments)
  /\ \A a \in DOMAIN Arguments : IsValueType(Arguments[a]) /\ Arguments[a].kind # "scalar"
  /\ HeapBase \in Nat /\ StackBase \in Nat /\ HeapBase <= StackBase /\ HeapBase % 8 = 0
  /\ \A a \in DOMAIN ArgumentTypes :
       /\ ArgumentAddress[a] \in Nat \ {0} /\ EndOfArgument(a) <= HeapBase
       /\ \A b \in DOMAIN ArgumentTypes \ {a} :
            EndOfArgument(a) <= ArgumentAddress[b] \/ EndOfArgument(b) <= ArgumentAddress[a]
  /\ \A gs \in GlobalLists :
       /\ IsSequence(gs) /\ \A g \in DOMAIN gs : IsConstant(gs[g])
       /\ \A g \in DOMAIN gs : GlobalAddress(gs)[g] + getTypeAllocSize(gs[g].ty) <= StackBase

Init ==
  /\ memory = ArgumentMemory
  /\ stack = StackBase
  /\ blocks = {}
  /\ reg = [a \in DOMAIN ArgumentTypes |->
              IF a \in DOMAIN Arguments
              THEN [ty |-> Arguments[a], local |-> ArgumentAddress[a], value |-> ArgumentValue(a)]
              ELSE [ty |-> PointerTo(Pointee), local |-> ArgumentAddress[a],
                    value |-> [object |-> 1, first |-> 1]]]
  /\ objects = <<[ty |-> Pointee, at |-> ArgumentAddress[Len(ArgumentTypes)],
                  value |-> ArgumentValue(Len(ArgumentTypes))]>>
  /\ executed = -1

-----------------------------------------------------------------------------
(* The static initialiser of the class. *)

AllZero(tokens) == \A i \in DOMAIN tokens : tokens[i] = Zero

\* A field of a constant.  Strings are the only constant arrays of numbers
\* whose elements are operands the translator visits.
FieldConstant(cursor, widths, tokens) ==
  IF AllZero(tokens)
  THEN [memory |-> zero(cursor.memory, cursor.addr, Total(widths)),
        addr   |-> cursor.addr + Total(widths)]
  ELSE IF Len(widths) = 1 THEN pack(cursor, widths[1], tokens[1])
  ELSE IF widths[1] = 1
  THEN [memory |-> packString(cursor.memory, cursor.addr, tokens),
        addr   |-> cursor.addr + Len(tokens)]
  ELSE cursor

\* One field after the other.
StructConstant(m, a, g) ==
  LET t == g.ty
      packed[f \in 0 .. Len(t.counts)] ==
        IF f = 0 THEN [memory |-> m, addr |-> a]
        ELSE FieldConstant(packed[f - 1], OfField(t, f, Leaves(t)), OfField(t, f, g.value))
  IN packed[Len(t.counts)].memory

printStaticConstant(m, a, g) ==
  IF AllZero(g.value) THEN zero(m, a, getTypeAllocSize(g.ty))
  ELSE CASE g.ty.kind = "struct" -> StructConstant(m, a, g)
         [] g.ty.kind = "vector" -> m
         [] OTHER -> FieldConstant([memory |-> m, addr |-> a], Leaves(g.ty), g.value).memory

\* All globals are allocated before the first is initialised.
InitializeGlobals(m, gs) ==
  LET initialized[g \in 0 .. Len(gs)] ==
        IF g = 0 THEN m
        ELSE printStaticConstant(initialized[g - 1], GlobalAddress(gs)[g], gs[g])
  IN initialized[Len(gs)]

NumbersAreOperands(g) ==
  /\ g.ty.kind = "vector" => AllZero(g.value)
  /\ g.ty.kind = "array"  => AllZero(g.value) \/ Leaves(g.ty)[1] = 1
  /\ g.ty.kind = "struct" => \A f \in DOMAIN g.ty.counts :
       g.ty.counts[f] = 1 \/ OfField(g.ty, f, Leaves(g.ty))[1] = 1 \/ AllZero(OfField(g.ty, f, g.value))

NeedsNoPadding(g) ==
  \A i \in DOMAIN g.value : g.value[i] = Zero \/ LeafOffset(g.ty, i) % Leaves(g.ty)[i] = 0

printClInit == \E gs \in GlobalLists :
  /\ executed = -1
  /\ "dataArray" \in Divergences \/ \A g \in DOMAIN gs : NumbersAreOperands(gs[g])
  /\ "padding"   \in Divergences \/ \A g \in DOMAIN gs : NeedsNoPadding(gs[g])
  /\ LET at == GlobalAddress(gs) IN
     /\ memory'  = InitializeGlobals(memory, gs)
     /\ blocks'  = {at[g] .. at[g] + getTypeAllocSize(gs[g].ty) - 1 : g \in DOMAIN gs}
     /\ objects' = objects \o [g \in DOMAIN gs |->
                     [ty |-> gs[g].ty, at |-> at[g], value |-> gs[g].value]]
     /\ reg' = reg \o [g \in DOMAIN gs |->
                 [ty |-> PointerTo(gs[g].ty), local |-> at[g],
                  value |-> [object |-> Len(objects) + g, first |-> 1]]]
  /\ executed' = 0
  /\ UNCHANGED stack

-----------------------------------------------------------------------------
(* The instructions. *)

Execute == 0 <= executed /\ executed < MaxInstructions /\ executed' = executed + 1

Of(t)     == {r \in DOMAIN reg : reg[r].ty = t}
Pointers  == {r \in DOMAIN reg : reg[r].ty.kind = "pointer"}
Kind(ks)  == {r \in DOMAIN reg : reg[r].ty.kind \in ks}

\* Where the i-th number of a vector lies, at 0 if the vector has no address.
Element(t)      == Leaves(t)[1]
ElementAt(v, i) == IF v.local = 0 THEN 0 ELSE v.local + (i - 1) * Element(v.ty)

Operand(t, local, value) == [ty |-> t, local |-> local, value |-> value]

\* What an operand of type t may be: a register or, for numbers, a constant.
Operands(t) == {reg[r] : r \in Of(t)} \cup
               IF t.kind = "scalar" THEN {Operand(t, Number, <<Number>>)} ELSE {}

NewRegister(t, local, value) == reg' = Append(reg, Operand(t, local, value))

\* VMemory.allocateStack(n); Fill and the like write to the block.
block == AlignUp(stack, 8)
allocateStack(n) == /\ stack'  = block + n
                    /\ blocks' = blocks \cup {block .. block + n - 1}

UnchangedMemory == UNCHANGED <<memory, stack, blocks, objects>>

\* Pointers hold the object and the number in it they point to.
Contents(p) ==
  LET v == p.value
  IN SubSeq(objects[v.object].value, v.first, v.first + Len(Leaves(p.ty.to)) - 1)

printAllocaInstruction == \E t \in Allocated :
  /\ Execute
  /\ allocateStack(getTypeAllocSize(t))
  /\ objects' = Append(objects, [ty |-> t, at |-> block, value |-> [i \in DOMAIN Leaves(t) |-> Undef]])
  /\ NewRegister(PointerTo(t), block, [object |-> Len(objects) + 1, first |-> 1])
  /\ UNCHANGED memory

\* Composite values are the addresses of what they are loaded from.
printLoadInstruction == \E p \in {reg[r] : r \in Pointers} :
  LET t == p.ty.to IN
  /\ Execute
  /\ NewRegister(t, IF t.kind = "scalar" THEN Read(memory, p.local, Leaves(t)[1]) ELSE p.local,
                 Contents(p))
  /\ UnchangedMemory

Shared(object) == \E r \in Kind({"vector", "struct", "array"}) :
  reg[r].local \in object.at .. object.at + getTypeAllocSize(object.ty) - 1

printIndirectStore == \E p \in {reg[r] : r \in Pointers} : \E v \in Operands(p.ty.to) :
  LET t == p.ty.to  o == p.value.object  k == p.value.first  w == Leaves(t)[1] IN
  /\ Execute
  /\ "aggregateStore" \in Divergences \/ t.kind \in {"vector", "scalar"}
  /\ "storeAfterLoad" \in Divergences \/ ~Shared(objects[o])
  /\ memory' = CASE t.kind = "scalar" -> Write(memory, p.local, w, v.local)
                 [] t.kind = "vector" -> Fill(memory, p.local, w, w,
                                              [i \in DOMAIN Leaves(t) |-> Copied(ElementAt(v, i))])
                 [] OTHER -> Write(memory, p.local, 8, <<Address, v.local>>)
  /\ objects' = [objects EXCEPT ![o].value = [i \in DOMAIN @ |->
                   IF i \in k .. k + Len(v.value) - 1 THEN v.value[i - k + 1] ELSE @[i]]]
  /\ UNCHANGED <<stack, blocks, reg>>

\* With a second index into an array in the struct.  The first is 0.
printGepInstruction == \E p \in {reg[r] : r \in Pointers} : \E f \in DOMAIN p.ty.to.counts :
  LET t == p.ty.to  first == p.value.first + LeavesBefore(t, f) IN
  /\ Execute
  /\ t.kind # "scalar"
  /\ \/ NewRegister(PointerTo(FieldType(t, f)), p.local + Offset(t, f),
                    [object |-> p.value.object, first |-> first])
     \/ \E i \in 1 .. t.counts[f] :
          LET w == Leaves(t)[LeavesBefore(t, f) + i] IN
          /\ t.counts[f] > 1
          /\ NewRegister(PointerTo(Scalar(w)), p.local + Offset(t, f) + (i - 1) * w,
                         [object |-> p.value.object, first |-> first + i - 1])
  /\ UnchangedMemory

\* Values without a register: undef, and the zero vector.
UndefOf(t) == Operand(t, 0, [i \in DOMAIN Leaves(t) |-> Undef])
ZeroOf(t)  == Operand(t, 0, [i \in DOMAIN Leaves(t) |-> Zero])

\* LLVM's insertvalue and insertelement.
Replace(t, value, f, field) ==
  [i \in DOMAIN value |-> LET k == i - LeavesBefore(t, f)
                          IN IF k \in DOMAIN field THEN field[k] ELSE value[i]]

\* Mutant: a field that is an array is stored as its address.
StoreAddress(m, a, v) ==
  IF v.ty.kind = "scalar" THEN Write(m, a, Leaves(v.ty)[1], v.local)
  ELSE Write(m, a, 8, <<Address, v.local>>)

Store(m, a, v) == IF v.ty.kind = "scalar" THEN Write(m, a, Leaves(v.ty)[1], v.local)
                  ELSE memcpy(m, a, v.local, getTypeAllocSize(v.ty))

Copy(m, v) == IF v.local = 0 THEN m ELSE memcpy(m, block, v.local, getTypeAllocSize(v.ty))

printInsertValue ==
  \E t \in {reg[r].ty : r \in Kind({"struct", "array"})} : \E f \in DOMAIN t.counts :
  \E aggregate \in Operands(t) \cup {UndefOf(t)}, v \in Operands(FieldType(t, f)) :
  /\ Execute
  /\ allocateStack(getTypeAllocSize(t))
  /\ memory' = Store(Copy(memory, aggregate), block + Offset(t, f), v)
  /\ NewRegister(t, block, Replace(t, aggregate.value, f, v.value))
  /\ UNCHANGED objects

\* The address that a token is, NULL if it is none.
AddressIn(token) == IF token[1] = Address THEN token[2] ELSE 0

\* Mutant: a field is loaded whatever its type.
LoadAnyField(a, t) == IF t.kind = "scalar" THEN Read(memory, a, Leaves(t)[1])
                      ELSE AddressIn(Read(memory, a, 8))

LoadField(a, t) == IF t.kind = "scalar" THEN Read(memory, a, Leaves(t)[1]) ELSE a

printExtractValue == \E r \in Kind({"struct", "array"}) : \E f \in DOMAIN reg[r].ty.counts :
  LET t == reg[r].ty IN
  /\ Execute
  /\ NewRegister(FieldType(t, f), LoadField(reg[r].local + Offset(t, f), FieldType(t, f)),
                 OfField(t, f, reg[r].value))
  /\ UnchangedMemory

Vectors          == {reg[r] : r \in Kind({"vector"})}
VectorsOrZero(t) == {reg[r] : r \in Of(t)} \cup {ZeroOf(t)}

\* A vector instruction allocates a block for its result, numbers of width w,
\* and computes them one by one.
VectorResult(w, from, sources, value) ==
  /\ allocateStack(Len(sources) * w)
  /\ memory' = Fill(memory, block, w, from, sources)
  /\ NewRegister(Vector(Len(sources), w), block, value)
  /\ UNCHANGED objects

\* The same operation on each pair of numbers, results of width w.
Elementwise(op, v1, v2, w) ==
  VectorResult(w, Element(v1.ty),
               [i \in DOMAIN v1.value |-> Computed(op, ElementAt(v1, i), ElementAt(v2, i))],
               [i \in DOMAIN v1.value |-> Result(op, v1.value[i], v2.value[i])])

printArithmeticInstruction == \E v1 \in Vectors : \E v2 \in VectorsOrZero(v1.ty) :
  Execute /\ Elementwise(Sum, v1, v2, Element(v1.ty))

printCmpInstruction == \E v1 \in Vectors : \E v2 \in VectorsOrZero(v1.ty) :
  Execute /\ Elementwise(Less, v1, v2, 1)

\* The source is read in steps of the width of the destination.
printCastInstruction == \E v \in Vectors : \E w \in CastWidths :
  LET from == Element(v.ty) IN
  /\ Execute
  /\ "resizingCast" \in Divergences \/ w = from
  /\ VectorResult(w, from,
                  [i \in DOMAIN v.value |-> Computed(Convert, 0, v.local + (i - 1) * w)],
                  [i \in DOMAIN v.value |-> Result(Convert, Zero, v.value[i])])

printInsertElement == \E t \in {v.ty : v \in Vectors} : \E f \in DOMAIN t.counts :
  \E v \in Operands(t) \cup {UndefOf(t)}, x \in Operands(Scalar(Element(t))) :
  LET w == Element(t)
      copied == IF v.local = 0 THEN memory
                ELSE Fill(memory, block, w, w, [i \in DOMAIN Leaves(t) |-> Copied(ElementAt(v, i))])
  IN
  /\ Execute
  /\ allocateStack(getTypeAllocSize(t))
  /\ memory' = Write(copied, block + (f - 1) * w, w, x.local)
  /\ NewRegister(t, block, [v.value EXCEPT ![f] = x.value[1]])
  /\ UNCHANGED objects

printExtractElement == \E v \in Vectors : \E f \in DOMAIN v.value :
  /\ Execute
  /\ NewRegister(Scalar(Element(v.ty)), Load(memory, ElementAt(v, f), Element(v.ty)), <<v.value[f]>>)
  /\ UnchangedMemory

\* Both operands are copied into one block, which the local variable of the
\* first then holds, and the mask picks from it.  A zero mask yields zeros.
Block2(n) == AlignUp(block + n, 8)

\* Mutant: the block has room for the first operand only.
AlwaysFirst(n1, n2) == n1

InputElements(n1, n2) == n1 + n2

printShuffleVector == \E r \in Kind({"vector"}), mask \in Masks :
  \E v2 \in {reg[q] : q \in Of(reg[r].ty)} \cup {UndefOf(reg[r].ty)} :
  LET v1 == reg[r]  w == Element(v1.ty)  n == Len(v1.value)
      n2 == IF v2.local = 0 THEN 0 ELSE n
      both  == v1.value \o v2.value
      value == [i \in DOMAIN mask |-> IF mask[i] = -1 THEN Undef ELSE both[mask[i] + 1]]
      t     == Vector(Len(mask), w)
      size  == InputElements(n, n2) * w
      inputs == Fill(memory, block, w, w, [i \in 1 .. n + n2 |->
                       Copied(IF i <= n THEN ElementAt(v1, i) ELSE ElementAt(v2, i - n))])
  IN
  /\ Execute
  /\ \A i \in DOMAIN mask : mask[i] < 2 * n
  /\ IF \A i \in DOMAIN mask : mask[i] = 0
     THEN /\ "zeroMask" \in Divergences \/ v1.value[1] \in {Undef, Zero}
          /\ VectorResult(w, w, [i \in DOMAIN mask |-> Copied(0)], value)
     ELSE /\ stack'  = Block2(size) + Len(mask) * w
          /\ blocks' = blocks \cup {block .. block + size - 1,
                                    Block2(size) .. Block2(size) + Len(mask) * w - 1}
          /\ memory' = Fill(inputs, Block2(size), w, w, [i \in DOMAIN mask |->
                         Copied(IF mask[i] = -1 THEN 0 ELSE block + mask[i] * w)])
          /\ reg' = Append([reg EXCEPT ![r].local = block], Operand(t, Block2(size), value))
          /\ UNCHANGED objects

\* A call of an external function: the operands are packed, composite ones
\* and pointers as addresses, and Function.invoke unpacks them again before the
\* function runs.  It gets them as its parameters, which appear as registers.
\* Bound: two operands, one of them the newest register.
Width(v)      == IF v.ty.kind = "scalar" THEN Element(v.ty) ELSE 8
AllocSize(v)  == IF v.ty.kind = "pointer" THEN 8 ELSE getTypeAllocSize(v.ty)
PackedToken(v) == IF v.ty.kind = "scalar" THEN v.local ELSE <<Address, v.local>>

\* Where pack puts and unpack looks for the i-th value.
unpackAt(at, widths, i) ==
  AlignUp(IF i = 1 THEN at ELSE AlignUp(at, widths[1]) + widths[1], widths[i])

printOperandPack == \E r1, r2 \in DOMAIN reg : Len(reg) \in {r1, r2} /\
  LET vs == <<reg[r1], reg[r2]>>
      widths == [i \in 1..2 |-> Width(vs[i])]
      size == AllocSize(vs[1]) + AllocSize(vs[2])
      packed == pack(pack([memory |-> memory, addr |-> block], widths[1], PackedToken(vs[1])),
                     widths[2], PackedToken(vs[2]))
      unpacked(i) == LET x == Read(packed.memory, unpackAt(block, widths, i), widths[i])
                     IN IF vs[i].ty.kind = "scalar" THEN x ELSE AddressIn(x)
  IN
  /\ Execute
  /\ "mixedOperands" \in Divergences \/ packed.addr <= block + size
  /\ allocateStack(size)
  /\ memory' = packed.memory
  /\ reg' = reg \o [i \in 1..2 |-> Operand(vs[i].ty, unpacked(i), vs[i].value)]
  /\ UNCHANGED objects

Next ==
  \/ printClInit
  \/ printAllocaInstruction
  \/ printLoadInstruction
  \/ printIndirectStore
  \/ printGepInstruction
  \/ printInsertValue
  \/ printExtractValue
  \/ printArithmeticInstruction
  \/ printCmpInstruction
  \/ printCastInstruction
  \/ printInsertElement
  \/ printExtractElement
  \/ printShuffleVector
  \/ printOperandPack

Spec == Init /\ [][Next]_vars

-----------------------------------------------------------------------------
(* Properties. *)

\* Local variables of composite and pointer type hold addresses in memory that
\* was allocated or that the caller passed, never the contents: a handler that
\* confuses the two is undetected by the verifier, both are longs.
TypeOK ==
  /\ executed \in -1 .. MaxInstructions /\ stack >= StackBase
  /\ \A a \in DOMAIN memory : memory[a][2] \in {0, 1, 2, 4, 8} /\ memory[a][1] # Undef
  /\ \A r \in DOMAIN reg : reg[r].ty.kind # "scalar" =>
       \E b \in blocks \cup {1 .. HeapBase - 1} : reg[r].local \in b

Agree(read, value) == \A i \in DOMAIN value : value[i] \in {Undef, read[i]}

\* At any time, a register that holds a value, read at the offsets of its type,
\* has the value LLVM computed when it was assigned, unless LLVM leaves that
\* undefined: no later instruction, whichever block it fills, and no shuffle
\* of the same operand changes it.
RegistersHoldLlvmValues ==
  \A r \in DOMAIN reg : LET v == reg[r] IN
    CASE v.ty.kind = "pointer" -> TRUE
      [] v.ty.kind = "scalar"  -> Agree(<<v.local>>, v.value)
      [] OTHER -> Agree(ReadAll(memory, v.local, v.ty), v.value)

\* Through every pointer, computed by whatever path of getelementptr, the
\* memory has what was stored last or what the initialiser says.
PointersReachTheirObjects ==
  \A r \in Pointers : Agree(ReadAll(memory, reg[r].local, reg[r].ty.to), Contents(reg[r]))

\* An instruction writes to the blocks it allocates and nowhere else, except a
\* store, which defines no register and writes to an object.
WritesStayInBlocks ==
  [][\A a \in DOMAIN memory' : a \notin DOMAIN memory \/ memory'[a] # memory[a] =>
       \/ \E b \in blocks' \ blocks : a \in b
       \/ \E o \in DOMAIN objects :
            /\ reg' = reg
            /\ a \in objects[o].at .. objects[o].at + getTypeAllocSize(objects[o].ty) - 1]_vars
=============================================================================
