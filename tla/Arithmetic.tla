------------------------------ MODULE Arithmetic ------------------------------
(***************************************************************************)
(* The scalar instructions: the JVM instruction or the call of             *)
(* runtime/Instruction.java that the translator emits for each of them     *)
(* (instruction.cc), run on the local variables that hold the operands,    *)
(* and the store of the result (loadstore.cc), against what the LLVM       *)
(* language reference says the instruction computes.                       *)
(*                                                                         *)
(* In LLVM an integer of w bits is a pattern in 0 .. 2^w - 1.  A local     *)
(* variable is a Java int, or a long for 64 bits: an i8 or i16 is kept     *)
(* sign-extended, an i1 as 0 or 1.  The widths are parameters that keep    *)
(* the order of 1 < 8 < 16 < 32 < 64.  A float or double is NaN or an       *)
(* integer of no more significant bits than its type has: fractions, which *)
(* conversions cut off, infinities and signed zeros are left out.          *)
(***************************************************************************)
EXTENDS Integers

CONSTANTS Width,     \* Width[ty]: the bits of i1, i8, i16, i32 and i64
          Precision, \* Precision[ty]: the significant bits of f32 and f64
          NaN,       \* not a number
          NoResult   \* the instruction has not run yet

Types      == {"i1", "i8", "i16", "i32", "i64"}
FloatTypes == {"f32", "f64"}

ASSUME WidthAssumption ==
  /\ Width \in [Types -> Nat]
  /\ Width["i1"] = 1 /\ Width["i1"] < Width["i8"] /\ Width["i8"] < Width["i16"]
  /\ Width["i16"] < Width["i32"] /\ Width["i32"] < Width["i64"]

\* 24 and 53.
ASSUME PrecisionAssumption ==
  /\ Precision \in [FloatTypes -> Nat]
  /\ Width["i16"] <= Precision["f32"] /\ Precision["f32"] < Width["i32"]
  /\ Width["i32"] <= Precision["f64"] /\ Precision["f64"] < Width["i64"]

ASSUME NaNAssumption == NaN \notin Int

VARIABLES inst,   \* the instruction, with the patterns of its operands
          result  \* the local variable of its result

vars == <<inst, result>>

-----------------------------------------------------------------------------
(* Java's int and long arithmetic, on numbers in -h .. h - 1. *)

Wrap(n, h)     == ((n + h) % (2 * h)) - h
Unsigned(n, h) == IF n < 0 THEN n + 2 * h ELSE n
Signed(n, h)   == IF n >= h THEN n - 2 * h ELSE n

Abs(n) == IF n < 0 THEN -n ELSE n
Bit(b) == IF b THEN 1 ELSE 0

\* idiv and ldiv round towards zero, irem and lrem have the dividend's sign.
Quot(a, b) == IF (a < 0) <=> (b < 0) THEN Abs(a) \div Abs(b) ELSE -(Abs(a) \div Abs(b))
JavaDiv(a, b, h) == Wrap(Quot(a, b), h)
JavaRem(a, b)    == a - Quot(a, b) * b

\* The nearest number of p significant bits, the even one of two.
Round(n, p) ==
  LET fits(i) == Abs(n) < 2 ^ (i + p)
      ulp  == 2 ^ (CHOOSE i \in 0 .. Abs(n) : fits(i) /\ (i = 0 \/ ~fits(i - 1)))
      low  == n \div ulp
      rest == 2 * (n % ulp)
  IN  IF rest < ulp \/ (rest = ulp /\ low % 2 = 0) THEN low * ulp ELSE (low + 1) * ulp

Rounded(n, ty) == IF n = NaN THEN NaN ELSE Round(n, Precision[ty])

\* f2i, f2l, d2i, d2l.
Saturated(n, h) == IF n > h - 1 THEN h - 1 ELSE IF n < -h THEN -h ELSE n

-----------------------------------------------------------------------------
(* runtime/Instruction.java *)

SameSign(a, b) == (a < 0) <=> (b < 0)

icmp_ult(a, b) == IF SameSign(a, b) THEN a < b ELSE b < a
icmp_ule(a, b) == IF SameSign(a, b) THEN a <= b ELSE b <= a
icmp_ugt(a, b) == IF SameSign(a, b) THEN a > b ELSE b > a
icmp_uge(a, b) == IF SameSign(a, b) THEN a >= b ELSE b >= a

\* udiv and urem of bytes, shorts and ints: zero-extend when one is negative.
\* small is the range of their type, h the one of the division.
udivSmall(a, b, small, h) ==
  IF a >= 0 /\ b >= 0 THEN Wrap(JavaDiv(a, b, h), small)
  ELSE Wrap(JavaDiv(Unsigned(a, small), Unsigned(b, small), h), small)

uremSmall(a, b, small) ==
  IF a >= 0 /\ b >= 0 THEN Wrap(JavaRem(a, b), small)
  ELSE Wrap(JavaRem(Unsigned(a, small), Unsigned(b, small)), small)

\* op1 >>> 1, half_op1 - op2 * half_result, half_rem + half_rem + op1_parity.
HalfOp(a, h)     == Unsigned(a, h) \div 2
HalfRem(a, b, h) == HalfOp(a, h) - Wrap(b * (HalfOp(a, h) \div b), h)
DoubledRem(a, b, h) ==
  Wrap(Wrap(HalfRem(a, b, h) + HalfRem(a, b, h), h) + (Unsigned(a, h) % 2), h)

\* Mutant: the half that was shifted out is forgotten.
udivBigBySmallHalved(a, b, h) ==
  LET half == HalfOp(a, h) \div b IN IF half = 0 THEN 1 ELSE Wrap(half + half, h)

\* The dividend is 2^63 or more, the divisor is less.
udivBigBySmall(a, b, h) ==
  LET half     == HalfOp(a, h) \div b
      doubled  == Wrap(half + half, h)
  IN  IF half = 0 THEN 1
      ELSE IF DoubledRem(a, b, h) >= b THEN Wrap(doubled + 1, h) ELSE doubled

uremBigBySmall(a, b, h) ==
  LET rem == DoubledRem(a, b, h) IN
  IF HalfOp(a, h) \div b = 0 THEN Wrap(a - b, h)
  ELSE IF rem >= b THEN rem - b ELSE rem

udivLong(a, b, h) ==
  IF a >= 0 THEN (IF b >= 0 THEN Quot(a, b) ELSE 0)
  ELSE IF b >= 0 THEN udivBigBySmall(a, b, h)
  ELSE IF a >= b THEN 1 ELSE 0

uremLong(a, b, h) ==
  IF a >= 0 THEN (IF b >= 0 THEN JavaRem(a, b) ELSE a)
  ELSE IF b >= 0 THEN uremBigBySmall(a, b, h)
  ELSE IF a >= b THEN a - b ELSE a

fcmp_ord(a, b) == a # NaN /\ b # NaN
fcmp_uno(a, b) == a = NaN \/ b = NaN

\* uitofp_f64(long): the mantissa is the value >>> 11, rounded to nearest.
uitofpLong(a, h) ==
  LET ulp      == 2 ^ (Width["i64"] - Precision["f64"])
      mantissa == Unsigned(a, h) \div ulp
      discard  == Unsigned(a, h) % ulp
      up       == 2 * discard > ulp \/ (2 * discard = ulp /\ mantissa % 2 = 1)
  IN  IF a >= 0 THEN Rounded(a, "f64") ELSE (mantissa + Bit(up)) * ulp

\* Long.MAX_VALUE is rounded to a double before it is compared or subtracted.
fptouiLong(a, h) ==
  LET max == Rounded(h - 1, "f64") IN
  IF a <= max THEN Saturated(a, h)
  ELSE Wrap(Saturated(Rounded(Rounded(a - max, "f64") - 1, "f64"), h) - h, h)

-----------------------------------------------------------------------------
(* The emitted code. *)

Half(ty) == 2 ^ (Width[ty] - 1)
Patterns(ty) == 0 .. 2 * Half(ty) - 1

\* The JVM type that computes with ty.
Expanded(ty) == IF ty = "i64" THEN "i64" ELSE "i32"

\* The local variable that holds a pattern, and the values it may have.
Local(ty, n) == IF ty \in FloatTypes \cup {"i1"} THEN n ELSE Signed(n, Half(ty))

Floats(ty) == {n \in -(2 * Half("i64")) .. 2 * Half("i64") : n = Round(n, Precision[ty])} \cup {NaN}
Locals(ty) == IF ty \in FloatTypes THEN Floats(ty) ELSE {Local(ty, n) : n \in Patterns(ty)}

\* printValueLoad: an integer constant is loaded by its getSExtValue.
Load(ty, n, isConst) == IF isConst THEN Signed(n, Half(ty)) ELSE Local(ty, n)

\* Mutant: no truncation.
StoreUntruncated(ty, n) == n

\* printValueStore: i2s, i2b, iand 1.
Store(ty, n) == CASE ty = "i1" -> n % 2
                  [] ty \in {"i8", "i16"} -> Wrap(n, Half(ty))
                  [] OTHER -> n

\* printCmpInstruction.
Compare(op, a, b) ==
  Bit(CASE op = "eq"  -> a = b            [] op = "ne"  -> a # b
        [] op = "slt" -> a < b            [] op = "sle" -> a <= b
        [] op = "sgt" -> a > b            [] op = "sge" -> a >= b
        [] op = "ult" -> icmp_ult(a, b)   [] op = "ule" -> icmp_ule(a, b)
        [] op = "ugt" -> icmp_ugt(a, b)   [] op = "uge" -> icmp_uge(a, b))

\* fcmp_oeq .. fcmp_uno.
CompareFloats(op, a, b) ==
  Bit(CASE op = "ord" -> fcmp_ord(a, b)            [] op = "uno" -> fcmp_uno(a, b)
        [] op = "oeq" -> fcmp_ord(a, b) /\ a = b   [] op = "ueq" -> fcmp_uno(a, b) \/ a = b
        [] op = "one" -> fcmp_ord(a, b) /\ a # b   [] op = "une" -> fcmp_uno(a, b) \/ a # b
        [] op = "ogt" -> fcmp_ord(a, b) /\ a > b   [] op = "ugt" -> fcmp_uno(a, b) \/ a > b
        [] op = "oge" -> fcmp_ord(a, b) /\ a >= b  [] op = "uge" -> fcmp_uno(a, b) \/ a >= b
        [] op = "olt" -> fcmp_ord(a, b) /\ a < b   [] op = "ult" -> fcmp_uno(a, b) \/ a < b
        [] op = "ole" -> fcmp_ord(a, b) /\ a <= b  [] op = "ule" -> fcmp_uno(a, b) \/ a <= b)

\* The JVM uses as many bits of a shift count as its type has use for.
Count(ty, b) == b % Width[Expanded(ty)]

\* printArithmeticInstruction.
Operate(op, ty, a, b) ==
  LET h == Half(Expanded(ty)) IN
  CASE op = "add"  -> Wrap(a + b, h)
    [] op = "sub"  -> Wrap(a - b, h)
    [] op = "mul"  -> Wrap(a * b, h)
    [] op = "sdiv" -> JavaDiv(a, b, h)
    [] op = "srem" -> JavaRem(a, b)
    [] op = "shl"  -> Wrap(a * 2 ^ Count(ty, b), h)
    [] op = "lshr" -> Wrap(Unsigned(a, h) \div 2 ^ Count(ty, b), h)
    [] op = "ashr" -> a \div 2 ^ Count(ty, b)
    [] op = "udiv" -> IF ty = "i64" THEN udivLong(a, b, h)
                                    ELSE udivSmall(a, b, Half(ty), Half("i64"))
    [] op = "urem" -> IF ty = "i64" THEN uremLong(a, b, h)
                                    ELSE uremSmall(a, b, Half(ty))

\* printCastInstruction: l2i and i2b, i2s on the way down; i2l or nothing for
\* SExt; value & mask for ZExt.
Cast(op, ty, dest, a) ==
  CASE op = "sext"  -> a
    [] op = "zext"  -> Unsigned(a, Half(ty))
    [] op = "trunc" -> Wrap(a, Half(CASE dest \in {"i1", "i8"} -> "i8" [] OTHER -> dest))

\* The casts from and to floating point: i2f .. l2d, f2i .. d2l, f2d, d2f, and
\* uitofp_* and fptoui_*, which go through double, int or long.
Convert(op, ty, dest, a) ==
  CASE op \in {"sitofp", "fptrunc"} -> Rounded(a, dest)
    [] op = "fpext"  -> a
    [] op = "fptosi" -> Saturated(a, Half(Expanded(dest)))
    [] op = "uitofp" ->
         Rounded(IF ty = "i64" THEN uitofpLong(a, Half(ty)) ELSE Unsigned(a, Half(ty)), dest)
    [] op = "fptoui" ->
         IF dest = "i64" THEN fptouiLong(a, Half("i64"))
         ELSE Wrap(Saturated(a, Half(IF dest = "i32" THEN "i64" ELSE "i32")), Half(dest))

Comparisons == {"eq", "ne", "slt", "sle", "sgt", "sge", "ult", "ule", "ugt", "uge"}
Arithmetics == {"add", "sub", "mul", "sdiv", "srem", "shl", "lshr", "ashr", "udiv", "urem"}
Casts       == {"sext", "zext", "trunc"}
FloatComparisons == {"ord", "uno", "oeq", "ueq", "one", "une", "ogt", "ugt",
                     "oge", "uge", "olt", "ult", "ole", "ule"}
Conversions == {"sitofp", "uitofp", "fptosi", "fptoui", "fptrunc", "fpext"}

\* icmp and fcmp share the names of some predicates.
ComparesFloats(i) == i.type \in FloatTypes /\ i.op \in FloatComparisons
ResultType(i) == IF i.op \in Comparisons \cup FloatComparisons THEN "i1" ELSE i.dest

Emitted(i) ==
  LET a == Load(i.type, i.left, FALSE)
      b == Load(i.type, i.right, i.const)
  IN  Store(ResultType(i),
        CASE i.op \in Conversions -> Convert(i.op, i.type, i.dest, a)
          [] ComparesFloats(i)    -> CompareFloats(i.op, a, b)
          [] i.op \in Arithmetics -> Operate(i.op, i.type, a, b)
          [] i.op \in Casts       -> Cast(i.op, i.type, i.dest, a)
          [] OTHER                -> Compare(i.op, a, b))

-----------------------------------------------------------------------------
(* The LLVM language reference. *)

\* Division by zero and the overflow of a division are undefined behaviour, a
\* shift by the width or more is poison, and so is a number that does not fit.
Defined(i) ==
  LET x == Signed(i.left, Half(i.type))
      y == Signed(i.right, Half(i.type))
  IN  CASE i.op = "fptoui" -> i.left # NaN /\ i.left \in Patterns(i.dest)
        [] i.op = "fptosi" -> i.left # NaN /\ i.left \in -Half(i.dest) .. Half(i.dest) - 1
        [] i.op \in {"udiv", "urem"} -> i.right # 0
        [] i.op \in {"sdiv", "srem"} -> i.right # 0 /\ ~(x = -Half(i.type) /\ y = -1)
        [] i.op \in {"shl", "lshr", "ashr"} -> i.right < Width[i.type]
        [] OTHER -> TRUE

\* How two floating-point numbers compare, and what each predicate accepts.
Outcome(a, b) == CASE a = NaN \/ b = NaN -> "unordered"
                   [] OTHER -> CASE a < b -> "less" [] a = b -> "equal" [] a > b -> "greater"

Accepted(op) ==
  (IF op \in {"uno", "ueq", "une", "ugt", "uge", "ult", "ule"} THEN {"unordered"} ELSE {})
    \cup CASE op = "ord" -> {"less", "equal", "greater"}
           [] op = "uno" -> {}
           [] op \in {"oeq", "ueq"} -> {"equal"}
           [] op \in {"one", "une"} -> {"less", "greater"}
           [] op \in {"ogt", "ugt"} -> {"greater"}
           [] op \in {"oge", "uge"} -> {"greater", "equal"}
           [] op \in {"olt", "ult"} -> {"less"}
           [] op \in {"ole", "ule"} -> {"less", "equal"}

\* The pattern, or the floating-point number, an instruction yields.
Meaning(i) ==
  LET x == Signed(i.left, Half(i.type))
      y == Signed(i.right, Half(i.type))
      truncated(n) == n % (2 * Half(ResultType(i)))
  IN  IF ComparesFloats(i) THEN Bit(Outcome(i.left, i.right) \in Accepted(i.op)) ELSE
      CASE i.op = "sitofp" -> Rounded(x, i.dest)
        [] i.op \in {"uitofp", "fptrunc"} -> Rounded(i.left, i.dest)
        [] i.op = "fptosi" -> truncated(i.left)
        [] i.op \in {"fptoui", "fpext"} -> i.left
        [] i.op = "eq"  -> Bit(i.left = i.right)   [] i.op = "ne"  -> Bit(i.left # i.right)
        [] i.op = "slt" -> Bit(x < y)              [] i.op = "sle" -> Bit(x <= y)
        [] i.op = "sgt" -> Bit(x > y)              [] i.op = "sge" -> Bit(x >= y)
        [] i.op = "ult" -> Bit(i.left < i.right)   [] i.op = "ule" -> Bit(i.left <= i.right)
        [] i.op = "ugt" -> Bit(i.left > i.right)   [] i.op = "uge" -> Bit(i.left >= i.right)
        [] i.op = "add" -> truncated(i.left + i.right)
        [] i.op = "sub" -> truncated(i.left - i.right)
        [] i.op = "mul" -> truncated(i.left * i.right)
        [] i.op = "udiv" -> i.left \div i.right    [] i.op = "urem" -> i.left % i.right
        [] i.op = "sdiv" -> truncated(Quot(x, y))
        [] i.op = "srem" -> truncated(x - Quot(x, y) * y)
        [] i.op = "shl"  -> truncated(i.left * 2 ^ i.right)
        [] i.op = "lshr" -> i.left \div 2 ^ i.right
        [] i.op = "ashr" -> truncated(x \div 2 ^ i.right)
        [] i.op = "sext" -> truncated(x)
        [] i.op = "zext" -> i.left
        [] i.op = "trunc" -> truncated(i.left)

-----------------------------------------------------------------------------
(* One instruction runs. *)

Instruction(op, ty, dest, left, right, isConst) ==
  [op |-> op, type |-> ty, dest |-> dest, left |-> left, right |-> right, const |-> isConst]

\* udiv(ZZ)Z, urem(ZZ)Z, uitofp_f32(Z)F .. fptoui_i1(D)Z do not exist: the
\* class would not link.
Linked(op, ty, dest) == ~(op \in {"udiv", "urem", "uitofp", "fptoui"} /\ "i1" \in {ty, dest})

Converts(op, ty, dest) ==
  \/ op \in {"sext", "zext"}     /\ {ty, dest} \subseteq Types /\ Width[ty] < Width[dest]
  \/ op = "trunc"                /\ {ty, dest} \subseteq Types /\ Width[dest] < Width[ty]
  \/ op \in {"sitofp", "uitofp"} /\ ty \in Types /\ dest \in FloatTypes
  \/ op \in {"fptosi", "fptoui"} /\ ty \in FloatTypes /\ dest \in Types
  \/ op = "fpext"                /\ ty = "f32" /\ dest = "f64"
  \/ op = "fptrunc"              /\ ty = "f64" /\ dest = "f32"

Operands(ty) == IF ty \in FloatTypes THEN Floats(ty) ELSE Patterns(ty)

\* Operands that compare in every way floating-point numbers can.
Comparands == {-1, 0, 1, NaN}

Chosen ==
  /\ \/ \E ty \in Types, op \in Comparisons \cup Arithmetics :
          \E left, right \in Patterns(ty), isConst \in BOOLEAN :
            inst = Instruction(op, ty, ty, left, right, isConst)
     \/ \E ty \in FloatTypes, op \in FloatComparisons, left, right \in Comparands :
          inst = Instruction(op, ty, ty, left, right, FALSE)
     \/ \E op \in Casts \cup Conversions, ty, dest \in Types \cup FloatTypes :
          /\ Converts(op, ty, dest)
          /\ \E left \in Operands(ty) : inst = Instruction(op, ty, dest, left, 0, FALSE)
  /\ Linked(inst.op, inst.type, inst.dest)
  /\ Defined(inst)

Init == result = NoResult /\ Chosen

Run == /\ result = NoResult
       /\ result' = Emitted(inst)
       /\ UNCHANGED inst

Next == Run

Spec == Init /\ [][Next]_vars

-----------------------------------------------------------------------------
(* Properties. *)

Done == result # NoResult

\* A local variable holds a value of its type: the next instruction that reads
\* it finds an i1 that is 0 or 1, an i8 or i16 that is sign-extended, a float
\* that was rounded.
TypeOK == Done => result \in Locals(ResultType(inst))

\* The instructions known to compute something else: a logical shift of a
\* sign-extended local variable; an i1 that is read as a signed number; an i1
\* compared with the constant true, which is loaded as -1; an unsigned i64 that
\* is rounded twice on its way to f32; and a number that needs all 64 bits, from
\* which fptoui_i64 subtracts one too many.
Diverges(i) ==
  \/ i.op = "lshr" /\ i.type \in {"i8", "i16"}
  \/ i.op \in {"sext", "sitofp"} /\ i.type = "i1"
  \/ i.op \in {"slt", "sle", "sgt", "sge"} /\ i.type = "i1"
  \/ i.op \in Comparisons /\ i.type = "i1" /\ i.const
  \/ i.op = "uitofp" /\ i.type = "i64" /\ i.dest = "f32"
  \/ i.op = "fptoui" /\ i.dest = "i64" /\ i.left >= Half("i64")

\* Instruction.java:53-442, instruction.cc:75-420: on every operand for which
\* LLVM defines the result, the emitted code computes it; in particular the
\* unsigned comparisons, divisions, remainders and conversions, which Java does
\* not have.
ComputesLlvm ==
  Done /\ ~Diverges(inst) => result = Local(ResultType(inst), Meaning(inst))
=============================================================================
