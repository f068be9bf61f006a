-------------------------- MODULE ArithmeticProofs --------------------------
(***************************************************************************)
(* The scalar instructions are right for every width of the integer types  *)
(* and every precision of the floating-point types that the assumptions of *)
(* Arithmetic allow: facts about numbers, powers of two and rounding, then *)
(* the types, then one instruction after the other, then the theorems.     *)
(***************************************************************************)
EXTENDS Arithmetic, FiniteSetTheorems, TLAPS

\* Quotient and remainder by a positive number exist ...
LEMMA DivMod ==
  ASSUME NEW n \in Int, NEW b \in Nat \ {0}
  PROVE  /\ n \div b \in Int
         /\ n % b \in 0 .. b - 1
         /\ n = b * (n \div b) + (n % b)
OBVIOUS

\* ... the product of a positive number with a larger one is larger by it ...
LEMMA ProductStep ==
  ASSUME NEW b \in Nat \ {0}, NEW k \in Int, NEW m \in Int, k < m
  PROVE  b * k + b <= b * m
<1>1. PICK d \in Nat : m = k + 1 + d
  <2>1. m - k - 1 \in Nat
    OBVIOUS
  <2> QED
    BY <2>1
<1>2. b * m = b * k + b + b * d
  BY <1>1
<1>3. b * d >= 0 /\ b * d \in Int
  OBVIOUS
<1> QED
  BY <1>2, <1>3

\* ... and so they are unique.
LEMMA DivUnique ==
  ASSUME NEW n \in Int, NEW b \in Nat \ {0}, NEW k \in Int, NEW s \in 0 .. b - 1,
         n = b * k + s
  PROVE  n \div b = k /\ n % b = s
<1> DEFINE q == n \div b
           r == n % b
<1>1. q \in Int /\ r \in 0 .. b - 1 /\ n = b * q + r
  BY DivMod
<1> HIDE DEF q, r
<1>2. ~(q < k)
  <2>1. SUFFICES ASSUME q < k PROVE FALSE
    OBVIOUS
  <2>2. b * q + b <= b * k
    BY <1>1, <2>1, ProductStep
  <2>3. b * q \in Int /\ b * k \in Int
    BY <1>1
  <2> QED
    BY <1>1, <2>2, <2>3
<1>3. ~(k < q)
  <2>1. SUFFICES ASSUME k < q PROVE FALSE
    OBVIOUS
  <2>2. b * k + b <= b * q
    BY <1>1, <2>1, ProductStep
  <2>3. b * q \in Int /\ b * k \in Int
    BY <1>1
  <2> QED
    BY <1>1, <2>2, <2>3
<1>4. q = k
  BY <1>1, <1>2, <1>3
<1>5. r = s
  <2>1. b * k \in Int
    OBVIOUS
  <2> QED
    BY <1>1, <1>4, <2>1
<1> QED
  BY <1>4, <1>5 DEF q, r

-----------------------------------------------------------------------------
(* Java's numbers and their patterns. *)

\* Java's wrapping leaves the numbers of its type alone ...
LEMMA WrapInRange ==
  ASSUME NEW h \in Nat \ {0}, NEW n \in -h .. h - 1
  PROVE  Wrap(n, h) = n
<1>1. n + h \in 0 .. 2 * h - 1 /\ n + h = (2 * h) * 0 + (n + h) /\ 2 * h \in Nat \ {0}
  OBVIOUS
<1>2. (n + h) % (2 * h) = n + h
  BY <1>1, DivUnique
<1> QED
  BY <1>2 DEF Wrap

\* ... and takes a pattern to the number it stands for ...
LEMMA WrapPattern ==
  ASSUME NEW h \in Nat \ {0}, NEW n \in 0 .. 2 * h - 1
  PROVE  Wrap(n, h) = Signed(n, h) /\ Wrap(n, h) \in -h .. h - 1
<1>1. CASE n < h
  BY <1>1, WrapInRange DEF Signed
<1>2. CASE ~(n < h)
  <2>1. /\ n - h \in 0 .. 2 * h - 1 /\ n + h = (2 * h) * 1 + (n - h)
        /\ 2 * h \in Nat \ {0} /\ n + h \in Int
    BY <1>2
  <2>2. (n + h) % (2 * h) = n - h
    BY <2>1, DivUnique
  <2> QED
    BY <1>2, <2>2 DEF Wrap, Signed
<1> QED
  BY <1>1, <1>2

-----------------------------------------------------------------------------
(* Numbers with the same pattern. *)

\* x and y differ by a multiple of m.
Congruent(x, y, m) == \E k \in Int : x = y + m * k

\* A witness of it.
LEMMA CongruentBy ==
  ASSUME NEW m \in Nat, NEW x \in Int, NEW y \in Int, NEW k \in Int, x = y + m * k
  PROVE  Congruent(x, y, m)
BY DEF Congruent

\* It is an equivalence ...
LEMMA CongruentSelf ==
  ASSUME NEW m \in Nat, NEW x \in Int
  PROVE  Congruent(x, x, m)
<1>1. \E k \in Int : x = x + m * k
  <2> WITNESS 0 \in Int
  <2> QED
    OBVIOUS
<1> QED
  BY <1>1 DEF Congruent

\* ... symmetric ...
LEMMA CongruentSymmetric ==
  ASSUME NEW m \in Nat, NEW x \in Int, NEW y \in Int, Congruent(x, y, m)
  PROVE  Congruent(y, x, m)
<1>1. PICK k \in Int : x = y + m * k
  BY DEF Congruent
<1>2. y = x + m * (-k) /\ -k \in Int
  <2>1. m * (-k) = -(m * k) /\ m * k \in Int
    OBVIOUS
  <2> QED
    BY <1>1, <2>1
<1> QED
  BY <1>2, CongruentBy

\* ... and transitive.
LEMMA CongruentTransitive ==
  ASSUME NEW m \in Nat, NEW x \in Int, NEW y \in Int, NEW z \in Int,
         Congruent(x, y, m), Congruent(y, z, m)
  PROVE  Congruent(x, z, m)
<1>1. PICK k \in Int : x = y + m * k
  BY DEF Congruent
<1>2. PICK l \in Int : y = z + m * l
  BY DEF Congruent
<1>3. x = z + m * (k + l)
  <2>1. m * (k + l) = m * k + m * l /\ m * k \in Int /\ m * l \in Int
    OBVIOUS
  <2> QED
    BY <1>1, <1>2, <2>1
<1>4. \E j \in Int : x = z + m * j
  <2> WITNESS k + l \in Int
  <2> QED
    BY <1>3
<1> QED
  BY <1>4 DEF Congruent

\* A multiple of a larger range is one of a smaller.
LEMMA CongruentCoarser ==
  ASSUME NEW m \in Nat, NEW j \in Nat, NEW x \in Int, NEW y \in Int,
         Congruent(x, y, m * j)
  PROVE  Congruent(x, y, m)
<1>1. PICK k \in Int : x = y + (m * j) * k
  BY DEF Congruent
<1>2. (m * j) * k = m * (j * k) /\ j * k \in Int
  OBVIOUS
<1> QED
  BY <1>1, <1>2, CongruentBy

\* Sums and differences of congruent numbers are congruent ...
LEMMA CongruentSum ==
  ASSUME NEW m \in Nat, NEW x \in Int, NEW y \in Int, NEW v \in Int, NEW w \in Int,
         Congruent(x, v, m), Congruent(y, w, m)
  PROVE  Congruent(x + y, v + w, m) /\ Congruent(x - y, v - w, m)
<1>1. PICK k \in Int : x = v + m * k
  BY DEF Congruent
<1>2. PICK l \in Int : y = w + m * l
  BY DEF Congruent
<1>3. /\ m * (k + l) = m * k + m * l /\ m * (k - l) = m * k - m * l
      /\ m * k \in Int /\ m * l \in Int
  OBVIOUS
<1>4. x + y = (v + w) + m * (k + l) /\ x - y = (v - w) + m * (k - l)
  BY <1>1, <1>2, <1>3
<1>5. \E j \in Int : x + y = (v + w) + m * j
  <2> WITNESS k + l \in Int
  <2> QED
    BY <1>4
<1>6. \E j \in Int : x - y = (v - w) + m * j
  <2> WITNESS k - l \in Int
  <2> QED
    BY <1>4
<1> QED
  BY <1>5, <1>6 DEF Congruent

\* ... and so are their products.
LEMMA CongruentProduct ==
  ASSUME NEW m \in Nat, NEW x \in Int, NEW y \in Int, NEW v \in Int, NEW w \in Int,
         Congruent(x, v, m), Congruent(y, w, m)
  PROVE  Congruent(x * y, v * w, m)
<1>1. PICK k \in Int : x = v + m * k
  BY DEF Congruent
<1>2. PICK l \in Int : y = w + m * l
  BY DEF Congruent
<1> DEFINE c == v * l + k * w + m * (k * l)
<1>3. (v + m * k) * (w + m * l) = v * w + m * c
  OBVIOUS
<1>4. \E j \in Int : x * y = v * w + m * j
  <2> WITNESS c \in Int
  <2> QED
    BY <1>1, <1>2, <1>3
<1> QED
  BY <1>4 DEF Congruent

\* Two congruent numbers of one range are equal.
LEMMA CongruentInRange ==
  ASSUME NEW m \in Nat \ {0}, NEW l \in Int, NEW x \in l .. l + m - 1, NEW y \in l .. l + m - 1,
         Congruent(x, y, m)
  PROVE  x = y
<1>1. PICK k \in Int : x = y + m * k
  BY DEF Congruent
<1>2. ~(k < 0)
  <2>1. k < 0 => m * k + m <= m * 0
    BY ProductStep
  <2>2. m * k \in Int
    OBVIOUS
  <2> QED
    BY <1>1, <2>1, <2>2
<1>3. ~(0 < k)
  <2>1. 0 < k => m * 0 + m <= m * k
    BY ProductStep
  <2>2. m * k \in Int
    OBVIOUS
  <2> QED
    BY <1>1, <2>1, <2>2
<1> QED
  BY <1>1, <1>2, <1>3

\* A number has the pattern of its remainder.
LEMMA CongruentMod ==
  ASSUME NEW m \in Nat \ {0}, NEW x \in Int
  PROVE  x % m \in 0 .. m - 1 /\ Congruent(x, x % m, m)
<1> DEFINE q == x \div m
           r == x % m
<1>1. q \in Int /\ r \in 0 .. m - 1 /\ x = m * q + r
  BY DivMod
<1> HIDE DEF q, r
<1>2. x = r + m * q
  BY <1>1
<1>3. Congruent(x, r, m)
  BY <1>1, <1>2 DEF Congruent
<1> QED
  BY <1>1, <1>3 DEF r

\* Congruent numbers have the same pattern, and a pattern is its own.
LEMMA PatternOf ==
  ASSUME NEW m \in Nat \ {0}, NEW x \in Int, NEW y \in Int, Congruent(x, y, m)
  PROVE  x % m = y % m /\ (y \in 0 .. m - 1 => x % m = y)
<1>1. /\ x % m \in 0 .. m - 1 /\ Congruent(x, x % m, m)
      /\ y % m \in 0 .. m - 1 /\ Congruent(y, y % m, m)
  BY CongruentMod
<1>2. Congruent(x % m, y, m)
  BY <1>1, CongruentSymmetric, CongruentTransitive
<1>3. Congruent(x % m, y % m, m)
  BY <1>1, <1>2, CongruentTransitive
<1>4. x % m \in 0 .. 0 + m - 1 /\ y % m \in 0 .. 0 + m - 1
  BY <1>1
<1>5. x % m = y % m
  BY <1>3, <1>4, CongruentInRange
<1>6. ASSUME y \in 0 .. m - 1 PROVE x % m = y
  <2>1. y \in 0 .. 0 + m - 1
    BY <1>6
  <2> QED
    BY <1>2, <1>4, <2>1, CongruentInRange
<1> QED
  BY <1>5, <1>6

\* A pattern, and the signed or unsigned number it stands for.
LEMMA CongruentSigned ==
  ASSUME NEW h \in Nat \ {0}, NEW n \in Int
  PROVE  Congruent(Signed(n, h), n, 2 * h) /\ Congruent(Unsigned(n, h), n, 2 * h)
<1>1. n - 2 * h = n + (2 * h) * (-1) /\ n + 2 * h = n + (2 * h) * 1 /\ 2 * h \in Nat
  OBVIOUS
<1>2. Congruent(n - 2 * h, n, 2 * h) /\ Congruent(n + 2 * h, n, 2 * h) /\ Congruent(n, n, 2 * h)
  BY <1>1, CongruentBy, CongruentSelf
<1> QED
  BY <1>2 DEF Signed, Unsigned

\* What wraps around keeps its pattern.
LEMMA CongruentWrap ==
  ASSUME NEW h \in Nat \ {0}, NEW n \in Int
  PROVE  Wrap(n, h) \in -h .. h - 1 /\ Congruent(Wrap(n, h), n, 2 * h)
<1> DEFINE q == (n + h) \div (2 * h)
           r == (n + h) % (2 * h)
<1>1. n + h \in Int /\ 2 * h \in Nat \ {0}
  OBVIOUS
<1>2. q \in Int /\ r \in 0 .. 2 * h - 1 /\ n + h = (2 * h) * q + r
  BY <1>1, DivMod
<1>3. Wrap(n, h) = r - h
  BY DEF Wrap
<1> HIDE DEF q, r
<1>4. (2 * h) * (-q) = -((2 * h) * q) /\ (2 * h) * q \in Int /\ -q \in Int
  BY <1>2
<1>5. r - h = n + (2 * h) * (-q) /\ r - h \in -h .. h - 1
  BY <1>2, <1>4
<1> QED
  BY <1>1, <1>3, <1>4, <1>5, CongruentBy

\* The only number of the range that is congruent to n is Wrap(n, h), and it
\* is the signed number of the pattern of n.
LEMMA WrapIs ==
  ASSUME NEW h \in Nat \ {0}, NEW n \in Int, NEW v \in -h .. h - 1, Congruent(v, n, 2 * h)
  PROVE  v = Wrap(n, h) /\ v = Signed(n % (2 * h), h)
<1>1. 2 * h \in Nat \ {0} /\ v \in Int
  OBVIOUS
<1>2. Wrap(n, h) \in -h .. h - 1 /\ Congruent(Wrap(n, h), n, 2 * h)
  BY CongruentWrap
<1>3. n % (2 * h) \in 0 .. 2 * h - 1 /\ Congruent(n, n % (2 * h), 2 * h)
  BY <1>1, CongruentMod
<1>4. Signed(n % (2 * h), h) \in -h .. h - 1
  BY <1>3 DEF Signed
<1>5. Congruent(Signed(n % (2 * h), h), n % (2 * h), 2 * h)
  BY <1>3, CongruentSigned
<1>6. Congruent(v, Wrap(n, h), 2 * h)
  BY <1>1, <1>2, CongruentSymmetric, CongruentTransitive
<1>7. Congruent(v, Signed(n % (2 * h), h), 2 * h)
  <2>1. Congruent(v, n % (2 * h), 2 * h)
    BY <1>1, <1>3, CongruentTransitive
  <2>2. n % (2 * h) \in Int /\ Signed(n % (2 * h), h) \in Int
    BY <1>3, <1>4
  <2>3. Congruent(n % (2 * h), Signed(n % (2 * h), h), 2 * h)
    BY <1>1, <1>5, <2>2, CongruentSymmetric
  <2> QED
    BY <1>1, <2>1, <2>2, <2>3, CongruentTransitive
<1>8. \A x \in -h .. h - 1 : x \in -h .. -h + 2 * h - 1 /\ -h \in Int
  OBVIOUS
<1> QED
  BY <1>1, <1>2, <1>4, <1>6, <1>7, <1>8, CongruentInRange
-----------------------------------------------------------------------------
(* Powers of two. *)

\* A set of natural numbers has a least one ...
LEMMA LeastElement ==
  ASSUME NEW T \in SUBSET Nat, T # {}
  PROVE  \E n \in T : \A m \in T : n <= m
<1> DEFINE R == OpToRel(<, Nat)
<1>1. IsWellFoundedOn(R, Nat)
  BY NatLessThanWellFounded
<1>2. \A x, y \in Nat : <<y, x>> \in R <=> y < x
  BY DEF OpToRel
<1> HIDE DEF R
<1>3. PICK x \in T : \A y \in T : ~(<<y, x>> \in R)
  BY <1>1, WFMin
<1>4. ASSUME NEW y \in T PROVE x <= y
  <2>1. ~(y < x)
    BY <1>2, <1>3
  <2> QED
    BY <2>1
<1> QED
  BY <1>4

\* ... so that induction holds for a set.
LEMMA SetInduction ==
  ASSUME NEW S, 0 \in S, \A n \in Nat : n \in S => n + 1 \in S
  PROVE  Nat \subseteq S
<1> DEFINE T == {n \in Nat : n \notin S}
<1> SUFFICES ASSUME T # {} PROVE FALSE
  OBVIOUS
<1>1. PICK n \in T : \A m \in T : n <= m
  BY LeastElement
<1>2. n # 0 /\ n \in Nat
  OBVIOUS
<1>3. n - 1 \in Nat /\ ~(n <= n - 1) /\ (n - 1) + 1 = n
  BY <1>2
<1>4. n - 1 \in S
  BY <1>1, <1>3
<1> QED
  BY <1>3, <1>4

\* 2^n is how many subsets 1 .. n has ...
LEMMA CountSubsets ==
  ASSUME NEW n \in Nat
  PROVE  /\ IsFiniteSet(SUBSET (1 .. n))
         /\ Cardinality(SUBSET (1 .. n)) = 2 ^ n
         /\ 2 ^ n \in Nat
<1>1. IsFiniteSet(1 .. n) /\ Cardinality(1 .. n) = n
  <2>1. n - 1 + 1 = n /\ (1 > n => n = 0)
    OBVIOUS
  <2> QED
    BY <2>1, FS_Interval
<1>2. IsFiniteSet(SUBSET (1 .. n)) /\ Cardinality(SUBSET (1 .. n)) = 2 ^ n
  BY <1>1, FS_SUBSET
<1> QED
  BY <1>2, FS_CardinalityType

\* ... which starts with one ...
LEMMA PowerZero == 2 ^ 0 = 1
<1>1. SUBSET (1 .. 0) = {{}}
  OBVIOUS
<1>2. Cardinality({{}}) = 1
  BY FS_Singleton
<1> QED
  BY <1>1, <1>2, CountSubsets

\* ... and doubles with n: each subset is taken with and without n + 1.
LEMMA PowerSuccessor ==
  ASSUME NEW n \in Nat
  PROVE  2 ^ (n + 1) = 2 * 2 ^ n
<1> DEFINE A == SUBSET (1 .. n)
           B == {T \in SUBSET (1 .. n + 1) : n + 1 \in T}
           f == [T \in A |-> T \cup {n + 1}]
<1>1. A \cup B = SUBSET (1 .. n + 1) /\ A \cap B = {}
  <2>1. 1 .. n + 1 = (1 .. n) \cup {n + 1} /\ n + 1 \notin 1 .. n
    OBVIOUS
  <2> QED
    BY <2>1
<1>2. IsFiniteSet(A) /\ Cardinality(A) = 2 ^ n /\ 2 ^ n \in Nat
  BY CountSubsets
<1>3. f \in Bijection(A, B)
  <2>1. 1 .. n + 1 = (1 .. n) \cup {n + 1} /\ n + 1 \notin 1 .. n
    OBVIOUS
  <2>2. f \in [A -> B]
    BY <2>1
  <2>3. ASSUME NEW S \in A, NEW T \in A, f[S] = f[T] PROVE S = T
    BY <2>1, <2>3
  <2>4. ASSUME NEW T \in B PROVE \E S \in A : f[S] = T
    <3>1. T \ {n + 1} \in A /\ (T \ {n + 1}) \cup {n + 1} = T
      BY <2>1
    <3>2. f[T \ {n + 1}] = T
      BY <3>1
    <3> QED
      BY <3>1, <3>2
  <2> HIDE DEF f, A, B
  <2> QED
    BY <2>2, <2>3, <2>4 DEF Bijection, Injection, Surjection, IsInjective
<1>4. IsFiniteSet(B) /\ Cardinality(B) = 2 ^ n
  <2>1. ExistsBijection(A, B)
    BY <1>3 DEF ExistsBijection
  <2> HIDE DEF A, B
  <2> QED
    BY <1>2, <2>1, FS_Bijection
<1>5. Cardinality(A \cup B) = 2 ^ n + 2 ^ n - Cardinality(A \cap B)
  <2> HIDE DEF A, B
  <2> QED
    BY <1>2, <1>4, FS_Union
<1>6. Cardinality(A \cap B) = 0
  BY <1>1, FS_EmptySet
<1>7. Cardinality(SUBSET (1 .. n + 1)) = 2 ^ (n + 1)
  <2>1. n + 1 \in Nat
    OBVIOUS
  <2> QED
    BY <2>1, CountSubsets
<1> HIDE DEF A, B
<1>8. 2 ^ (n + 1) = 2 ^ n + 2 ^ n - 0
  BY <1>1, <1>5, <1>6, <1>7
<1>9. \A x \in Nat : x + x - 0 = 2 * x
  OBVIOUS
<1> QED
  BY <1>2, <1>8, <1>9

\* A power of two is a positive number.
LEMMA PowerPositive ==
  ASSUME NEW n \in Nat
  PROVE  2 ^ n \in Nat \ {0}
<1> DEFINE S == {m \in Nat : 2 ^ m \in Nat \ {0}}
<1>1. 0 \in S
  BY PowerZero
<1>2. ASSUME NEW m \in Nat, m \in S PROVE m + 1 \in S
  <2>1. 2 ^ (m + 1) = 2 * 2 ^ m /\ 2 ^ m \in Nat \ {0}
    BY <1>2, PowerSuccessor
  <2> QED
    BY <2>1
<1> HIDE DEF S
<1>3. Nat \subseteq S
  BY <1>1, <1>2, SetInduction
<1> QED
  BY <1>3 DEF S

\* Their product adds the exponents.
LEMMA PowerSum ==
  ASSUME NEW a \in Nat, NEW b \in Nat
  PROVE  2 ^ (a + b) = 2 ^ a * 2 ^ b
<1> DEFINE S == {m \in Nat : 2 ^ (a + m) = 2 ^ a * 2 ^ m}
<1>1. 0 \in S
  <2>1. a + 0 = a /\ 2 ^ a \in Nat
    BY PowerPositive
  <2> QED
    BY <2>1, PowerZero
<1>2. ASSUME NEW m \in Nat, m \in S PROVE m + 1 \in S
  <2>1. 2 ^ (m + 1) = 2 * 2 ^ m /\ 2 ^ ((a + m) + 1) = 2 * 2 ^ (a + m)
    BY PowerSuccessor
  <2>2. 2 ^ (a + m) = 2 ^ a * 2 ^ m /\ a + (m + 1) = (a + m) + 1
    BY <1>2
  <2>3. 2 ^ a \in Nat /\ 2 ^ m \in Nat
    BY PowerPositive
  <2>4. \A x, y \in Nat : 2 * (x * y) = x * (2 * y)
    OBVIOUS
  <2> QED
    BY <2>1, <2>2, <2>3, <2>4
<1> HIDE DEF S
<1>3. Nat \subseteq S
  BY <1>1, <1>2, SetInduction
<1> QED
  BY <1>3 DEF S

\* They divide each other in order.
LEMMA PowersGrow ==
  ASSUME NEW a \in Nat, NEW b \in Nat
  PROVE  /\ a <= b => \E k \in Nat \ {0} : 2 ^ b = 2 ^ a * k
         /\ a <= b <=> 2 ^ a <= 2 ^ b
         /\ a < b <=> 2 * 2 ^ a <= 2 ^ b
<1>1. ASSUME NEW x \in Nat, NEW y \in Nat, x <= y
      PROVE  2 ^ y = 2 ^ x * 2 ^ (y - x) /\ 2 ^ x <= 2 ^ y
  <2>1. y - x \in Nat /\ y = x + (y - x)
    BY <1>1
  <2>2. 2 ^ y = 2 ^ x * 2 ^ (y - x)
    BY <2>1, PowerSum
  <2>3. 2 ^ x \in Nat \ {0} /\ 2 ^ (y - x) \in Nat \ {0}
    BY <2>1, PowerPositive
  <2>4. \A m, k \in Nat \ {0} : m <= m * k
    OBVIOUS
  <2> QED
    BY <2>2, <2>3, <2>4
<1>2. ASSUME NEW x \in Nat, NEW y \in Nat, x < y PROVE 2 * 2 ^ x <= 2 ^ y
  <2>1. x + 1 <= y /\ x + 1 \in Nat
    BY <1>2
  <2> QED
    BY <1>1, <2>1, PowerSuccessor
<1>3. 2 ^ a \in Nat \ {0} /\ 2 ^ b \in Nat \ {0}
  BY PowerPositive
<1>4. ASSUME a <= b PROVE \E k \in Nat \ {0} : 2 ^ b = 2 ^ a * k
  <2>1. b - a \in Nat
    BY <1>4
  <2> QED
    BY <1>1, <1>4, <2>1, PowerPositive
<1>5. ASSUME ~(a <= b) PROVE 2 * 2 ^ b <= 2 ^ a
  BY <1>2, <1>5
<1>6. ASSUME ~(a < b) PROVE 2 ^ b <= 2 ^ a
  BY <1>1, <1>6
<1>7. a <= b => 2 ^ a <= 2 ^ b
  BY <1>1
<1>8. a < b => 2 * 2 ^ a <= 2 ^ b
  BY <1>2
<1> QED
  BY <1>3, <1>4, <1>5, <1>6, <1>7, <1>8

\* A number is below its power of two.
LEMMA PowerExceeds ==
  ASSUME NEW n \in Nat
  PROVE  n < 2 ^ n
<1> DEFINE S == {m \in Nat : m < 2 ^ m}
<1>1. 0 \in S
  BY PowerZero
<1>2. ASSUME NEW m \in Nat, m \in S PROVE m + 1 \in S
  <2>1. 2 ^ (m + 1) = 2 * 2 ^ m /\ 2 ^ m \in Nat /\ m < 2 ^ m
    BY <1>2, PowerSuccessor, PowerPositive
  <2> QED
    BY <2>1
<1> HIDE DEF S
<1>3. Nat \subseteq S
  BY <1>1, <1>2, SetInduction
<1> QED
  BY <1>3 DEF S

\* ... of which it is the pattern.
LEMMA UnsignedOfWrap ==
  ASSUME NEW h \in Nat \ {0}, NEW n \in 0 .. 2 * h - 1
  PROVE  Unsigned(Wrap(n, h), h) = n
BY WrapPattern DEF Signed, Unsigned

\* A difference that leaves the type wraps around once.
LEMMA WrapBelow ==
  ASSUME NEW h \in Nat \ {0}, NEW n \in Int, -(2 * h) <= n, n < 0
  PROVE  Wrap(n, h) = Signed(n + 2 * h, h)
<1>1. CASE n >= -h
  BY <1>1, WrapInRange DEF Signed
<1>2. CASE ~(n >= -h)
  <2>1. /\ n + 3 * h \in 0 .. 2 * h - 1 /\ n + h = (2 * h) * (-1) + (n + 3 * h)
        /\ 2 * h \in Nat \ {0} /\ n + h \in Int
    BY <1>2
  <2>2. (n + h) % (2 * h) = n + 3 * h
    BY <2>1, DivUnique
  <2> QED
    BY <1>2, <2>2 DEF Wrap, Signed
<1> QED
  BY <1>1, <1>2

-----------------------------------------------------------------------------
\* Instruction.java:85-115: the comparisons of two numbers of either sign that
\* were made for signed types order them by their patterns.
THEOREM UnsignedComparisons ==
  ASSUME NEW h \in Nat \ {0}, NEW a \in -h .. h - 1, NEW b \in -h .. h - 1
  PROVE  /\ icmp_ult(a, b) <=> Unsigned(a, h) < Unsigned(b, h)
         /\ icmp_ule(a, b) <=> Unsigned(a, h) <= Unsigned(b, h)
         /\ icmp_ugt(a, b) <=> Unsigned(a, h) > Unsigned(b, h)
         /\ icmp_uge(a, b) <=> Unsigned(a, h) >= Unsigned(b, h)
BY DEF icmp_ult, icmp_ule, icmp_ugt, icmp_uge, SameSign, Unsigned

-----------------------------------------------------------------------------
\* Instruction.java:308-321, 347-360: a dividend of 2^63 or more is halved,
\* divided, and the quotient and the remainder are doubled.  Neither the
\* product nor the doubled remainder leaves the range of a long.
LEMMA HalvedDivision ==
  ASSUME NEW h \in Nat \ {0}, NEW a \in -h .. -1, NEW b \in 1 .. h - 1
  PROVE  LET q == HalfOp(a, h) \div b
             p == Unsigned(a, h) % 2
         IN  /\ q \in 0 .. h - 1
             /\ p \in {0, 1}
             /\ HalfRem(a, b, h) \in 0 .. b - 1
             /\ Unsigned(a, h) = b * (q + q) + 2 * HalfRem(a, b, h) + p
             /\ b * (q + q) \in Nat
             /\ q # 0 => DoubledRem(a, b, h) = 2 * HalfRem(a, b, h) + p
<1> DEFINE A == Unsigned(a, h)
           m == HalfOp(a, h)
           p == A % 2
           q == m \div b
           r == m % b
<1>1. A \in h .. 2 * h - 1
  BY DEF Unsigned
<1>2. m \in 0 .. h - 1 /\ p \in {0, 1} /\ A = 2 * m + p
  BY <1>1 DEF HalfOp
<1> HIDE DEF A, m, p
<1>3. q \in Int /\ r \in 0 .. b - 1 /\ m = b * q + r
  BY <1>2, DivMod
<1> HIDE DEF q, r
<1>4. q >= 0
  <2>1. SUFFICES ASSUME q < 0 PROVE FALSE
    BY <1>3
  <2>2. b * q + b <= b * 0
    BY <1>3, <2>1, ProductStep
  <2>3. b * q \in Int
    BY <1>3
  <2> QED
    BY <1>2, <1>3, <2>2, <2>3
<1>5. b * q \in 0 .. h - 1 /\ q <= b * q
  <2>1. b * q \in Int /\ b * q >= 0 /\ q <= b * q
    BY <1>3, <1>4
  <2> QED
    BY <1>2, <1>3, <2>1
<1>6. HalfRem(a, b, h) = r
  <2>1. Wrap(b * q, h) = b * q
    BY <1>5, WrapInRange
  <2> QED
    BY <1>2, <1>3, <1>5, <2>1 DEF HalfRem, m, q
<1>7. b * (q + q) = b * q + b * q
  BY <1>3
<1>8. ASSUME q # 0 PROVE DoubledRem(a, b, h) = 2 * r + p
  <2>1. b <= b * q
    BY <1>3, <1>4, <1>8, ProductStep
  <2>2. 2 * r + p <= h - 1
    BY <1>2, <1>3, <1>5, <2>1
  <2>3. Wrap(r + r, h) = r + r /\ Wrap(r + r + p, h) = r + r + p
    BY <1>2, <1>3, <2>2, WrapInRange
  <2> QED
    BY <1>2, <1>3, <1>6, <2>3 DEF DoubledRem, p, A
<1>9. q \in 0 .. h - 1
  BY <1>3, <1>4, <1>5
<1>10. A = b * (q + q) + 2 * r + p /\ b * (q + q) \in Nat
  BY <1>2, <1>3, <1>5, <1>7
<1> QED
  BY <1>2, <1>3, <1>6, <1>8, <1>9, <1>10 DEF q, m, p, A

\* Instruction.java:308-321: the quotient, whichever of its branches is taken.
LEMMA UDivBigBySmall ==
  ASSUME NEW h \in Nat \ {0}, NEW a \in -h .. -1, NEW b \in 1 .. h - 1
  PROVE  Unsigned(udivBigBySmall(a, b, h), h) = Unsigned(a, h) \div b
<1> DEFINE A == Unsigned(a, h)
           q == HalfOp(a, h) \div b
           r == HalfRem(a, b, h)
           p == A % 2
<1>1. A \in h .. 2 * h - 1 /\ b \in Nat \ {0}
  BY DEF Unsigned
<1>2. /\ q \in 0 .. h - 1 /\ p \in {0, 1} /\ r \in 0 .. b - 1
      /\ A = b * (q + q) + 2 * r + p
      /\ b * (q + q) \in Nat
      /\ q # 0 => DoubledRem(a, b, h) = 2 * r + p
  BY HalvedDivision
<1>3. udivBigBySmall(a, b, h) =
        IF q = 0 THEN 1
        ELSE IF DoubledRem(a, b, h) >= b THEN Wrap(Wrap(q + q, h) + 1, h) ELSE Wrap(q + q, h)
  BY DEF udivBigBySmall
<1> HIDE DEF A, q, r, p
<1>4. CASE q = 0
  <2>1. b * (q + q) = 0
    BY <1>4
  <2>2. A = b * 1 + (A - b) /\ A - b \in 0 .. b - 1
    BY <1>1, <1>2, <2>1
  <2>3. A \div b = 1
    BY <1>1, <2>2, DivUnique
  <2> QED
    BY <1>3, <1>4, <2>3 DEF Unsigned, A
<1>5. q + q <= b * (q + q)
  BY <1>2
<1>6. CASE q # 0 /\ ~(2 * r + p >= b)
  <2>1. 2 * r + p \in 0 .. b - 1 /\ A = b * (q + q) + (2 * r + p) /\ q + q \in Int
    BY <1>2, <1>6
  <2>2. A \div b = q + q
    BY <1>1, <2>1, DivUnique
  <2>3. q + q \in 0 .. 2 * h - 1
    BY <1>1, <1>2, <1>5
  <2> QED
    BY <1>2, <1>3, <1>6, <2>2, <2>3, UnsignedOfWrap DEF A
<1>7. CASE q # 0 /\ 2 * r + p >= b
  <2>1. b * (q + q + 1) = b * (q + q) + b
    BY <1>1, <1>2
  <2>2. /\ 2 * r + p - b \in 0 .. b - 1 /\ q + q + 1 \in Int
        /\ A = b * (q + q + 1) + (2 * r + p - b)
    BY <1>1, <1>2, <1>7, <2>1
  <2>3. A \div b = q + q + 1
    BY <1>1, <2>2, DivUnique
  <2>4. q + q + 1 \in 1 .. 2 * h - 1
    BY <1>1, <1>2, <1>5, <1>7
  <2>5. Unsigned(Wrap(Wrap(q + q, h) + 1, h), h) = q + q + 1
    <3>1. CASE q + q < h /\ q + q + 1 < h
      <4>1. Wrap(q + q, h) = q + q
        BY <1>2, <3>1, WrapInRange
      <4>2. Wrap(q + q + 1, h) = q + q + 1
        BY <1>2, <3>1, WrapInRange
      <4> QED
        BY <1>2, <4>1, <4>2 DEF Unsigned
    <3>2. CASE q + q < h /\ ~(q + q + 1 < h)
      <4>1. Wrap(q + q, h) = q + q
        BY <1>2, <3>2, WrapInRange
      <4> QED
        BY <2>4, <4>1, UnsignedOfWrap
    <3>3. CASE ~(q + q < h)
      <4>1. Wrap(q + q, h) = q + q - 2 * h
        BY <1>2, <2>4, <3>3, WrapPattern DEF Signed
      <4>2. q + q - 2 * h + 1 \in -h .. h - 1
        BY <1>2, <2>4, <3>3
      <4>3. Wrap(q + q - 2 * h + 1, h) = q + q - 2 * h + 1
        BY <4>2, WrapInRange
      <4> QED
        BY <1>2, <2>4, <4>1, <4>3 DEF Unsigned
    <3> QED
      BY <1>2, <3>1, <3>2, <3>3
  <2> QED
    BY <1>2, <1>3, <1>7, <2>3, <2>5 DEF A
<1> QED
  BY <1>2, <1>4, <1>6, <1>7

\* Instruction.java:347-360: the remainder.
LEMMA URemBigBySmall ==
  ASSUME NEW h \in Nat \ {0}, NEW a \in -h .. -1, NEW b \in 1 .. h - 1
  PROVE  uremBigBySmall(a, b, h) = Unsigned(a, h) % b
<1> DEFINE A == Unsigned(a, h)
           q == HalfOp(a, h) \div b
           r == HalfRem(a, b, h)
           p == A % 2
<1>1. A \in h .. 2 * h - 1 /\ b \in Nat \ {0} /\ a = A - 2 * h
  BY DEF Unsigned
<1>2. /\ q \in 0 .. h - 1 /\ p \in {0, 1} /\ r \in 0 .. b - 1
      /\ A = b * (q + q) + 2 * r + p
      /\ b * (q + q) \in Nat
      /\ q # 0 => DoubledRem(a, b, h) = 2 * r + p
  BY HalvedDivision
<1>3. uremBigBySmall(a, b, h) =
        IF q = 0 THEN Wrap(a - b, h)
        ELSE IF DoubledRem(a, b, h) >= b THEN DoubledRem(a, b, h) - b ELSE DoubledRem(a, b, h)
  BY DEF uremBigBySmall
<1> HIDE DEF A, q, r, p
<1>4. CASE q = 0
  <2>1. b * (q + q) = 0
    BY <1>4
  <2>2. A = b * 1 + (A - b) /\ A - b \in 0 .. b - 1
    BY <1>1, <1>2, <2>1
  <2>3. A % b = A - b
    BY <1>1, <2>2, DivUnique
  <2>4. Wrap(a - b, h) = A - b
    <3>1. a - b \in Int /\ -(2 * h) <= a - b /\ a - b < 0
      BY <1>1
    <3>2. Wrap(a - b, h) = Signed(a - b + 2 * h, h)
      BY <3>1, WrapBelow
    <3> QED
      BY <1>1, <2>2, <3>2 DEF Signed
  <2> QED
    BY <1>3, <1>4, <2>3, <2>4 DEF A
<1>5. CASE q # 0 /\ ~(2 * r + p >= b)
  <2>1. 2 * r + p \in 0 .. b - 1 /\ A = b * (q + q) + (2 * r + p) /\ q + q \in Int
    BY <1>2, <1>5
  <2>2. A % b = 2 * r + p
    BY <1>1, <2>1, DivUnique
  <2> QED
    BY <1>2, <1>3, <1>5, <2>2 DEF A
<1>6. CASE q # 0 /\ 2 * r + p >= b
  <2>1. b * (q + q + 1) = b * (q + q) + b
    BY <1>1, <1>2
  <2>2. /\ 2 * r + p - b \in 0 .. b - 1 /\ q + q + 1 \in Int
        /\ A = b * (q + q + 1) + (2 * r + p - b)
    BY <1>1, <1>2, <1>6, <2>1
  <2>3. A % b = 2 * r + p - b
    BY <1>1, <2>2, DivUnique
  <2> QED
    BY <1>2, <1>3, <1>6, <2>3 DEF A
<1> QED
  BY <1>2, <1>4, <1>5, <1>6

\* Instruction.java:304-330: udiv of two longs is the quotient of the numbers
\* their patterns stand for, whatever their signs.
THEOREM UDivLongIsUnsigned ==
  ASSUME NEW h \in Nat \ {0}, NEW a \in -h .. h - 1, NEW b \in (-h .. h - 1) \ {0}
  PROVE  Unsigned(udivLong(a, b, h), h) = Unsigned(a, h) \div Unsigned(b, h)
<1> DEFINE A == Unsigned(a, h)
           B == Unsigned(b, h)
<1>1. A \in 0 .. 2 * h - 1 /\ B \in 1 .. 2 * h - 1 /\ A \in Int /\ B \in Nat \ {0}
  BY DEF Unsigned
<1>2. CASE a >= 0 /\ b >= 0
  <2>1. udivLong(a, b, h) = a \div b /\ A = a /\ B = b
    BY <1>2 DEF udivLong, Quot, Abs, Unsigned
  <2>2. a \div b >= 0
    BY <1>2
  <2> QED
    BY <2>1, <2>2 DEF Unsigned
<1>3. CASE a >= 0 /\ b < 0
  <2>1. udivLong(a, b, h) = 0
    BY <1>3 DEF udivLong
  <2>2. A \in 0 .. B - 1 /\ A = B * 0 + A
    BY <1>1, <1>3 DEF Unsigned
  <2>3. A \div B = 0
    BY <1>1, <2>2, DivUnique
  <2> QED
    BY <2>1, <2>3 DEF Unsigned
<1>4. CASE a < 0 /\ b >= 0
  <2>1. udivLong(a, b, h) = udivBigBySmall(a, b, h) /\ B = b
    BY <1>4 DEF udivLong, Unsigned
  <2>2. a \in -h .. -1 /\ b \in 1 .. h - 1
    BY <1>4
  <2> QED
    BY <2>1, <2>2, UDivBigBySmall
<1>5. CASE a < 0 /\ b < 0
  <2>1. udivLong(a, b, h) = IF a >= b THEN 1 ELSE 0
    BY <1>5 DEF udivLong
  <2>2. A = a + 2 * h /\ B = b + 2 * h
    BY <1>5 DEF Unsigned
  <2>3. CASE a >= b
    <3>1. A - B \in 0 .. B - 1 /\ A = B * 1 + (A - B)
      BY <1>1, <1>5, <2>2, <2>3
    <3>2. A \div B = 1
      BY <1>1, <3>1, DivUnique
    <3> QED
      BY <2>1, <2>3, <3>2 DEF Unsigned
  <2>4. CASE ~(a >= b)
    <3>1. A \in 0 .. B - 1 /\ A = B * 0 + A
      BY <1>1, <1>5, <2>2, <2>4
    <3>2. A \div B = 0
      BY <1>1, <3>1, DivUnique
    <3> QED
      BY <2>1, <2>4, <3>2 DEF Unsigned
  <2> QED
    BY <2>3, <2>4
<1> QED
  BY <1>2, <1>3, <1>4, <1>5

\* Instruction.java:344-369: urem of two longs is the remainder of the numbers
\* their patterns stand for, whatever their signs.
THEOREM URemLongIsUnsigned ==
  ASSUME NEW h \in Nat \ {0}, NEW a \in -h .. h - 1, NEW b \in (-h .. h - 1) \ {0}
  PROVE  Unsigned(uremLong(a, b, h), h) = Unsigned(a, h) % Unsigned(b, h)
<1> DEFINE A == Unsigned(a, h)
           B == Unsigned(b, h)
<1>1. A \in 0 .. 2 * h - 1 /\ B \in 1 .. 2 * h - 1 /\ A \in Int /\ B \in Nat \ {0}
  BY DEF Unsigned
<1>2. CASE a >= 0 /\ b >= 0
  <2>1. uremLong(a, b, h) = a - (a \div b) * b /\ A = a /\ B = b
    BY <1>2 DEF uremLong, JavaRem, Quot, Abs, Unsigned
  <2>2. /\ a = b * (a \div b) + (a % b) /\ a \div b \in Int
        /\ a % b \in 0 .. b - 1
    BY <1>1, <2>1, DivMod
  <2>3. uremLong(a, b, h) = a % b
    BY <2>1, <2>2
  <2> QED
    BY <2>1, <2>2, <2>3 DEF Unsigned
<1>3. CASE a >= 0 /\ b < 0
  <2>1. uremLong(a, b, h) = a
    BY <1>3 DEF uremLong
  <2>2. A \in 0 .. B - 1 /\ A = B * 0 + A
    BY <1>1, <1>3 DEF Unsigned
  <2>3. A % B = A
    BY <1>1, <2>2, DivUnique
  <2> QED
    BY <2>1, <2>3
<1>4. CASE a < 0 /\ b >= 0
  <2>1. uremLong(a, b, h) = uremBigBySmall(a, b, h) /\ B = b
    BY <1>4 DEF uremLong, Unsigned
  <2>2. a \in -h .. -1 /\ b \in 1 .. h - 1
    BY <1>4
  <2>3. uremLong(a, b, h) = A % B
    BY <2>1, <2>2, URemBigBySmall
  <2>4. A % B \in 0 .. B - 1
    BY <1>1, DivMod
  <2> QED
    BY <2>3, <2>4 DEF Unsigned
<1>5. CASE a < 0 /\ b < 0
  <2>1. uremLong(a, b, h) = IF a >= b THEN a - b ELSE a
    BY <1>5 DEF uremLong
  <2>2. A = a + 2 * h /\ B = b + 2 * h
    BY <1>5 DEF Unsigned
  <2>3. CASE a >= b
    <3>1. A - B \in 0 .. B - 1 /\ A = B * 1 + (A - B)
      BY <1>1, <1>5, <2>2, <2>3
    <3>2. A - B = a - b /\ a - b >= 0
      BY <1>5, <2>2, <2>3
    <3>3. A % B = A - B
      BY <1>1, <3>1, DivUnique
    <3> QED
      BY <2>1, <2>3, <3>2, <3>3 DEF Unsigned
  <2>4. CASE ~(a >= b)
    <3>1. A \in 0 .. B - 1 /\ A = B * 0 + A
      BY <1>1, <1>5, <2>2, <2>4
    <3>2. A % B = A
      BY <1>1, <3>1, DivUnique
    <3> QED
      BY <2>1, <2>4, <3>2
  <2> QED
    BY <2>3, <2>4
<1> QED
  BY <1>2, <1>3, <1>4, <1>5

-----------------------------------------------------------------------------
(* Rounding to p significant bits. *)

\* The unit in the last place of n is 2^e.
Exponent(n, p, e) ==
  /\ Abs(n) < 2 ^ (e + p)
  /\ e = 0 \/ ~(Abs(n) < 2 ^ (e - 1 + p))

\* What Round chooses exists ...
LEMMA ExponentExists ==
  ASSUME NEW n \in Int, NEW p \in Nat
  PROVE  \E e \in 0 .. Abs(n) : Exponent(n, p, e)
<1> DEFINE T == {i \in Nat : Abs(n) < 2 ^ (i + p)}
<1>1. Abs(n) \in Nat
  BY DEF Abs
<1>2. Abs(n) \in T
  <2>1. Abs(n) + p \in Nat /\ Abs(n) < 2 ^ Abs(n) /\ Abs(n) <= Abs(n) + p
    BY <1>1, PowerExceeds
  <2>2. 2 ^ Abs(n) <= 2 ^ (Abs(n) + p)
    BY <1>1, <2>1, PowersGrow
  <2>3. 2 ^ Abs(n) \in Nat /\ 2 ^ (Abs(n) + p) \in Nat
    BY <1>1, <2>1, PowerPositive
  <2> QED
    BY <1>1, <2>1, <2>2, <2>3
<1>3. PICK e \in T : \A i \in T : e <= i
  BY <1>2, LeastElement
<1>4. e \in 0 .. Abs(n)
  BY <1>1, <1>2, <1>3
<1>5. ASSUME e # 0 PROVE ~(Abs(n) < 2 ^ (e - 1 + p))
  <2>1. e - 1 \in Nat /\ ~(e <= e - 1)
    BY <1>3, <1>5
  <2>2. e - 1 \notin T
    BY <1>3, <2>1
  <2> QED
    BY <2>1, <2>2
<1> QED
  BY <1>3, <1>4, <1>5 DEF Exponent

\* ... and is unique.
LEMMA ExponentUnique ==
  ASSUME NEW n \in Int, NEW p \in Nat, NEW e \in Nat, NEW f \in Nat,
         Exponent(n, p, e), Exponent(n, p, f)
  PROVE  e = f
<1>1. ASSUME NEW i \in Nat, NEW j \in Nat, Exponent(n, p, i), Exponent(n, p, j), i < j
      PROVE  FALSE
  <2>1. /\ i + p \in Nat /\ j - 1 + p \in Nat /\ i + p <= j - 1 + p /\ j # 0
        /\ Abs(n) \in Nat
    BY <1>1 DEF Abs
  <2>2. 2 ^ (i + p) <= 2 ^ (j - 1 + p)
    BY <2>1, PowersGrow
  <2>3. 2 ^ (i + p) \in Nat /\ 2 ^ (j - 1 + p) \in Nat
    BY <2>1, PowerPositive
  <2> QED
    BY <1>1, <2>1, <2>2, <2>3 DEF Exponent
<1> QED
  BY <1>1

\* What Round does with the unit u: it leaves the multiples of u, and takes one
\* of the two next to it for any other number.
Nearest(n, u) ==
  LET rest == 2 * (n % u) IN
  IF rest < u \/ (rest = u /\ (n \div u) % 2 = 0) THEN (n \div u) * u ELSE (n \div u + 1) * u

\* Round takes the nearest multiple of the unit in the last place.
LEMMA RoundTo ==
  ASSUME NEW n \in Int, NEW p \in Nat, NEW e \in Nat, Exponent(n, p, e)
  PROVE  Round(n, p) = Nearest(n, 2 ^ e)
<1> DEFINE fits(i) == Abs(n) < 2 ^ (i + p)
           chosen == CHOOSE i \in 0 .. Abs(n) : fits(i) /\ (i = 0 \/ ~fits(i - 1))
<1>1. chosen \in 0 .. Abs(n) /\ Exponent(n, p, chosen)
  <2>1. \E i \in 0 .. Abs(n) : fits(i) /\ (i = 0 \/ ~fits(i - 1))
    BY ExponentExists DEF Exponent
  <2> QED
    BY <2>1 DEF Exponent
<1>2. chosen = e
  <2>1. chosen \in Nat
    BY <1>1 DEF Abs
  <2> HIDE DEF chosen
  <2> QED
    BY <1>1, <2>1, ExponentUnique
<1>3. Round(n, p) = Nearest(n, 2 ^ chosen)
  BY DEF Round, Nearest
<1> HIDE DEF chosen
<1> QED
  BY <1>2, <1>3

\* A multiple of the unit is left alone.
LEMMA NearestLeaves ==
  ASSUME NEW u \in Nat \ {0}, NEW k \in Int
  PROVE  Nearest(u * k, u) = u * k
<1>1. u * k \in Int /\ u * k = u * k + 0 /\ 0 \in 0 .. u - 1
  OBVIOUS
<1>2. (u * k) \div u = k /\ (u * k) % u = 0
  BY <1>1, DivUnique
<1>3. 2 * 0 < u /\ k * u = u * k
  OBVIOUS
<1> QED
  BY <1>2, <1>3 DEF Nearest

\* The number taken is a multiple of the unit, and one of the two next to n.
LEMMA NearestIsNear ==
  ASSUME NEW n \in Int, NEW u \in Nat \ {0}
  PROVE  \E m \in Int : Nearest(n, u) = u * m /\ n - u < u * m /\ u * m <= n + u
<1> DEFINE q == n \div u
           r == n % u
<1>1. q \in Int /\ r \in 0 .. u - 1 /\ n = u * q + r
  BY DivMod
<1>2. Nearest(n, u) = IF 2 * r < u \/ (2 * r = u /\ q % 2 = 0) THEN q * u ELSE (q + 1) * u
  BY DEF Nearest
<1> HIDE DEF q, r
<1>3. q * u = u * q /\ (q + 1) * u = u * (q + 1) /\ u * (q + 1) = u * q + u /\ u * q \in Int
  BY <1>1
<1>4. CASE 2 * r < u \/ (2 * r = u /\ q % 2 = 0)
  <2>1. Nearest(n, u) = u * q
    BY <1>2, <1>3, <1>4
  <2>2. n - u < u * q /\ u * q <= n + u
    BY <1>1, <1>3
  <2> QED
    BY <1>1, <2>1, <2>2
<1>5. CASE ~(2 * r < u \/ (2 * r = u /\ q % 2 = 0))
  <2>1. Nearest(n, u) = u * (q + 1)
    BY <1>2, <1>3, <1>5
  <2>2. n - u < u * (q + 1) /\ u * (q + 1) <= n + u
    BY <1>1, <1>3
  <2>3. q + 1 \in Int
    BY <1>1
  <2> QED
    BY <2>1, <2>2, <2>3
<1> QED
  BY <1>4, <1>5

\* Multiplication by a positive number keeps the order.
LEMMA ProductMonotone ==
  ASSUME NEW b \in Nat \ {0}, NEW k \in Int, NEW m \in Int
  PROVE  /\ b * k \in Int
         /\ k <= m <=> b * k <= b * m
<1>1. b * k \in Int /\ b * m \in Int
  OBVIOUS
<1>2. k < m => b * k + b <= b * m
  BY ProductStep
<1>3. m < k => b * m + b <= b * k
  BY ProductStep
<1> QED
  BY <1>1, <1>2, <1>3

\* A number of p significant bits.
HasBits(n, p) == \E j \in Nat : \E m \in -(2 ^ p) .. 2 ^ p : n = 2 ^ j * m

\* A rounded number has no more bits than fit.
LEMMA RoundHasBits ==
  ASSUME NEW n \in Int, NEW p \in Nat
  PROVE  Round(n, p) \in Int /\ HasBits(Round(n, p), p)
<1>1. PICK e \in 0 .. Abs(n) : Exponent(n, p, e)
  BY ExponentExists
<1>2. e \in Nat
  BY <1>1 DEF Abs
<1> DEFINE u == 2 ^ e
           top == 2 ^ p
<1>3. u \in Nat \ {0} /\ top \in Nat \ {0} /\ 2 ^ (e + p) = u * top
  BY <1>2, PowerPositive, PowerSum
<1>4. -(u * top) < n /\ n < u * top
  <2>1. Abs(n) < 2 ^ (e + p)
    BY <1>1 DEF Exponent
  <2>2. u * top \in Nat
    BY <1>3
  <2> HIDE DEF u, top
  <2>3. Abs(n) < u * top
    BY <1>3, <2>1
  <2> QED
    BY <2>2, <2>3 DEF Abs
<1>5. Round(n, p) = Nearest(n, u)
  BY <1>1, <1>2, RoundTo
<1> HIDE DEF u, top
<1>6. PICK m \in Int : Nearest(n, u) = u * m /\ n - u < u * m /\ u * m <= n + u
  BY <1>3, NearestIsNear
<1>7. u * (top + 1) = u * top + u /\ u * (-(top + 1)) = -(u * top) - u
      /\ top + 1 \in Int /\ -(top + 1) \in Int /\ u * top \in Int /\ u * m \in Int
  BY <1>3
<1>8. ~(top + 1 <= m)
  <2>1. top + 1 <= m => u * (top + 1) <= u * m
    BY <1>3, <1>7, ProductMonotone
  <2> QED
    BY <1>3, <1>4, <1>6, <1>7, <2>1
<1>9. ~(m <= -(top + 1))
  <2>1. m <= -(top + 1) => u * m <= u * (-(top + 1))
    BY <1>3, <1>7, ProductMonotone
  <2> QED
    BY <1>3, <1>4, <1>6, <1>7, <2>1
<1>10. m \in -top .. top
  BY <1>3, <1>8, <1>9
<1> QED
  BY <1>2, <1>5, <1>6, <1>7, <1>10 DEF HasBits, u, top

\* A number that has no more bits than fit is left alone.
LEMMA RoundKeeps ==
  ASSUME NEW p \in Nat \ {0}, NEW n \in Int, HasBits(n, p)
  PROVE  Round(n, p) = n
<1>1. PICK j \in Nat : \E m \in -(2 ^ p) .. 2 ^ p : n = 2 ^ j * m
  BY DEF HasBits
<1>2. PICK m \in -(2 ^ p) .. 2 ^ p : n = 2 ^ j * m
  BY <1>1
<1>3. PICK e \in 0 .. Abs(n) : Exponent(n, p, e)
  BY ExponentExists
<1>4. e \in Nat
  BY <1>3 DEF Abs
<1>5. Round(n, p) = Nearest(n, 2 ^ e)
  BY <1>3, <1>4, RoundTo
<1>6. 2 ^ j \in Nat \ {0} /\ 2 ^ p \in Nat \ {0} /\ 2 ^ e \in Nat \ {0} /\ m \in Int
  BY <1>4, PowerPositive
<1>7. \E k \in Int : n = 2 ^ e * k
  <2>1. CASE e <= j
    <3>1. PICK k \in Nat \ {0} : 2 ^ j = 2 ^ e * k
      BY <1>4, <2>1, PowersGrow
    <3>2. n = 2 ^ e * (k * m) /\ k * m \in Int
      <4>1. \A x \in Nat : (x * k) * m = x * (k * m)
        BY <1>6
      <4> QED
        BY <1>2, <1>6, <3>1, <4>1
    <3> QED
      BY <3>2
  <2>2. CASE ~(e <= j)
    <3>1. /\ e - 1 + p \in Nat /\ j + p \in Nat /\ j + p <= e - 1 + p /\ p - 1 \in Nat
          /\ e - 1 + p = e + (p - 1)
      BY <1>4, <2>2
    <3>2. ~(Abs(n) < 2 ^ (e - 1 + p))
      BY <1>3, <2>2 DEF Exponent
    <3>3. 2 ^ (j + p) = 2 ^ j * 2 ^ p /\ 2 ^ (j + p) <= 2 ^ (e - 1 + p)
      BY <3>1, PowerSum, PowersGrow
    <3>4. 2 ^ (e - 1 + p) = 2 ^ e * 2 ^ (p - 1)
      BY <1>4, <3>1, PowerSum
    <3>5. 2 ^ j * m <= 2 ^ j * 2 ^ p /\ 2 ^ j * (-(2 ^ p)) <= 2 ^ j * m
      <4>1. m <= 2 ^ p /\ -(2 ^ p) <= m /\ -(2 ^ p) \in Int /\ 2 ^ p \in Int
        BY <1>6
      <4> QED
        BY <1>6, <4>1, ProductMonotone
    <3> DEFINE big == 2 ^ (e - 1 + p)
               prod == 2 ^ j * 2 ^ p
    <3>6. 2 ^ j * (-(2 ^ p)) = -prod /\ prod \in Int
      BY <1>6
    <3>7. big \in Nat
      BY <3>1, PowerPositive
    <3>8. n <= prod /\ -prod <= n /\ prod <= big /\ ~(Abs(n) < big)
      BY <1>2, <3>2, <3>3, <3>5, <3>6
    <3>9. n = big \/ n = -big
      <4> HIDE DEF prod, big
      <4> QED
        BY <3>6, <3>7, <3>8 DEF Abs
    <3> DEFINE k == 2 ^ (p - 1)
    <3>10. k \in Nat /\ big = 2 ^ e * k
      BY <3>1, <3>4, PowerPositive
    <3> HIDE DEF big, k
    <3>11. -big = 2 ^ e * (-k) /\ -k \in Int
      BY <1>6, <3>10
    <3>12. CASE n = big
      BY <3>10, <3>12
    <3>13. CASE n = -big
      BY <3>11, <3>13
    <3> QED
      BY <3>9, <3>12, <3>13
  <2> QED
    BY <2>1, <2>2
<1>8. PICK k \in Int : n = 2 ^ e * k
  BY <1>7
<1> QED
  BY <1>5, <1>6, <1>8, NearestLeaves

\* Rounding twice to the same precision is rounding once.
LEMMA RoundTwice ==
  ASSUME NEW p \in Nat \ {0}, NEW n \in Int
  PROVE  Round(n, p) \in Int /\ Round(Round(n, p), p) = Round(n, p)
BY RoundHasBits, RoundKeeps

\* A number of fewer bits.
LEMMA RoundWider ==
  ASSUME NEW p \in Nat, NEW q \in Nat \ {0}, p <= q, NEW n \in Int, Round(n, p) = n
  PROVE  Round(n, q) = n
<1>1. HasBits(n, p)
  BY RoundHasBits
<1>2. 2 ^ p <= 2 ^ q /\ 2 ^ p \in Nat /\ 2 ^ q \in Nat
  BY PowersGrow, PowerPositive
<1>3. HasBits(n, q)
  <2>1. PICK j \in Nat : \E m \in -(2 ^ p) .. 2 ^ p : n = 2 ^ j * m
    BY <1>1 DEF HasBits
  <2>2. PICK m \in -(2 ^ p) .. 2 ^ p : n = 2 ^ j * m
    BY <2>1
  <2>3. m \in -(2 ^ q) .. 2 ^ q
    BY <1>2
  <2> QED
    BY <2>2, <2>3 DEF HasBits
<1> QED
  BY <1>3, RoundKeeps

\* A power of two is not rounded, so rounding does not pass it.
LEMMA RoundBounded ==
  ASSUME NEW p \in Nat \ {0}, NEW w \in Nat, NEW n \in -(2 ^ w) .. 2 ^ w
  PROVE  Round(n, p) \in -(2 ^ w) .. 2 ^ w
<1>1. 2 ^ w \in Nat \ {0} /\ 2 ^ p \in Nat \ {0} /\ n \in Int
  BY PowerPositive
<1>2. PICK e \in 0 .. Abs(n) : Exponent(n, p, e)
  BY <1>1, ExponentExists
<1>3. e \in Nat
  BY <1>1, <1>2 DEF Abs
<1>4. CASE e = 0
  <2>1. Round(n, p) = Nearest(n, 1)
    BY <1>1, <1>2, <1>4, PowerZero, RoundTo
  <2>2. n = 1 * n
    BY <1>1
  <2>3. Nearest(1 * n, 1) = 1 * n
    <3>1. 1 \in Nat \ {0}
      OBVIOUS
    <3> QED
      BY <1>1, <3>1, NearestLeaves
  <2> QED
    BY <2>1, <2>2, <2>3
<1>5. CASE e # 0 /\ Abs(n) < 2 ^ w
  <2>1. e - 1 + p \in Nat /\ e + p \in Nat /\ e + p = (e - 1 + p) + 1
    BY <1>3, <1>5
  <2>2. ~(Abs(n) < 2 ^ (e - 1 + p))
    BY <1>2, <1>5 DEF Exponent
  <2>3. Abs(n) \in Nat /\ 2 ^ (e - 1 + p) \in Nat
    BY <1>1, <2>1, PowerPositive DEF Abs
  <2>4. ~(2 ^ w <= 2 ^ (e - 1 + p))
    BY <1>1, <1>5, <2>2, <2>3
  <2>5. e + p <= w
    <3>1. ~(w <= e - 1 + p)
      BY <2>1, <2>4, PowersGrow
    <3> QED
      BY <1>3, <3>1
  <2> DEFINE u == 2 ^ e
             top == 2 ^ p
  <2>6. u \in Nat \ {0} /\ u * top <= 2 ^ w /\ Round(n, p) = Nearest(n, u) /\ Abs(n) < u * top
    <3>1. 2 ^ (e + p) = u * top
      BY <1>3, PowerSum
    <3>2. 2 ^ (e + p) <= 2 ^ w
      BY <2>1, <2>5, PowersGrow
    <3>3. u \in Nat \ {0} /\ Round(n, p) = Nearest(n, u) /\ Abs(n) < 2 ^ (e + p)
      BY <1>1, <1>2, <1>3, PowerPositive, RoundTo DEF Exponent
    <3> QED
      BY <3>1, <3>2, <3>3
  <2>7. top \in Nat \ {0}
    BY <1>1
  <2> HIDE DEF u, top
  <2>8. PICK m \in Int : Nearest(n, u) = u * m /\ n - u < u * m /\ u * m <= n + u
    BY <1>1, <2>6, NearestIsNear
  <2>9. /\ u * (top + 1) = u * top + u /\ u * (-(top + 1)) = -(u * top) - u
        /\ u * (-top) = -(u * top)
        /\ top + 1 \in Int /\ -(top + 1) \in Int /\ -top \in Int /\ u * top \in Int /\ u * m \in Int
    BY <2>6, <2>7
  <2>10. n < u * top /\ -(u * top) < n
    BY <1>1, <2>6, <2>9 DEF Abs
  <2>11. m <= top
    <3>1. top + 1 <= m => u * (top + 1) <= u * m
      BY <2>6, <2>9, ProductMonotone
    <3> QED
      BY <1>1, <2>6, <2>7, <2>8, <2>9, <2>10, <3>1
  <2>12. -top <= m
    <3>1. m <= -(top + 1) => u * m <= u * (-(top + 1))
      BY <2>6, <2>9, ProductMonotone
    <3> QED
      BY <1>1, <2>6, <2>7, <2>8, <2>9, <2>10, <3>1
  <2>13. u * m <= u * top /\ u * (-top) <= u * m
    BY <2>6, <2>7, <2>9, <2>11, <2>12, ProductMonotone
  <2> QED
    BY <1>1, <2>6, <2>8, <2>9, <2>13
<1>6. CASE ~(Abs(n) < 2 ^ w)
  <2>1. n = 2 ^ w * 1 \/ n = 2 ^ w * (-1)
    BY <1>1, <1>6 DEF Abs
  <2>2. 1 \in -(2 ^ p) .. 2 ^ p /\ -1 \in -(2 ^ p) .. 2 ^ p
    BY <1>1
  <2>3. HasBits(n, p)
    BY <2>1, <2>2 DEF HasBits
  <2>4. Round(n, p) = n
    BY <1>1, <2>3, RoundKeeps
  <2> QED
    BY <2>4
<1> QED
  BY <1>4, <1>5, <1>6

\* The largest number below 2^w is not rounded down.
LEMMA RoundLargest ==
  ASSUME NEW p \in Nat \ {0}, NEW w \in Nat, p <= w
  PROVE  Round(2 ^ w - 1, p) \in Int /\ Round(2 ^ w - 1, p) >= 2 ^ w - 1
<1> DEFINE e == w - p
           n == 2 ^ w - 1
           u == 2 ^ e
           top == 2 ^ p
<1>1. e \in Nat /\ e + p = w /\ p - 1 \in Nat /\ p = (p - 1) + 1
  OBVIOUS
<1>2. 2 ^ w = u * top /\ u \in Nat \ {0} /\ top \in Nat \ {0} /\ 2 ^ w \in Nat \ {0}
  BY <1>1, PowerSum, PowerPositive
<1>3. PICK t \in Nat \ {0} : top = 2 * t
  BY <1>1, PowerSuccessor, PowerPositive
<1>4. Exponent(n, p, e)
  <2>1. Abs(n) = n
    BY <1>2 DEF Abs
  <2>2. n < 2 ^ (e + p)
    BY <1>1, <1>2
  <2>3. ASSUME e # 0 PROVE ~(n < 2 ^ (e - 1 + p))
    <3>1. e - 1 + p \in Nat /\ e - 1 + p < w
      BY <1>1, <2>3
    <3>2. 2 * 2 ^ (e - 1 + p) <= 2 ^ w /\ 2 ^ (e - 1 + p) \in Nat \ {0}
      BY <3>1, PowersGrow, PowerPositive
    <3> QED
      BY <1>2, <3>2
  <2> QED
    BY <2>1, <2>2, <2>3 DEF Exponent
<1>5. n \in Int
  BY <1>2
<1>6. Round(n, p) = Nearest(n, u)
  <2> HIDE DEF n
  <2> QED
    BY <1>1, <1>4, <1>5, RoundTo
<1> HIDE DEF u, top, e
<1>7. n = u * (top - 1) + (u - 1) /\ u - 1 \in 0 .. u - 1 /\ top - 1 \in Int /\ u * top \in Int
  BY <1>2
<1> HIDE DEF n
<1>8. n \div u = top - 1 /\ n % u = u - 1
  BY <1>2, <1>5, <1>7, DivUnique
<1>9. (top - 1) % 2 = 1
  BY <1>3
<1>10. Nearest(n, u) = IF 2 * (u - 1) < u THEN (top - 1) * u ELSE top * u
  <2>1. Nearest(n, u) =
          IF 2 * (u - 1) < u \/ (2 * (u - 1) = u /\ (top - 1) % 2 = 0)
            THEN (top - 1) * u ELSE (top - 1 + 1) * u
    BY <1>8 DEF Nearest
  <2>2. top - 1 + 1 = top
    BY <1>2
  <2> QED
    BY <1>9, <2>1, <2>2
<1>11. Nearest(n, u) >= n /\ Nearest(n, u) \in Int
  <2>1. CASE 2 * (u - 1) < u
    <3>1. u = 1
      BY <1>2, <2>1
    <3>2. Nearest(n, u) = (top - 1) * u
      BY <1>10, <2>1
    <3>3. (top - 1) * 1 = top - 1 /\ 1 * (top - 1) = top - 1
      BY <1>2
    <3> QED
      BY <1>2, <1>7, <3>1, <3>2, <3>3
  <2>2. CASE ~(2 * (u - 1) < u)
    <3>1. Nearest(n, u) = top * u
      BY <1>10, <2>2
    <3>2. top * u = u * top /\ u * (top - 1) = u * top - u
      BY <1>2
    <3> QED
      BY <1>2, <1>7, <3>1, <3>2
  <2> QED
    BY <2>1, <2>2
<1> QED
  BY <1>6, <1>11 DEF n

-----------------------------------------------------------------------------
(* The types. *)

\* A type's width and its range.
LEMMA Halves ==
  ASSUME NEW ty \in Types
  PROVE  /\ Width[ty] \in Nat \ {0}
         /\ Half(ty) \in Nat \ {0}
         /\ 2 * Half(ty) = 2 ^ Width[ty]
         /\ Patterns(ty) = 0 .. 2 * Half(ty) - 1
         /\ Width[ty] <= Half(ty)
<1>1. Width[ty] \in Nat \ {0}
  BY WidthAssumption DEF Types
<1>2. Width[ty] - 1 \in Nat /\ Width[ty] = (Width[ty] - 1) + 1
  BY <1>1
<1>3. 2 ^ Width[ty] = 2 * 2 ^ (Width[ty] - 1)
  BY <1>2, PowerSuccessor
<1>4. 2 ^ (Width[ty] - 1) \in Nat \ {0} /\ Width[ty] - 1 < 2 ^ (Width[ty] - 1)
  BY <1>2, PowerPositive, PowerExceeds
<1> QED
  BY <1>1, <1>3, <1>4 DEF Half, Patterns

\* The range of a wider type is a multiple.
LEMMA HalfOrder ==
  ASSUME NEW s \in Types, NEW t \in Types, Width[s] <= Width[t]
  PROVE  /\ \E k \in Nat \ {0} : 2 * Half(t) = (2 * Half(s)) * k
         /\ Half(s) <= Half(t)
         /\ Width[s] < Width[t] => 2 * Half(s) <= Half(t)
<1>1. Width[s] - 1 \in Nat /\ Width[t] - 1 \in Nat /\ Width[s] \in Nat /\ Width[t] \in Nat
  <2>1. Width[s] \in Nat \ {0}
    BY Halves
  <2>2. Width[t] \in Nat \ {0}
    BY Halves
  <2> QED
    BY <2>1, <2>2
<1>2. 2 * Half(t) = 2 ^ Width[t] /\ 2 * Half(s) = 2 ^ Width[s]
  BY Halves
<1>3. \E k \in Nat \ {0} : 2 ^ Width[t] = 2 ^ Width[s] * k
  BY <1>1, PowersGrow
<1>4. Half(s) <= Half(t)
  <2>1. Width[s] - 1 <= Width[t] - 1
    BY <1>1
  <2> QED
    BY <1>1, <2>1, PowersGrow DEF Half
<1>5. ASSUME Width[s] < Width[t] PROVE 2 * Half(s) <= Half(t)
  <2>1. Width[s] - 1 < Width[t] - 1
    BY <1>1, <1>5
  <2> QED
    BY <1>1, <2>1, PowersGrow DEF Half
<1> QED
  BY <1>2, <1>3, <1>4, <1>5

\* The order of the types, as the assumptions give it.
LEMMA WidthOrder ==
  /\ \A ty \in Types : /\ Expanded(ty) \in Types /\ Width[ty] <= Width[Expanded(ty)]
                       /\ Width["i1"] <= Width[ty] /\ Width[ty] <= Width["i64"]
                       /\ ty # "i64" => Width[ty] < Width["i64"] /\ Width[ty] <= Width["i32"]
                       /\ ty # "i1" => Width["i1"] < Width[ty]
                       /\ ty \notin {"i32", "i64"} => Width[ty] < Width["i32"]
  /\ Half("i1") = 1
  /\ Precision["f32"] \in Nat \ {0} /\ Precision["f64"] \in Nat \ {0}
  /\ Precision["f32"] <= Precision["f64"] /\ Precision["f64"] <= Width["i64"] - 1
<1>1. \A ty \in Types : /\ Expanded(ty) \in Types /\ Width[ty] <= Width[Expanded(ty)]
                        /\ Width["i1"] <= Width[ty] /\ Width[ty] <= Width["i64"]
                        /\ ty # "i64" => Width[ty] < Width["i64"] /\ Width[ty] <= Width["i32"]
                        /\ ty # "i1" => Width["i1"] < Width[ty]
                        /\ ty \notin {"i32", "i64"} => Width[ty] < Width["i32"]
  BY WidthAssumption DEF Types, Expanded
<1>2. Half("i1") = 1
  <2>1. Width["i1"] - 1 = 0
    BY WidthAssumption
  <2> QED
    BY <2>1, PowerZero DEF Half
<1>3. /\ Precision["f32"] \in Nat \ {0} /\ Precision["f64"] \in Nat \ {0}
      /\ Precision["f32"] <= Precision["f64"] /\ Precision["f64"] <= Width["i64"] - 1
  BY WidthAssumption, PrecisionAssumption DEF Types, FloatTypes
<1> QED
  BY <1>1, <1>2, <1>3

\* Half of what the JVM type has.
Bound(ty) == Half(Expanded(ty))

\* The JVM type holds what the type does, and wraps around less often.
LEMMA Bounds ==
  ASSUME NEW ty \in Types
  PROVE  /\ Bound(ty) \in Nat \ {0} /\ Half(ty) <= Bound(ty)
         /\ \A x, y \in Int : Congruent(x, y, 2 * Bound(ty)) => Congruent(x, y, 2 * Half(ty))
         /\ ty \in {"i32", "i64"} => Bound(ty) = Half(ty)
         /\ ty \notin {"i32", "i64"} => 2 * Half(ty) <= Bound(ty)
<1>1. Expanded(ty) \in Types /\ Width[ty] <= Width[Expanded(ty)]
  BY WidthOrder
<1>2. Bound(ty) \in Nat \ {0} /\ Half(ty) \in Nat \ {0} /\ Half(ty) <= Bound(ty)
  BY <1>1, Halves, HalfOrder DEF Bound
<1>3. PICK k \in Nat \ {0} : 2 * Bound(ty) = (2 * Half(ty)) * k
  BY <1>1, HalfOrder DEF Bound
<1>4. ASSUME NEW x \in Int, NEW y \in Int, Congruent(x, y, 2 * Bound(ty))
      PROVE  Congruent(x, y, 2 * Half(ty))
  <2>1. 2 * Half(ty) \in Nat /\ k \in Nat
    BY <1>2
  <2>2. Congruent(x, y, (2 * Half(ty)) * k)
    BY <1>3, <1>4
  <2> QED
    BY <2>1, <2>2, CongruentCoarser
<1>5. ty \in {"i32", "i64"} => Bound(ty) = Half(ty)
  BY DEF Bound, Expanded
<1>6. ASSUME ty \notin {"i32", "i64"} PROVE 2 * Half(ty) <= Bound(ty)
  <2>1. Expanded(ty) = "i32" /\ "i32" \in Types /\ Width[ty] < Width["i32"]
        /\ Width[ty] <= Width["i32"]
    BY <1>6, WidthOrder DEF Expanded, Types
  <2>2. 2 * Half(ty) <= Half("i32")
    BY <2>1, HalfOrder
  <2> QED
    BY <2>1, <2>2 DEF Bound
<1> QED
  BY <1>2, <1>4, <1>5, <1>6

-----------------------------------------------------------------------------
(* Loads and stores. *)

\* v is a number of the JVM type that stands for the pattern of n.
Yields(ty, v, n) ==
  v \in -Bound(ty) .. Bound(ty) - 1 /\ Congruent(v, n, 2 * Half(ty))

\* printValueStore, loadstore.cc:67-97: the local variable of the pattern.
LEMMA StoresPattern ==
  ASSUME NEW ty \in Types, NEW v \in Int, NEW n \in Int, Yields(ty, v, n)
  PROVE  Store(ty, v) = Local(ty, n % (2 * Half(ty)))
<1> DEFINE h == Half(ty)
<1>1. h \in Nat \ {0} /\ 2 * h \in Nat \ {0}
  BY Halves
<1>2. Congruent(v, n, 2 * h) /\ v \in -Bound(ty) .. Bound(ty) - 1
  BY DEF Yields
<1>3. CASE ty = "i1"
  <2>1. h = 1
    BY <1>3, WidthOrder
  <2>2. v % (2 * h) = n % (2 * h)
    BY <1>1, <1>2, PatternOf
  <2>3. Store(ty, v) = v % 2 /\ Local(ty, n % (2 * h)) = n % (2 * h)
    BY <1>3 DEF Store, Local
  <2> QED
    BY <2>1, <2>2, <2>3
<1>4. CASE ty \in {"i8", "i16"}
  <2> HIDE DEF h
  <2>1. Wrap(v, h) \in -h .. h - 1 /\ Congruent(Wrap(v, h), v, 2 * h)
    BY <1>1, CongruentWrap
  <2>2. Congruent(Wrap(v, h), n, 2 * h)
    BY <1>1, <1>2, <2>1, CongruentTransitive
  <2>3. Wrap(v, h) = Signed(n % (2 * h), h)
    BY <1>1, <2>1, <2>2, WrapIs
  <2>4. Store(ty, v) = Wrap(v, h) /\ Local(ty, n % (2 * h)) = Signed(n % (2 * h), h)
    BY <1>4 DEF Store, Local, FloatTypes, h
  <2> QED
    BY <2>3, <2>4 DEF h
<1>5. CASE ty \in {"i32", "i64"}
  <2>1. v \in -h .. h - 1
    BY <1>2, <1>5, Bounds
  <2>2. Store(ty, v) = v /\ Local(ty, n % (2 * h)) = Signed(n % (2 * h), h)
    BY <1>5 DEF Store, Local, FloatTypes
  <2> HIDE DEF h
  <2>3. v = Signed(n % (2 * h), h)
    BY <1>1, <1>2, <2>1, WrapIs
  <2> QED
    BY <2>2, <2>3 DEF h
<1> QED
  BY <1>3, <1>4, <1>5 DEF Types

\* A pattern is its own remainder.
LEMMA PatternStays ==
  ASSUME NEW ty \in Types, NEW n \in Patterns(ty)
  PROVE  n \in Int /\ n % (2 * Half(ty)) = n
<1>1. 2 * Half(ty) \in Nat \ {0} /\ n \in 0 .. 2 * Half(ty) - 1 /\ n \in Int
  BY Halves
<1> QED
  BY <1>1, CongruentSelf, PatternOf

\* A local variable of a pattern has a value of its type.
LEMMA LocalsAre ==
  ASSUME NEW ty \in Types, NEW n \in Int
  PROVE  Local(ty, n % (2 * Half(ty))) \in Locals(ty)
<1>1. 2 * Half(ty) \in Nat \ {0}
  BY Halves
<1>2. n % (2 * Half(ty)) \in Patterns(ty)
  BY <1>1, Halves, CongruentMod
<1>3. Locals(ty) = {Local(ty, k) : k \in Patterns(ty)}
  BY DEF Locals, Types, FloatTypes
<1> QED
  BY <1>2, <1>3

\* A loaded operand stands for its pattern.
LEMMA Loads ==
  ASSUME NEW ty \in Types, NEW n \in Patterns(ty), NEW isConst \in BOOLEAN
  PROVE  LET v == Load(ty, n, isConst) IN
         /\ v \in Int /\ Congruent(v, n, 2 * Half(ty))
         /\ ty # "i1" => v = Signed(n, Half(ty)) /\ v \in -Half(ty) .. Half(ty) - 1
         /\ ty = "i1" => v \in -1 .. 1 /\ (~isConst => v = n /\ v \in 0 .. 1)
         /\ Unsigned(v, Half(ty)) = n
         /\ n < Half(ty) => v = n
         /\ n # 0 => v # 0
<1> DEFINE h == Half(ty)
<1>1. h \in Nat \ {0} /\ n \in 0 .. 2 * h - 1 /\ n \in Int /\ 2 * h \in Nat
  BY Halves
<1>2. Congruent(Signed(n, h), n, 2 * h) /\ Congruent(n, n, 2 * h)
  BY <1>1, CongruentSigned, CongruentSelf
<1>3. /\ Signed(n, h) \in -h .. h - 1 /\ Unsigned(Signed(n, h), h) = n
      /\ Unsigned(n, h) = n /\ (n < h => Signed(n, h) = n) /\ (n # 0 => Signed(n, h) # 0)
  BY <1>1 DEF Signed, Unsigned
<1>4. Load(ty, n, isConst) = IF isConst \/ ty # "i1" THEN Signed(n, h) ELSE n
  BY DEF Load, Local, Types, FloatTypes
<1>5. ty = "i1" => h = 1
  BY WidthOrder
<1> DEFINE v == Load(ty, n, isConst)
<1>6. v = Signed(n, h) \/ (ty = "i1" /\ ~isConst /\ v = n)
  BY <1>4
<1>7. ty # "i1" \/ isConst => v = Signed(n, h)
  BY <1>4
<1> HIDE DEF h, v
<1>8. v \in Int /\ Congruent(v, n, 2 * h)
  BY <1>1, <1>2, <1>3, <1>6
<1>9. ty # "i1" => v = Signed(n, h) /\ v \in -h .. h - 1
  BY <1>3, <1>7
<1>10. ty = "i1" => v \in -1 .. 1 /\ (~isConst => v = n /\ v \in 0 .. 1)
  <2>1. CASE ty = "i1" /\ isConst
    <3>1. v = Signed(n, h) /\ h = 1
      BY <1>5, <1>7, <2>1
    <3> QED
      BY <1>3, <2>1, <3>1
  <2>2. CASE ty = "i1" /\ ~isConst
    <3>1. v = n /\ h = 1
      BY <1>4, <1>5, <2>2 DEF v
    <3> QED
      BY <1>1, <2>2, <3>1
  <2> QED
    BY <2>1, <2>2
<1>11. Unsigned(v, h) = n /\ (n < h => v = n) /\ (n # 0 => v # 0)
  BY <1>3, <1>6
<1> QED
  BY <1>8, <1>9, <1>10, <1>11 DEF h, v

-----------------------------------------------------------------------------
(* printArithmeticInstruction. *)

\* Whatever wraps around in the JVM type has the right pattern in a narrower one.
LEMMA WrappedYields ==
  ASSUME NEW ty \in Types, NEW v \in Int, NEW n \in Int, Congruent(v, n, 2 * Half(ty))
  PROVE  Yields(ty, Wrap(v, Bound(ty)), n)
<1>1. Bound(ty) \in Nat \ {0} /\ Half(ty) \in Nat \ {0}
  BY Bounds, Halves
<1>2. Wrap(v, Bound(ty)) \in -Bound(ty) .. Bound(ty) - 1 /\ Congruent(Wrap(v, Bound(ty)), v, 2 * Bound(ty))
  BY <1>1, CongruentWrap
<1>3. Wrap(v, Bound(ty)) \in Int /\ 2 * Half(ty) \in Nat
  BY <1>1, <1>2
<1>4. Congruent(Wrap(v, Bound(ty)), v, 2 * Half(ty))
  BY <1>2, <1>3, Bounds
<1>5. Congruent(Wrap(v, Bound(ty)), n, 2 * Half(ty))
  BY <1>3, <1>4, CongruentTransitive
<1> QED
  BY <1>2, <1>5 DEF Yields

\* What is computed in a range that is the type's own, or smaller, stays.
LEMMA InRangeYields ==
  ASSUME NEW ty \in Types, NEW v \in -Half(ty) .. Half(ty) - 1, NEW n \in Int,
         Congruent(v, n, 2 * Half(ty))
  PROVE  Yields(ty, v, n)
<1>1. v \in -Bound(ty) .. Bound(ty) - 1
  BY Bounds, Halves
<1> QED
  BY <1>1 DEF Yields

\* The operands of an instruction: a and b stand for left and right.
Stand(ty, a, b, left, right) ==
  /\ ty \in Types
  /\ a \in Int /\ b \in Int /\ left \in Int /\ right \in Int
  /\ Congruent(a, left, 2 * Half(ty)) /\ Congruent(b, right, 2 * Half(ty))

\* iadd, isub, imul and their long forms.
LEMMA AddSubMul ==
  ASSUME NEW ty, NEW a, NEW b, NEW left, NEW right, Stand(ty, a, b, left, right)
  PROVE  /\ Yields(ty, Operate("add", ty, a, b), left + right)
         /\ Yields(ty, Operate("sub", ty, a, b), left - right)
         /\ Yields(ty, Operate("mul", ty, a, b), left * right)
<1>1. /\ ty \in Types /\ a \in Int /\ b \in Int /\ left \in Int /\ right \in Int
      /\ Congruent(a, left, 2 * Half(ty)) /\ Congruent(b, right, 2 * Half(ty))
  BY DEF Stand
<1>2. 2 * Half(ty) \in Nat
  BY <1>1, Halves
<1>3. /\ Congruent(a + b, left + right, 2 * Half(ty))
      /\ Congruent(a - b, left - right, 2 * Half(ty))
      /\ Congruent(a * b, left * right, 2 * Half(ty))
  BY <1>1, <1>2, CongruentSum, CongruentProduct
<1>4. /\ Operate("add", ty, a, b) = Wrap(a + b, Bound(ty))
      /\ Operate("sub", ty, a, b) = Wrap(a - b, Bound(ty))
      /\ Operate("mul", ty, a, b) = Wrap(a * b, Bound(ty))
  BY DEF Operate, Bound
<1>5. /\ a + b \in Int /\ a - b \in Int /\ a * b \in Int
      /\ left + right \in Int /\ left - right \in Int /\ left * right \in Int
  BY <1>1
<1>6. Yields(ty, Wrap(a + b, Bound(ty)), left + right)
  BY <1>1, <1>3, <1>5, WrappedYields
<1>7. Yields(ty, Wrap(a - b, Bound(ty)), left - right)
  BY <1>1, <1>3, <1>5, WrappedYields
<1>8. Yields(ty, Wrap(a * b, Bound(ty)), left * right)
  BY <1>1, <1>3, <1>5, WrappedYields
<1> QED
  BY <1>4, <1>6, <1>7, <1>8

\* idiv and irem.
LEMMA Quotient ==
  ASSUME NEW a \in Int, NEW b \in Int \ {0}
  PROVE  /\ Quot(a, b) \in Int
         /\ JavaRem(a, b) \in Int
         /\ a >= 0 => JavaRem(a, b) >= 0 /\ JavaRem(a, b) <= a
         /\ a < 0 => JavaRem(a, b) <= 0 /\ a <= JavaRem(a, b)
         /\ a >= 0 /\ b >= 0 => /\ Quot(a, b) = a \div b /\ JavaRem(a, b) = a % b
                                /\ a \div b \in 0 .. a /\ a % b \in 0 .. b - 1
<1> DEFINE A == Abs(a)
           B == Abs(b)
           q == A \div B
           r == A % B
<1>1. A \in Nat /\ B \in Nat \ {0}
  BY DEF Abs
<1>2. (a >= 0 => A = a) /\ (a < 0 => A = -a) /\ (b >= 0 => B = b) /\ (b < 0 => B = -b)
  BY DEF Abs
<1> HIDE DEF A, B
<1>3. q \in Int /\ r \in 0 .. B - 1 /\ A = B * q + r
  BY <1>1, DivMod
<1>4. Quot(a, b) = IF (a < 0) <=> (b < 0) THEN q ELSE -q
  BY DEF Quot, A, B
<1>5. a >= 0 /\ b >= 0 => q = a \div b /\ r = a % b
  BY <1>2
<1> HIDE DEF q, r
<1>6. q >= 0
  <2>1. q <= -1 => B * q <= B * (-1)
    BY <1>1, <1>3, ProductMonotone
  <2>2. B * q \in Int /\ B * (-1) = -B
    BY <1>1, <1>3
  <2> QED
    BY <1>1, <1>3, <2>1, <2>2
<1>7. q <= B * q /\ B * q \in Int
  BY <1>1, <1>3, <1>6
<1>8. JavaRem(a, b) = IF a >= 0 THEN r ELSE -r
  <2>1. JavaRem(a, b) = a - Quot(a, b) * b
    BY DEF JavaRem
  <2>2. B * q = q * B /\ q * (-b) = -(q * b) /\ (-q) * b = -(q * b) /\ q * b \in Int
    BY <1>1, <1>3
  <2>3. CASE a >= 0 /\ b >= 0
    BY <1>2, <1>3, <1>4, <2>1, <2>2, <2>3
  <2>4. CASE a >= 0 /\ b < 0
    <3>1. Quot(a, b) = -q /\ B * q = q * (-b) /\ a = B * q + r
      BY <1>2, <1>3, <1>4, <2>2, <2>4
    <3> QED
      BY <1>3, <2>1, <2>2, <2>4, <3>1
  <2>5. CASE a < 0 /\ b >= 0
    <3>1. Quot(a, b) = -q /\ B * q = q * b /\ -a = B * q + r
      BY <1>2, <1>3, <1>4, <2>2, <2>5
    <3> QED
      BY <1>3, <2>1, <2>2, <2>5, <3>1
  <2>6. CASE a < 0 /\ b < 0
    <3>1. Quot(a, b) = q /\ B * q = q * (-b) /\ -a = B * q + r
      BY <1>2, <1>3, <1>4, <2>2, <2>6
    <3> QED
      BY <1>3, <2>1, <2>2, <2>6, <3>1
  <2> QED
    BY <2>3, <2>4, <2>5, <2>6
<1>9. r <= A
  BY <1>3, <1>6, <1>7
<1>10. Quot(a, b) \in Int /\ JavaRem(a, b) \in Int
  BY <1>3, <1>4, <1>8
<1>11. (a >= 0 => JavaRem(a, b) >= 0 /\ JavaRem(a, b) <= a)
       /\ (a < 0 => JavaRem(a, b) <= 0 /\ a <= JavaRem(a, b))
  BY <1>2, <1>3, <1>8, <1>9
<1>12. ASSUME a >= 0, b >= 0
       PROVE  /\ Quot(a, b) = a \div b /\ JavaRem(a, b) = a % b
              /\ a \div b \in 0 .. a /\ a % b \in 0 .. b - 1
  <2>1. Quot(a, b) = q /\ JavaRem(a, b) = r /\ q = a \div b /\ r = a % b /\ A = a /\ B = b
    BY <1>2, <1>4, <1>5, <1>8, <1>12
  <2>2. q \in 0 .. a /\ r \in 0 .. b - 1
    BY <1>3, <1>6, <1>7, <2>1
  <2> QED
    BY <2>1, <2>2
<1> QED
  BY <1>10, <1>11, <1>12

\* idiv and irem leave the range of the JVM type only by wrapping around.
LEMMA SignedDivision ==
  ASSUME NEW ty \in Types, NEW a \in -Bound(ty) .. Bound(ty) - 1, NEW b \in Int \ {0}
  PROVE  /\ Yields(ty, Operate("sdiv", ty, a, b), Quot(a, b))
         /\ Yields(ty, Operate("srem", ty, a, b), JavaRem(a, b))
<1>1. a \in Int /\ Quot(a, b) \in Int /\ JavaRem(a, b) \in Int
  <2>1. a \in Int
    BY Bounds
  <2> QED
    BY <2>1, Quotient
<1>2. 2 * Half(ty) \in Nat
  BY Halves
<1>3. Operate("sdiv", ty, a, b) = Wrap(Quot(a, b), Bound(ty)) /\ Operate("srem", ty, a, b) = JavaRem(a, b)
  BY DEF Operate, JavaDiv, Bound
<1>4. Yields(ty, Wrap(Quot(a, b), Bound(ty)), Quot(a, b))
  BY <1>1, <1>2, CongruentSelf, WrappedYields
<1>5. JavaRem(a, b) \in -Bound(ty) .. Bound(ty) - 1
  <2>1. /\ a >= 0 => JavaRem(a, b) >= 0 /\ JavaRem(a, b) <= a
        /\ a < 0 => JavaRem(a, b) <= 0 /\ a <= JavaRem(a, b)
    BY <1>1, Quotient
  <2>2. Bound(ty) \in Nat \ {0}
    BY Bounds
  <2> QED
    BY <1>1, <2>1, <2>2
<1>6. Yields(ty, JavaRem(a, b), JavaRem(a, b))
  BY <1>1, <1>2, <1>5, CongruentSelf DEF Yields
<1> QED
  BY <1>3, <1>4, <1>6

\* A number divided by a positive one comes closer to zero, or to -1.
LEMMA QuotientShrinks ==
  ASSUME NEW h \in Nat \ {0}, NEW a \in -h .. h - 1, NEW d \in Nat \ {0}
  PROVE  a \div d \in -h .. h - 1
<1> DEFINE q == a \div d
           r == a % d
<1>1. q \in Int /\ r \in 0 .. d - 1 /\ a = d * q + r
  BY DivMod
<1> HIDE DEF q, r
<1>2. ~(h <= q)
  <2>1. h <= q => d * h <= d * q
    BY <1>1, ProductMonotone
  <2>2. h <= d * h /\ d * h \in Int /\ d * q \in Int
    BY <1>1
  <2> QED
    BY <1>1, <2>1, <2>2
<1>3. ~(q <= -h - 1)
  <2>1. q <= -h - 1 => d * q <= d * (-h - 1)
    BY <1>1, ProductMonotone
  <2>2. d * (-h - 1) = -(d * h) - d /\ h <= d * h /\ d * h \in Int /\ d * q \in Int
    BY <1>1
  <2> QED
    BY <1>1, <2>1, <2>2
<1>4. q \in -h .. h - 1
  BY <1>1, <1>2, <1>3
<1> QED
  BY <1>4 DEF q

\* A shift by less than the width.
LEMMA ShiftCounts ==
  ASSUME NEW ty \in Types, NEW n \in Patterns(ty), n < Width[ty]
  PROVE  n \in Nat /\ n < Half(ty) /\ Count(ty, n) = n
<1>1. n \in 0 .. 2 * Half(ty) - 1 /\ Width[ty] \in Nat /\ Half(ty) \in Nat /\ Width[ty] <= Half(ty)
  BY Halves
<1>2. Width[Expanded(ty)] \in Nat \ {0} /\ Width[ty] <= Width[Expanded(ty)]
  BY WidthOrder, Halves
<1>3. n \in 0 .. Width[Expanded(ty)] - 1 /\ n \in Int
  BY <1>1, <1>2
<1>4. n % Width[Expanded(ty)] = n
  BY <1>2, <1>3, CongruentSelf, PatternOf
<1> QED
  BY <1>1, <1>4 DEF Count

\* ishl, lshl.
LEMMA ShiftsLeft ==
  ASSUME NEW ty \in Types, NEW a \in Int, NEW left \in Int, NEW n \in Patterns(ty),
         n < Width[ty], Congruent(a, left, 2 * Half(ty))
  PROVE  Yields(ty, Operate("shl", ty, a, n), left * 2 ^ n)
<1>1. n \in Nat /\ Count(ty, n) = n
  BY ShiftCounts
<1> DEFINE d == 2 ^ n
<1>2. d \in Nat
  BY <1>1, PowerPositive
<1>3. Operate("shl", ty, a, n) = Wrap(a * d, Bound(ty))
  BY <1>1 DEF Operate, Bound
<1> HIDE DEF d
<1>4. 2 * Half(ty) \in Nat
  BY Halves
<1>5. Congruent(a * d, left * d, 2 * Half(ty))
  <2>1. Congruent(d, d, 2 * Half(ty)) /\ d \in Int
    BY <1>2, <1>4, CongruentSelf
  <2> QED
    BY <1>4, <2>1, CongruentProduct
<1>6. a * d \in Int /\ left * d \in Int
  BY <1>2
<1>7. Yields(ty, Wrap(a * d, Bound(ty)), left * d)
  BY <1>5, <1>6, WrappedYields
<1> QED
  BY <1>3, <1>7 DEF d

\* ishr, lshr of the number, iushr, lushr of the bits of the local variable.
LEMMA ShiftsRight ==
  ASSUME NEW ty \in Types, NEW a \in -Bound(ty) .. Bound(ty) - 1, NEW n \in Patterns(ty),
         n < Width[ty]
  PROVE  /\ Yields(ty, Operate("ashr", ty, a, n), a \div 2 ^ n)
         /\ Yields(ty, Operate("lshr", ty, a, n), Unsigned(a, Bound(ty)) \div 2 ^ n)
<1>1. n \in Nat /\ Count(ty, n) = n
  BY ShiftCounts
<1> DEFINE d == 2 ^ n
<1>2. d \in Nat \ {0}
  BY <1>1, PowerPositive
<1>3. /\ Operate("ashr", ty, a, n) = a \div d
      /\ Operate("lshr", ty, a, n) = Wrap(Unsigned(a, Bound(ty)) \div d, Bound(ty))
  BY <1>1 DEF Operate, Bound
<1> HIDE DEF d
<1>4. 2 * Half(ty) \in Nat /\ Bound(ty) \in Nat \ {0}
  BY Halves, Bounds
<1>5. a \div d \in -Bound(ty) .. Bound(ty) - 1
  BY <1>2, <1>4, QuotientShrinks
<1>6. Yields(ty, a \div d, a \div d)
  <2>1. a \div d \in Int
    BY <1>4, <1>5
  <2> QED
    BY <1>4, <1>5, <2>1, CongruentSelf DEF Yields
<1>7. Yields(ty, Wrap(Unsigned(a, Bound(ty)) \div d, Bound(ty)), Unsigned(a, Bound(ty)) \div d)
  <2>1. Unsigned(a, Bound(ty)) \in Int
    BY <1>4 DEF Unsigned
  <2>2. Unsigned(a, Bound(ty)) \div d \in Int
    BY <1>2, <2>1, DivMod
  <2> QED
    BY <1>4, <2>2, CongruentSelf, WrappedYields
<1> QED
  BY <1>3, <1>6, <1>7 DEF d

-----------------------------------------------------------------------------
(* Unsigned division. *)

\* Instruction.java:264-302: bytes, shorts and ints are divided as longs or
\* ints that hold their patterns.
LEMMA SmallDivision ==
  ASSUME NEW small \in Nat \ {0}, NEW h \in Nat \ {0}, 2 * small <= h,
         NEW a \in -small .. small - 1, NEW b \in (-small .. small - 1) \ {0}
  PROVE  /\ udivSmall(a, b, small, h) = Wrap(Unsigned(a, small) \div Unsigned(b, small), small)
         /\ uremSmall(a, b, small) = Wrap(Unsigned(a, small) % Unsigned(b, small), small)
         /\ Unsigned(a, small) \div Unsigned(b, small) \in Int
         /\ Unsigned(a, small) % Unsigned(b, small) \in Int
<1> DEFINE A == Unsigned(a, small)
           B == Unsigned(b, small)
<1>1. A \in 0 .. 2 * small - 1 /\ B \in 1 .. 2 * small - 1
  BY DEF Unsigned
<1>2. /\ udivSmall(a, b, small, h) = Wrap(JavaDiv(A, B, h), small)
      /\ uremSmall(a, b, small) = Wrap(JavaRem(A, B), small)
  BY DEF udivSmall, uremSmall, Unsigned
<1> HIDE DEF A, B
<1>3. A \in Int /\ B \in Int \ {0} /\ A >= 0 /\ B >= 0
  BY <1>1
<1>4. Quot(A, B) = A \div B /\ JavaRem(A, B) = A % B /\ A \div B \in 0 .. A /\ A % B \in 0 .. B - 1
  BY <1>3, Quotient
<1>5. A \div B \in -h .. h - 1
  BY <1>1, <1>4
<1>6. JavaDiv(A, B, h) = A \div B
  BY <1>4, <1>5, WrapInRange DEF JavaDiv
<1> QED
  BY <1>1, <1>2, <1>4, <1>6 DEF A, B

\* Neither result leaves the range of a long.
LEMMA LongDivisionFits ==
  ASSUME NEW h \in Nat, 2 <= h, NEW a \in -h .. h - 1, NEW b \in (-h .. h - 1) \ {0}
  PROVE  udivLong(a, b, h) \in -h .. h - 1 /\ uremLong(a, b, h) \in -h .. h - 1
<1>1. CASE a >= 0 /\ b >= 0
  <2>1. udivLong(a, b, h) = Quot(a, b) /\ uremLong(a, b, h) = JavaRem(a, b)
    BY <1>1 DEF udivLong, uremLong
  <2>2. a \in Int /\ b \in Int \ {0}
    OBVIOUS
  <2>3. Quot(a, b) \in 0 .. a /\ JavaRem(a, b) \in 0 .. b - 1
    BY <1>1, <2>2, Quotient
  <2> QED
    BY <2>1, <2>2, <2>3
<1>2. CASE a >= 0 /\ b < 0
  BY <1>2 DEF udivLong, uremLong
<1>3. CASE a < 0 /\ b >= 0
  <2>1. udivLong(a, b, h) = udivBigBySmall(a, b, h) /\ uremLong(a, b, h) = uremBigBySmall(a, b, h)
    BY <1>3 DEF udivLong, uremLong
  <2>2. h \in Nat \ {0} /\ a \in -h .. -1 /\ b \in 1 .. h - 1
    BY <1>3
  <2>3. uremBigBySmall(a, b, h) \in 0 .. b - 1
    <3>1. uremBigBySmall(a, b, h) = Unsigned(a, h) % b
      BY <2>2, URemBigBySmall
    <3>2. Unsigned(a, h) \in Int /\ b \in Nat \ {0}
      BY <2>2 DEF Unsigned
    <3> QED
      BY <3>1, <3>2, DivMod
  <2>4. udivBigBySmall(a, b, h) \in -h .. h - 1
    <3> DEFINE q == HalfOp(a, h) \div b
    <3>1. q \in 0 .. h - 1
      BY <2>2, HalvedDivision
    <3>2. \/ udivBigBySmall(a, b, h) = 1
          \/ udivBigBySmall(a, b, h) = Wrap(Wrap(q + q, h) + 1, h)
          \/ udivBigBySmall(a, b, h) = Wrap(q + q, h)
      BY DEF udivBigBySmall
    <3> HIDE DEF q
    <3>3. q + q \in Int /\ Wrap(q + q, h) \in -h .. h - 1
      BY <2>2, <3>1, CongruentWrap
    <3>4. Wrap(Wrap(q + q, h) + 1, h) \in -h .. h - 1
      <4>1. Wrap(q + q, h) + 1 \in Int
        BY <3>3
      <4> QED
        BY <2>2, <4>1, CongruentWrap
    <3> QED
      BY <3>2, <3>3, <3>4
  <2> QED
    BY <2>1, <2>2, <2>3, <2>4
<1>4. CASE a < 0 /\ b < 0
  BY <1>4 DEF udivLong, uremLong
<1> QED
  BY <1>1, <1>2, <1>3, <1>4

\* Instruction.java:264-369: udiv and urem of every type but i1.
LEMMA UnsignedDivision ==
  ASSUME NEW ty \in Types \ {"i1"}, NEW left \in Patterns(ty), NEW right \in Patterns(ty) \ {0},
         NEW isConst \in BOOLEAN
  PROVE  LET a == Load(ty, left, FALSE)
             b == Load(ty, right, isConst)
         IN  /\ Yields(ty, Operate("udiv", ty, a, b), left \div right)
             /\ Yields(ty, Operate("urem", ty, a, b), left % right)
             /\ left \div right \in Patterns(ty) /\ left % right \in Patterns(ty)
<1> DEFINE h == Half(ty)
           a == Load(ty, left, FALSE)
           b == Load(ty, right, isConst)
           q == left \div right
           r == left % right
<1>1. h \in Nat \ {0} /\ Patterns(ty) = 0 .. 2 * h - 1 /\ 2 * h \in Nat
  BY Halves
<1>2. a \in -h .. h - 1 /\ Unsigned(a, h) = left
  BY Loads
<1>3. b \in (-h .. h - 1) \ {0} /\ Unsigned(b, h) = right
  BY Loads
<1>4. q \in Int /\ r \in Int /\ q \in Patterns(ty) /\ r \in Patterns(ty)
  <2>1. left \in Int /\ left >= 0 /\ right \in Int \ {0} /\ right >= 0
    BY <1>1
  <2>2. q \in 0 .. left /\ r \in 0 .. right - 1
    BY <2>1, Quotient
  <2> QED
    BY <1>1, <2>2
<1>5. CASE ty = "i64"
  <2>1. /\ Operate("udiv", ty, a, b) = udivLong(a, b, h)
        /\ Operate("urem", ty, a, b) = uremLong(a, b, h)
    BY <1>5 DEF Operate, Expanded
  <2>2. 2 <= h
    <3>1. "i1" \in Types /\ Width["i1"] < Width[ty] /\ Width["i1"] <= Width[ty]
      BY WidthOrder DEF Types
    <3>2. 2 * Half("i1") <= h
      BY <3>1, HalfOrder
    <3> QED
      BY <3>2, WidthOrder
  <2> HIDE DEF h, a, b
  <2>3. udivLong(a, b, h) \in -h .. h - 1 /\ uremLong(a, b, h) \in -h .. h - 1
    BY <1>1, <1>2, <1>3, <2>2, LongDivisionFits
  <2>4. Unsigned(udivLong(a, b, h), h) = q
    BY <1>1, <1>2, <1>3, UDivLongIsUnsigned
  <2>5. Unsigned(uremLong(a, b, h), h) = r
    <3>1. Unsigned(uremLong(a, b, h), h) = Unsigned(a, h) % Unsigned(b, h)
      BY <1>1, <1>2, <1>3, URemLongIsUnsigned
    <3> QED
      BY <1>2, <1>3, <3>1
  <2>6. Congruent(udivLong(a, b, h), q, 2 * h) /\ Congruent(uremLong(a, b, h), r, 2 * h)
    <3>1. udivLong(a, b, h) \in Int /\ uremLong(a, b, h) \in Int
      BY <1>1, <2>3
    <3>2. Congruent(q, udivLong(a, b, h), 2 * h)
      BY <1>1, <2>4, <3>1, CongruentSigned
    <3>3. Congruent(r, uremLong(a, b, h), 2 * h)
      BY <1>1, <2>5, <3>1, CongruentSigned
    <3> QED
      BY <1>1, <1>4, <3>1, <3>2, <3>3, CongruentSymmetric
  <2>7. Yields(ty, udivLong(a, b, h), q)
    BY <1>4, <2>3, <2>6, InRangeYields DEF h
  <2>8. Yields(ty, uremLong(a, b, h), r)
    BY <1>4, <2>3, <2>6, InRangeYields DEF h
  <2> QED
    BY <1>4, <2>1, <2>7, <2>8 DEF a, b
<1>6. CASE ty # "i64"
  <2>1. /\ Operate("udiv", ty, a, b) = udivSmall(a, b, h, Half("i64"))
        /\ Operate("urem", ty, a, b) = uremSmall(a, b, h)
    BY <1>6 DEF Operate
  <2>2. Half("i64") \in Nat \ {0} /\ 2 * h <= Half("i64")
    <3>1. "i64" \in Types /\ Width[ty] < Width["i64"] /\ Width[ty] <= Width["i64"]
      BY <1>6, WidthOrder DEF Types
    <3> QED
      BY <3>1, Halves, HalfOrder
  <2> HIDE DEF h, a, b
  <2>3. udivSmall(a, b, h, Half("i64")) = Wrap(q, h) /\ uremSmall(a, b, h) = Wrap(r, h)
    BY <1>1, <1>2, <1>3, <2>2, SmallDivision
  <2>4. /\ Wrap(q, h) \in -h .. h - 1 /\ Congruent(Wrap(q, h), q, 2 * h)
        /\ Wrap(r, h) \in -h .. h - 1 /\ Congruent(Wrap(r, h), r, 2 * h)
    BY <1>1, <1>4, CongruentWrap
  <2>5. Yields(ty, Wrap(q, h), q)
    BY <1>4, <2>4, InRangeYields DEF h
  <2>6. Yields(ty, Wrap(r, h), r)
    BY <1>4, <2>4, InRangeYields DEF h
  <2> QED
    BY <1>4, <2>1, <2>3, <2>5, <2>6 DEF a, b
<1> QED
  BY <1>5, <1>6

-----------------------------------------------------------------------------
(* printCastInstruction, integers. *)

\* SExt and ZExt: a wider type holds the number and the pattern.
LEMMA SignExtends ==
  ASSUME NEW ty \in Types, NEW dest \in Types, Width[ty] < Width[dest],
         NEW n \in Patterns(ty)
  PROVE  LET a == Load(ty, n, FALSE) IN
         /\ Yields(dest, Cast("sext", ty, dest, a), a)
         /\ Yields(dest, Cast("zext", ty, dest, a), n)
         /\ n \in Patterns(dest) /\ a \in Int
<1> DEFINE a == Load(ty, n, FALSE)
<1>1. /\ Half(ty) \in Nat \ {0} /\ Half(dest) \in Nat \ {0}
      /\ n \in 0 .. 2 * Half(ty) - 1 /\ Patterns(dest) = 0 .. 2 * Half(dest) - 1
      /\ 2 * Half(dest) \in Nat
  <2>1. Half(ty) \in Nat \ {0} /\ n \in 0 .. 2 * Half(ty) - 1
    BY Halves
  <2>2. /\ Half(dest) \in Nat \ {0} /\ Patterns(dest) = 0 .. 2 * Half(dest) - 1
        /\ 2 * Half(dest) \in Nat
    BY Halves
  <2> QED
    BY <2>1, <2>2
<1>2. 2 * Half(ty) <= Half(dest)
  <2>1. Width[ty] <= Width[dest]
    <3>1. Width[ty] \in Nat
      BY Halves
    <3>2. Width[dest] \in Nat
      BY Halves
    <3> QED
      BY <3>1, <3>2
  <2> QED
    BY <2>1, HalfOrder
<1>3. a \in Int /\ a \in -Half(dest) .. Half(dest) - 1 /\ Unsigned(a, Half(ty)) = n
  <2>1. /\ a \in Int /\ Unsigned(a, Half(ty)) = n
        /\ ty # "i1" => a \in -Half(ty) .. Half(ty) - 1
        /\ ty = "i1" => a \in 0 .. 1
    BY Loads
  <2> HIDE DEF a
  <2> QED
    BY <1>1, <1>2, <2>1
<1>4. Cast("sext", ty, dest, a) = a /\ Cast("zext", ty, dest, a) = n
  BY <1>3 DEF Cast
<1> HIDE DEF a
<1>5. n \in Int /\ n \in -Half(dest) .. Half(dest) - 1 /\ n \in Patterns(dest)
  BY <1>1, <1>2
<1>6. Yields(dest, a, a)
  BY <1>1, <1>3, CongruentSelf, InRangeYields
<1>7. Yields(dest, n, n)
  BY <1>1, <1>5, CongruentSelf, InRangeYields
<1> QED
  BY <1>3, <1>4, <1>5, <1>6, <1>7 DEF a

\* Trunc: l2i, i2s and i2b keep the low bits.
LEMMA Truncates ==
  ASSUME NEW ty \in Types, NEW dest \in Types, Width[dest] < Width[ty],
         NEW n \in Patterns(ty)
  PROVE  Yields(dest, Cast("trunc", ty, dest, Load(ty, n, FALSE)), n) /\ n \in Int
<1> DEFINE a == Load(ty, n, FALSE)
           via == IF dest = "i1" THEN "i8" ELSE dest
           v == Wrap(a, Half(via))
<1>1. a \in Int /\ Congruent(a, n, 2 * Half(ty)) /\ n \in Int
  BY Loads, PatternStays
<1>2. via \in Types /\ Width[dest] <= Width[via] /\ dest # "i64" /\ via # "i64"
  <2>1. dest # "i64"
    <3>1. Width[ty] <= Width["i64"] /\ Width[ty] \in Nat /\ Width["i64"] \in Nat
      BY WidthOrder, Halves DEF Types
    <3> QED
      BY <3>1
  <2>2. via \in Types /\ via # "i64"
    BY <2>1 DEF Types
  <2>3. Width[dest] <= Width[via]
    <3>1. Width[via] \in Nat
      BY <2>2, Halves
    <3>2. dest = "i1" => Width[dest] <= Width[via]
      BY <2>2, WidthOrder
    <3> QED
      BY <3>1, <3>2
  <2> QED
    BY <2>1, <2>2, <2>3
<1>3. Cast("trunc", ty, dest, a) = v
  BY <1>2 DEF Cast, Types
<1>4. Half(via) \in Nat \ {0} /\ 2 * Half(dest) \in Nat \ {0}
  <2>1. Half(via) \in Nat \ {0}
    BY <1>2, Halves
  <2>2. Half(dest) \in Nat \ {0}
    BY Halves
  <2> QED
    BY <2>1, <2>2
<1>5. PICK k \in Nat \ {0} : 2 * Half(via) = (2 * Half(dest)) * k
  BY <1>2, HalfOrder
<1>6. PICK j \in Nat \ {0} : 2 * Half(ty) = (2 * Half(dest)) * j
  <2>1. Width[dest] <= Width[ty]
    <3>1. Width[ty] \in Nat
      BY Halves
    <3>2. Width[dest] \in Nat
      BY Halves
    <3> QED
      BY <3>1, <3>2
  <2> QED
    BY <2>1, HalfOrder
<1> HIDE DEF a, via
<1>7. v \in -Half(via) .. Half(via) - 1 /\ Congruent(v, a, 2 * Half(via))
  BY <1>1, <1>4, CongruentWrap
<1> HIDE DEF v
<1>8. v \in Int /\ Congruent(v, a, 2 * Half(dest))
  <2>1. v \in Int /\ Congruent(v, a, (2 * Half(dest)) * k)
    BY <1>4, <1>5, <1>7
  <2> QED
    BY <1>1, <1>4, <2>1, CongruentCoarser
<1>9. Congruent(a, n, 2 * Half(dest))
  <2>1. Congruent(a, n, (2 * Half(dest)) * j)
    BY <1>1, <1>6
  <2> QED
    BY <1>1, <1>4, <2>1, CongruentCoarser
<1>10. Congruent(v, n, 2 * Half(dest))
  BY <1>1, <1>4, <1>8, <1>9, CongruentTransitive
<1>11. v \in -Bound(dest) .. Bound(dest) - 1
  <2>1. Half(via) <= Bound(dest) /\ Bound(dest) \in Nat
    <3>1. Bound(dest) = Half("i32") /\ "i32" \in Types /\ Width[via] <= Width["i32"]
      BY <1>2, WidthOrder DEF Bound, Expanded, Types
    <3>2. Half(via) <= Half("i32") /\ Half("i32") \in Nat
      BY <1>2, <3>1, HalfOrder, Halves
    <3> QED
      BY <3>1, <3>2
  <2> QED
    BY <1>4, <1>7, <2>1
<1> QED
  BY <1>1, <1>3, <1>10, <1>11 DEF Yields, a

-----------------------------------------------------------------------------
(* printCmpInstruction. *)

\* The comparison of each predicate.
LEMMA ComparesAs ==
  ASSUME NEW a, NEW b
  PROVE  /\ Compare("eq", a, b) = Bit(a = b)   /\ Compare("ne", a, b) = Bit(a # b)
         /\ Compare("slt", a, b) = Bit(a < b)  /\ Compare("sle", a, b) = Bit(a <= b)
         /\ Compare("sgt", a, b) = Bit(a > b)  /\ Compare("sge", a, b) = Bit(a >= b)
         /\ Compare("ult", a, b) = Bit(icmp_ult(a, b))
         /\ Compare("ule", a, b) = Bit(icmp_ule(a, b))
         /\ Compare("ugt", a, b) = Bit(icmp_ugt(a, b))
         /\ Compare("uge", a, b) = Bit(icmp_uge(a, b))
BY DEF Compare

\* Every comparison yields a bit.
LEMMA ComparesToBit ==
  ASSUME NEW a, NEW b, NEW op \in Comparisons
  PROVE  Compare(op, a, b) \in {0, 1}
BY DEF Compare, Bit

\* What LLVM says of each predicate.
LEMMA MeansBit ==
  ASSUME NEW ty \in Types, NEW n, NEW m, NEW isConst
  PROVE  LET h == Half(ty)
             Means(op) == Meaning(Instruction(op, ty, ty, n, m, isConst))
         IN  /\ Means("eq") = Bit(n = m)   /\ Means("ne") = Bit(n # m)
             /\ Means("slt") = Bit(Signed(n, h) < Signed(m, h))
             /\ Means("sle") = Bit(Signed(n, h) <= Signed(m, h))
             /\ Means("sgt") = Bit(Signed(n, h) > Signed(m, h))
             /\ Means("sge") = Bit(Signed(n, h) >= Signed(m, h))
             /\ Means("ult") = Bit(n < m)  /\ Means("ule") = Bit(n <= m)
             /\ Means("ugt") = Bit(n > m)  /\ Means("uge") = Bit(n >= m)
<1>1. ASSUME NEW op
      PROVE  LET meaning == Meaning(Instruction(op, ty, ty, n, m, isConst)) IN
             /\ op = "eq" => meaning = Bit(n = m)
             /\ op = "ne" => meaning = Bit(n # m)
             /\ op = "slt" => meaning = Bit(Signed(n, Half(ty)) < Signed(m, Half(ty)))
             /\ op = "sle" => meaning = Bit(Signed(n, Half(ty)) <= Signed(m, Half(ty)))
             /\ op = "sgt" => meaning = Bit(Signed(n, Half(ty)) > Signed(m, Half(ty)))
             /\ op = "sge" => meaning = Bit(Signed(n, Half(ty)) >= Signed(m, Half(ty)))
             /\ op = "ult" => meaning = Bit(n < m)
             /\ op = "ule" => meaning = Bit(n <= m)
             /\ op = "ugt" => meaning = Bit(n > m)
             /\ op = "uge" => meaning = Bit(n >= m)
  <2> DEFINE i == Instruction(op, ty, ty, n, m, isConst)
  <2>1. i.op = op /\ i.type = ty /\ i.left = n /\ i.right = m
    BY DEF Instruction
  <2> HIDE DEF i
  <2>2. ~ComparesFloats(i)
    BY <2>1 DEF ComparesFloats, Types, FloatTypes
  <2>3. op = "eq" => Meaning(i) = Bit(n = m)
    BY <2>1, <2>2 DEF Meaning
  <2>4. op = "ne" => Meaning(i) = Bit(n # m)
    BY <2>1, <2>2 DEF Meaning
  <2>5. op = "slt" => Meaning(i) = Bit(Signed(n, Half(ty)) < Signed(m, Half(ty)))
    BY <2>1, <2>2 DEF Meaning
  <2>6. op = "sle" => Meaning(i) = Bit(Signed(n, Half(ty)) <= Signed(m, Half(ty)))
    BY <2>1, <2>2 DEF Meaning
  <2>7. op = "sgt" => Meaning(i) = Bit(Signed(n, Half(ty)) > Signed(m, Half(ty)))
    BY <2>1, <2>2 DEF Meaning
  <2>8. op = "sge" => Meaning(i) = Bit(Signed(n, Half(ty)) >= Signed(m, Half(ty)))
    BY <2>1, <2>2 DEF Meaning
  <2>9. op = "ult" => Meaning(i) = Bit(n < m)
    BY <2>1, <2>2 DEF Meaning
  <2>10. op = "ule" => Meaning(i) = Bit(n <= m)
    BY <2>1, <2>2 DEF Meaning
  <2>11. op = "ugt" => Meaning(i) = Bit(n > m)
    BY <2>1, <2>2 DEF Meaning
  <2>12. op = "uge" => Meaning(i) = Bit(n >= m)
    BY <2>1, <2>2 DEF Meaning
  <2> QED
    BY <2>3, <2>4, <2>5, <2>6, <2>7, <2>8, <2>9, <2>10, <2>11, <2>12 DEF i
<1> QED
  BY <1>1

\* printCmpInstruction compares as LLVM does, but for the i1 of Diverges.
LEMMA ComparesRight ==
  ASSUME NEW ty \in Types, NEW n \in Patterns(ty), NEW m \in Patterns(ty), NEW isConst \in BOOLEAN,
         NEW op \in Comparisons,
         ty = "i1" => ~isConst /\ op \notin {"slt", "sle", "sgt", "sge"}
  PROVE  Compare(op, Load(ty, n, FALSE), Load(ty, m, isConst))
           = Meaning(Instruction(op, ty, ty, n, m, isConst))
<1> DEFINE h == Half(ty)
           a == Load(ty, n, FALSE)
           b == Load(ty, m, isConst)
           i == Instruction(op, ty, ty, n, m, isConst)
<1>1. /\ h \in Nat \ {0} /\ n \in 0 .. 2 * h - 1 /\ m \in 0 .. 2 * h - 1
  BY Halves
<1>2. ty # "i1" => a = Signed(n, h) /\ a \in -h .. h - 1
  BY Loads
<1>3. ty # "i1" => b = Signed(m, h) /\ b \in -h .. h - 1
  BY Loads
<1>4. ty = "i1" => h = 1 /\ a = n /\ b = m
  <2>1. ty = "i1" => h = 1
    BY WidthOrder
  <2>2. ty = "i1" => a = n
    BY Loads
  <2>3. ty = "i1" => b = m
    BY Loads
  <2> QED
    BY <2>1, <2>2, <2>3
<1> HIDE DEF a, b, h
<1>5. (a = b) <=> (n = m)
  BY <1>1, <1>2, <1>3, <1>4 DEF Signed
<1>6. /\ icmp_ult(a, b) <=> n < m
      /\ icmp_ule(a, b) <=> n <= m
      /\ icmp_ugt(a, b) <=> n > m
      /\ icmp_uge(a, b) <=> n >= m
  <2>1. CASE ty # "i1"
    <3>1. Unsigned(a, h) = n /\ Unsigned(b, h) = m
      BY <1>1, <1>2, <1>3, <2>1 DEF Signed, Unsigned
    <3>2. a \in -h .. h - 1 /\ b \in -h .. h - 1
      BY <1>2, <1>3, <2>1
    <3> QED
      BY <1>1, <3>1, <3>2, UnsignedComparisons
  <2>2. CASE ty = "i1"
    BY <1>1, <1>4, <2>2 DEF icmp_ult, icmp_ule, icmp_ugt, icmp_uge, SameSign
  <2> QED
    BY <2>1, <2>2
<1> DEFINE Means(o) == Meaning(Instruction(o, ty, ty, n, m, isConst))
<1>7. /\ Means("eq") = Bit(n = m)   /\ Means("ne") = Bit(n # m)
      /\ Means("slt") = Bit(Signed(n, h) < Signed(m, h))
      /\ Means("sle") = Bit(Signed(n, h) <= Signed(m, h))
      /\ Means("sgt") = Bit(Signed(n, h) > Signed(m, h))
      /\ Means("sge") = Bit(Signed(n, h) >= Signed(m, h))
      /\ Means("ult") = Bit(n < m)  /\ Means("ule") = Bit(n <= m)
      /\ Means("ugt") = Bit(n > m)  /\ Means("uge") = Bit(n >= m)
  BY MeansBit DEF h
<1> HIDE DEF Means
<1>8. CASE op \in {"eq", "ne"}
  <2>1. Compare("eq", a, b) = Bit(a = b) /\ Compare("ne", a, b) = Bit(a # b)
    BY ComparesAs
  <2>2. Compare("eq", a, b) = Means("eq") /\ Compare("ne", a, b) = Means("ne")
    BY <1>5, <1>7, <2>1
  <2> QED
    BY <1>8, <2>2 DEF Means, a, b
<1>9. CASE op \in {"slt", "sle", "sgt", "sge"}
  <2>1. /\ Compare("slt", a, b) = Bit(a < b)  /\ Compare("sle", a, b) = Bit(a <= b)
        /\ Compare("sgt", a, b) = Bit(a > b)  /\ Compare("sge", a, b) = Bit(a >= b)
    BY ComparesAs
  <2>2. a = Signed(n, h) /\ b = Signed(m, h)
    BY <1>2, <1>3, <1>9
  <2>3. /\ Compare("slt", a, b) = Means("slt") /\ Compare("sle", a, b) = Means("sle")
        /\ Compare("sgt", a, b) = Means("sgt") /\ Compare("sge", a, b) = Means("sge")
    BY <1>7, <2>1, <2>2
  <2> QED
    BY <1>9, <2>3 DEF Means, a, b
<1>10. CASE op \in {"ult", "ule", "ugt", "uge"}
  <2>1. /\ Compare("ult", a, b) = Bit(icmp_ult(a, b)) /\ Compare("ule", a, b) = Bit(icmp_ule(a, b))
        /\ Compare("ugt", a, b) = Bit(icmp_ugt(a, b)) /\ Compare("uge", a, b) = Bit(icmp_uge(a, b))
    BY ComparesAs
  <2>2. /\ Compare("ult", a, b) = Means("ult") /\ Compare("ule", a, b) = Means("ule")
        /\ Compare("ugt", a, b) = Means("ugt") /\ Compare("uge", a, b) = Means("uge")
    BY <1>6, <1>7, <2>1 DEF Bit
  <2> QED
    BY <1>10, <2>2 DEF Means, a, b
<1> QED
  BY <1>8, <1>9, <1>10 DEF Comparisons, a, b

-----------------------------------------------------------------------------
(* Floating point. *)

\* Which outcomes each predicate accepts.
LEMMA Acceptance ==
  ASSUME NEW op \in FloatComparisons
  PROVE  /\ "unordered" \in Accepted(op) <=> op \in {"uno", "ueq", "une", "ugt", "uge", "ult", "ule"}
         /\ "less" \in Accepted(op) <=> op \in {"ord", "one", "une", "olt", "ult", "ole", "ule"}
         /\ "equal" \in Accepted(op) <=> op \in {"ord", "oeq", "ueq", "oge", "uge", "ole", "ule"}
         /\ "greater" \in Accepted(op) <=> op \in {"ord", "one", "une", "ogt", "ugt", "oge", "uge"}
BY DEF Accepted, FloatComparisons

\* fcmp_oeq to fcmp_uno accept the outcomes they are named for.
LEMMA FloatsCompareRight ==
  ASSUME NEW op \in FloatComparisons, NEW a \in Int \cup {NaN}, NEW b \in Int \cup {NaN}
  PROVE  CompareFloats(op, a, b) = Bit(Outcome(a, b) \in Accepted(op))
<1>1. CASE a = NaN \/ b = NaN
  <2>1. Outcome(a, b) = "unordered" /\ ~fcmp_ord(a, b) /\ fcmp_uno(a, b)
    BY <1>1 DEF Outcome, fcmp_ord, fcmp_uno
  <2>2. CompareFloats(op, a, b)
          = IF op \in {"uno", "ueq", "une", "ugt", "uge", "ult", "ule"} THEN 1 ELSE 0
    BY <2>1 DEF CompareFloats, FloatComparisons, Bit
  <2> QED
    BY <2>1, <2>2, Acceptance DEF Bit
<1>2. CASE a # NaN /\ b # NaN
  <2>1. a \in Int /\ b \in Int /\ fcmp_ord(a, b) /\ ~fcmp_uno(a, b)
    BY <1>2 DEF fcmp_ord, fcmp_uno
  <2>2. CASE a < b
    <3>1. Outcome(a, b) = "less"
      BY <1>2, <2>1, <2>2 DEF Outcome
    <3>2. CompareFloats(op, a, b)
            = IF op \in {"ord", "one", "une", "olt", "ult", "ole", "ule"} THEN 1 ELSE 0
      <4>1. a <= b /\ ~(a = b) /\ ~(a > b) /\ ~(a >= b)
        BY <2>1, <2>2
      <4> QED
        BY <2>1, <2>2, <4>1 DEF CompareFloats, FloatComparisons, Bit
    <3> QED
      BY <3>1, <3>2, Acceptance DEF Bit
  <2>3. CASE a = b
    <3>1. Outcome(a, b) = "equal"
      BY <1>2, <2>1, <2>3 DEF Outcome
    <3>2. CompareFloats(op, a, b)
            = IF op \in {"ord", "oeq", "ueq", "oge", "uge", "ole", "ule"} THEN 1 ELSE 0
      <4>1. a <= b /\ a >= b /\ ~(a < b) /\ ~(a > b)
        BY <2>1, <2>3
      <4> QED
        BY <2>1, <2>3, <4>1 DEF CompareFloats, FloatComparisons, Bit
    <3> QED
      BY <3>1, <3>2, Acceptance DEF Bit
  <2>4. CASE a > b
    <3>1. Outcome(a, b) = "greater"
      BY <1>2, <2>1, <2>4 DEF Outcome
    <3>2. CompareFloats(op, a, b)
            = IF op \in {"ord", "one", "une", "ogt", "ugt", "oge", "uge"} THEN 1 ELSE 0
      <4>1. a >= b /\ ~(a = b) /\ ~(a < b) /\ ~(a <= b)
        BY <2>1, <2>4
      <4> QED
        BY <2>1, <2>4, <4>1 DEF CompareFloats, FloatComparisons, Bit
    <3> QED
      BY <3>1, <3>2, Acceptance DEF Bit
  <2> QED
    BY <2>1, <2>2, <2>3, <2>4
<1> QED
  BY <1>1, <1>2

\* 2^64 and 2^63.
LEMMA LongBounds ==
  /\ Half("i64") \in Nat \ {0} /\ Half("i64") = 2 ^ (Width["i64"] - 1)
  /\ 2 * Half("i64") = 2 ^ Width["i64"] /\ Width["i64"] \in Nat \ {0}
  /\ \A ty \in Types : \A n \in Patterns(ty) :
       /\ n \in -(2 * Half("i64")) .. 2 * Half("i64")
       /\ Signed(n, Half(ty)) \in -(2 * Half("i64")) .. 2 * Half("i64")
<1>1. "i64" \in Types
  BY DEF Types
<1>2. ASSUME NEW ty \in Types, NEW n \in Patterns(ty)
      PROVE  /\ n \in -(2 * Half("i64")) .. 2 * Half("i64")
             /\ Signed(n, Half(ty)) \in -(2 * Half("i64")) .. 2 * Half("i64")
  <2>1. Half(ty) \in Nat \ {0} /\ n \in 0 .. 2 * Half(ty) - 1
    BY Halves
  <2>2. Half(ty) <= Half("i64") /\ Half("i64") \in Nat
    BY <1>1, WidthOrder, HalfOrder, Halves
  <2> QED
    BY <2>1, <2>2 DEF Signed
<1> QED
  BY <1>1, <1>2, Halves DEF Half

\* The precisions are positive, and f64 has the largest.
LEMMA FloatBits ==
  ASSUME NEW dest \in FloatTypes
  PROVE  Precision[dest] \in Nat \ {0} /\ Precision[dest] <= Precision["f64"]
BY WidthOrder DEF FloatTypes

\* What is rounded to a type has the type, and is not rounded further.
LEMMA RoundsToFloat ==
  ASSUME NEW dest \in FloatTypes, NEW n \in -(2 * Half("i64")) .. 2 * Half("i64")
  PROVE  /\ Rounded(n, dest) = Round(n, Precision[dest])
         /\ Rounded(n, dest) \in Floats(dest)
         /\ Rounded(n, dest) \in -(2 * Half("i64")) .. 2 * Half("i64")
         /\ Rounded(Rounded(n, dest), dest) = Rounded(n, dest)
<1> DEFINE p == Precision[dest]
           w == Width["i64"]
           v == Round(n, p)
<1>1. /\ p \in Nat \ {0} /\ w \in Nat /\ 2 * Half("i64") = 2 ^ w
      /\ n \in Int /\ n # NaN
  BY FloatBits, LongBounds, NaNAssumption
<1>2. Rounded(n, dest) = v
  BY <1>1 DEF Rounded
<1> HIDE DEF p, w
<1>3. v \in Int /\ Round(v, p) = v
  BY <1>1, RoundTwice
<1>4. v \in -(2 ^ w) .. 2 ^ w
  BY <1>1, RoundBounded
<1> HIDE DEF v
<1>5. v # NaN
  BY <1>3, NaNAssumption
<1>6. Rounded(v, dest) = v
  BY <1>3, <1>5 DEF Rounded, p
<1>7. v \in Floats(dest)
  BY <1>1, <1>3, <1>4 DEF Floats, p
<1> QED
  BY <1>1, <1>2, <1>4, <1>6, <1>7 DEF v, p

\* A floating-point number is NaN or one that is not rounded further.
LEMMA FloatsAre ==
  ASSUME NEW ty \in FloatTypes, NEW n \in Floats(ty)
  PROVE  n = NaN \/ (n \in -(2 * Half("i64")) .. 2 * Half("i64") /\ n = Round(n, Precision[ty]))
BY DEF Floats

\* uitofp_f64(long), Instruction.java:396-410: the mantissa and the discarded
\* bits are those of LLVM's rounding.
LEMMA LongToDouble ==
  ASSUME NEW n \in Patterns("i64")
  PROVE  LET a == Load("i64", n, FALSE) IN
         uitofpLong(a, Half("i64")) = Rounded(n, "f64")
<1> DEFINE a == Load("i64", n, FALSE)
           h == Half("i64")
           w == Width["i64"]
           p == Precision["f64"]
           e == w - p
           u == 2 ^ e
<1>1. "i64" \in Types /\ "f64" \in FloatTypes
  BY DEF Types, FloatTypes
<1>2. /\ h \in Nat \ {0} /\ h = 2 ^ (w - 1) /\ 2 * h = 2 ^ w /\ w \in Nat \ {0}
      /\ p \in Nat \ {0} /\ p <= w - 1
      /\ n \in 0 .. 2 * h - 1 /\ n \in Int
  <2>1. h \in Nat \ {0} /\ h = 2 ^ (w - 1) /\ 2 * h = 2 ^ w /\ w \in Nat \ {0}
    BY LongBounds
  <2>2. n \in 0 .. 2 * h - 1
    BY <1>1, Halves
  <2> QED
    BY <2>1, <2>2, WidthOrder
<1>3. a \in Int /\ Unsigned(a, h) = n /\ a = Signed(n, h) /\ n # NaN
  BY <1>1, <1>2, Loads, NaNAssumption
<1> HIDE DEF a
<1>4. CASE a >= 0
  <2>1. a = n
    BY <1>2, <1>3, <1>4 DEF Signed
  <2> QED
    BY <1>4, <2>1 DEF uitofpLong, a
<1>5. CASE a < 0
  <2>1. n \in h .. 2 * h - 1
    BY <1>2, <1>3, <1>5 DEF Signed
  <2>2. e \in Nat \ {0} /\ e + p = w /\ e - 1 + p = w - 1
    BY <1>2
  <2>3. Exponent(n, p, e)
    <3>1. Abs(n) = n
      BY <1>2 DEF Abs
    <3>2. n < 2 ^ (e + p) /\ ~(n < 2 ^ (e - 1 + p))
      BY <1>2, <2>1, <2>2
    <3> QED
      BY <3>1, <3>2 DEF Exponent
  <2>4. Rounded(n, "f64") = Round(n, p)
    BY <1>3 DEF Rounded
  <2>5. uitofpLong(a, h) =
          ((n \div u) + Bit(2 * (n % u) > u \/ (2 * (n % u) = u /\ (n \div u) % 2 = 1))) * u
    BY <1>3, <1>5 DEF uitofpLong
  <2> HIDE DEF e, h, w, p
  <2>6. Round(n, p) = Nearest(n, u)
    BY <1>2, <2>2, <2>3, RoundTo
  <2>7. u \in Nat \ {0}
    BY <2>2, PowerPositive
  <2> HIDE DEF u
  <2>8. n \div u \in Int /\ n % u \in Int
    BY <1>2, <2>7, DivMod
  <2> DEFINE q == n \div u
             r == n % u
  <2>9. Nearest(n, u) = IF 2 * r < u \/ (2 * r = u /\ q % 2 = 0) THEN q * u ELSE (q + 1) * u
    BY DEF Nearest
  <2>10. q % 2 \in {0, 1}
    BY <2>8
  <2> HIDE DEF q, r
  <2>11. uitofpLong(a, h) = (q + Bit(2 * r > u \/ (2 * r = u /\ q % 2 = 1))) * u
    BY <2>5 DEF q, r
  <2>12. CASE 2 * r < u \/ (2 * r = u /\ q % 2 = 0)
    <3>1. Bit(2 * r > u \/ (2 * r = u /\ q % 2 = 1)) = 0
      BY <2>7, <2>8, <2>12 DEF Bit, r
    <3>2. q + 0 = q
      BY <2>8 DEF q
    <3> QED
      BY <2>4, <2>6, <2>9, <2>11, <2>12, <3>1, <3>2 DEF a, h
  <2>13. CASE ~(2 * r < u \/ (2 * r = u /\ q % 2 = 0))
    <3>1. Bit(2 * r > u \/ (2 * r = u /\ q % 2 = 1)) = 1
      BY <2>7, <2>8, <2>10, <2>13 DEF Bit, r
    <3> QED
      BY <2>4, <2>6, <2>9, <2>11, <2>13, <3>1 DEF a, h
  <2> QED
    BY <2>12, <2>13
<1>6. a >= 0 \/ a < 0
  BY <1>3
<1> QED
  BY <1>4, <1>5, <1>6

-----------------------------------------------------------------------------
(* From floating point to integers. *)

\* f2i, f2l, d2i and d2l leave what fits alone.
LEMMA SaturatedFits ==
  ASSUME NEW h \in Nat \ {0}, NEW n \in Int
  PROVE  Saturated(n, h) \in -h .. h - 1 /\ (n \in -h .. h - 1 => Saturated(n, h) = n)
BY DEF Saturated

\* fptosi.
LEMMA FloatToSigned ==
  ASSUME NEW ty, NEW dest \in Types, NEW n \in -Half(dest) .. Half(dest) - 1
  PROVE  Yields(dest, Convert("fptosi", ty, dest, n), n)
<1>1. Bound(dest) \in Nat \ {0} /\ n \in -Bound(dest) .. Bound(dest) - 1 /\ n \in Int
  BY Bounds, Halves
<1>2. Convert("fptosi", ty, dest, n) = Saturated(n, Bound(dest))
  BY DEF Convert, Bound
<1>3. Convert("fptosi", ty, dest, n) = n
  BY <1>1, <1>2, SaturatedFits
<1>4. 2 * Half(dest) \in Nat
  BY Halves
<1> QED
  BY <1>1, <1>3, <1>4, CongruentSelf DEF Yields

\* fptoui to a type narrower than i64, by way of a wider one.
LEMMA FloatToUnsigned ==
  ASSUME NEW ty, NEW dest \in Types \ {"i1", "i64"}, NEW n \in Patterns(dest)
  PROVE  Yields(dest, Convert("fptoui", ty, dest, n), n)
<1> DEFINE via == IF dest = "i32" THEN "i64" ELSE "i32"
           h == Half(dest)
<1>1. h \in Nat \ {0} /\ n \in 0 .. 2 * h - 1 /\ n \in Int
  BY Halves
<1>2. via \in Types /\ Width[dest] < Width[via] /\ Width[dest] <= Width[via]
  BY WidthAssumption DEF Types
<1>3. Half(via) \in Nat \ {0} /\ 2 * h <= Half(via)
  BY <1>2, Halves, HalfOrder
<1>4. Convert("fptoui", ty, dest, n) = Wrap(Saturated(n, Half(via)), h)
  BY DEF Convert
<1> HIDE DEF h, via
<1>5. Saturated(n, Half(via)) = n
  <2>1. n \in -Half(via) .. Half(via) - 1
    BY <1>1, <1>3
  <2> QED
    BY <1>1, <1>3, <2>1, SaturatedFits
<1>6. Wrap(n, h) \in -h .. h - 1 /\ Congruent(Wrap(n, h), n, 2 * h)
  BY <1>1, CongruentWrap
<1>7. Yields(dest, Wrap(n, h), n)
  BY <1>1, <1>6, InRangeYields DEF h
<1> QED
  BY <1>4, <1>5, <1>7

\* fptoui_i64, Instruction.java:436-442: right below 2^63.
LEMMA FloatToLong ==
  ASSUME NEW ty, NEW n \in Patterns("i64")
  PROVE  LET v == Convert("fptoui", ty, "i64", n) IN
         v \in -Half("i64") .. Half("i64") - 1 /\ (n < Half("i64") => v = n)
<1> DEFINE h == Half("i64")
           max == Rounded(h - 1, "f64")
           v == Convert("fptoui", ty, "i64", n)
           less == Rounded(Rounded(n - max, "f64") - 1, "f64")
<1>1. h \in Nat \ {0} /\ n \in 0 .. 2 * h - 1 /\ n \in Int
  <2>1. "i64" \in Types
    BY DEF Types
  <2> QED
    BY <2>1, Halves
<1>2. /\ Width["i64"] - 1 \in Nat /\ h = 2 ^ (Width["i64"] - 1)
      /\ Precision["f64"] \in Nat \ {0} /\ Precision["f64"] <= Width["i64"] - 1
  BY LongBounds, WidthOrder
<1>3. \A k \in Int : Rounded(k, "f64") \in Int /\ Rounded(k, "f64") = Round(k, Precision["f64"])
  <2>1. ASSUME NEW k \in Int PROVE Rounded(k, "f64") = Round(k, Precision["f64"])
    <3>1. k # NaN
      BY NaNAssumption
    <3> QED
      BY <3>1 DEF Rounded
  <2>2. ASSUME NEW k \in Int PROVE Round(k, Precision["f64"]) \in Int
    BY <1>2, RoundTwice
  <2> QED
    BY <2>1, <2>2
<1>4. max \in Int /\ max >= h - 1
  <2>1. Round(h - 1, Precision["f64"]) >= h - 1
    BY <1>2, RoundLargest
  <2>2. h - 1 \in Int
    BY <1>1
  <2> QED
    BY <1>3, <2>1, <2>2
<1>5. v = IF n <= max THEN Saturated(n, h) ELSE Wrap(Saturated(less, h) - h, h)
  BY DEF Convert, fptouiLong
<1>6. less \in Int
  <2>1. n - max \in Int
    BY <1>1, <1>4
  <2>2. Rounded(n - max, "f64") - 1 \in Int
    <3>1. Rounded(n - max, "f64") \in Int
      BY <1>3, <2>1
    <3> QED
      BY <3>1
  <2> QED
    BY <1>3, <2>2
<1> HIDE DEF h, max, less, v
<1>7. Saturated(n, h) \in -h .. h - 1 /\ (n \in -h .. h - 1 => Saturated(n, h) = n)
  BY <1>1, SaturatedFits
<1>8. Wrap(Saturated(less, h) - h, h) \in -h .. h - 1
  <2>1. Saturated(less, h) \in -h .. h - 1
    BY <1>1, <1>6, SaturatedFits
  <2>2. Saturated(less, h) - h \in Int
    BY <1>1, <2>1
  <2> QED
    BY <1>1, <2>2, CongruentWrap
<1>9. n < h => n <= max /\ n \in -h .. h - 1
  BY <1>1, <1>4
<1> QED
  BY <1>5, <1>7, <1>8, <1>9 DEF h, v

-----------------------------------------------------------------------------
(* One instruction at a time. *)

\* The result is a value of its type, and the one LLVM defines unless the
\* instruction is one of those known to compute something else.
Correct(i) ==
  /\ Emitted(i) \in Locals(ResultType(i))
  /\ ~Diverges(i) => Emitted(i) = Local(ResultType(i), Meaning(i))

\* v is what the emitted code stores, and n stands for what LLVM defines.
LEMMA IntegerCorrect ==
  ASSUME NEW i, NEW v \in Int, NEW n \in Int, ResultType(i) \in Types,
         Emitted(i) = Store(ResultType(i), v),
         v \in -Bound(ResultType(i)) .. Bound(ResultType(i)) - 1,
         ~Diverges(i) => /\ Yields(ResultType(i), v, n)
                         /\ Meaning(i) = n % (2 * Half(ResultType(i)))
  PROVE  Correct(i)
<1> DEFINE ty == ResultType(i)
<1>1. ty \in Types /\ 2 * Half(ty) \in Nat
  BY Halves
<1> HIDE DEF ty
<1>2. Yields(ty, v, v)
  BY <1>1, CongruentSelf DEF Yields, ty
<1>3. Store(ty, v) = Local(ty, v % (2 * Half(ty)))
  BY <1>1, <1>2, StoresPattern
<1>4. Store(ty, v) \in Locals(ty)
  BY <1>1, <1>3, LocalsAre
<1>5. ASSUME ~Diverges(i) PROVE Store(ty, v) = Local(ty, Meaning(i))
  <2>1. Yields(ty, v, n) /\ Meaning(i) = n % (2 * Half(ty))
    BY <1>5 DEF ty
  <2> QED
    BY <1>1, <2>1, StoresPattern
<1> QED
  BY <1>4, <1>5 DEF Correct, ty

Binary(op, ty, left, right, isConst) == Instruction(op, ty, ty, left, right, isConst)

LEMMA BinaryFields ==
  ASSUME NEW op, NEW ty, NEW left, NEW right, NEW isConst
  PROVE  LET i == Binary(op, ty, left, right, isConst) IN
         i.op = op /\ i.type = ty /\ i.dest = ty /\ i.left = left /\ i.right = right /\ i.const = isConst
BY DEF Binary, Instruction

\* printArithmeticInstruction: the result has the type of the operands ...
LEMMA ArithmeticKeepsType ==
  ASSUME NEW op \in Arithmetics, NEW ty \in Types, NEW left, NEW right, NEW isConst
  PROVE  /\ ResultType(Binary(op, ty, left, right, isConst)) = ty
         /\ ~ComparesFloats(Binary(op, ty, left, right, isConst))
<1>1. op \notin Comparisons /\ op \notin FloatComparisons
  BY DEF Arithmetics, Comparisons, FloatComparisons
<1> QED
  BY <1>1, BinaryFields DEF ResultType, ComparesFloats

\* The first operand is never a constant.
Operand(ty, n) == Load(ty, n, FALSE)

\* ... and is what the JVM instruction or the call yields.
LEMMA EmittedArithmetic ==
  ASSUME NEW op \in Arithmetics, NEW ty \in Types, NEW left, NEW right, NEW isConst
  PROVE  Emitted(Binary(op, ty, left, right, isConst))
           = Store(ty, Operate(op, ty, Operand(ty, left), Load(ty, right, isConst)))
<1> DEFINE i == Binary(op, ty, left, right, isConst)
           a == Operand(ty, left)
           b == Load(ty, right, isConst)
<1>1. i.op = op /\ i.type = ty /\ i.left = left /\ i.right = right /\ i.const = isConst
  BY BinaryFields
<1>2. ResultType(i) = ty /\ ~ComparesFloats(i)
  BY ArithmeticKeepsType
<1> HIDE DEF i
<1>3. Load(i.type, i.left, FALSE) = a /\ Load(i.type, i.right, i.const) = b
  BY <1>1 DEF Operand
<1>4. i.op \notin Conversions /\ i.op \in Arithmetics /\ i.op \notin Casts
  BY <1>1 DEF Arithmetics, Conversions, Casts
<1> HIDE DEF a, b
<1>5. Emitted(i) = Store(ResultType(i), Operate(i.op, i.type, a, b))
  BY <1>2, <1>3, <1>4 DEF Emitted
<1> QED
  BY <1>1, <1>2, <1>5 DEF i, a, b

\* What LLVM says of each operation ...
LEMMA MeaningOfArithmetic ==
  ASSUME NEW op \in Arithmetics, NEW ty \in Types, NEW left, NEW right, NEW isConst
  PROVE  LET h == Half(ty)
             x == Signed(left, h)
             y == Signed(right, h)
             n == Meaning(Binary(op, ty, left, right, isConst))
         IN  /\ op = "add" => n = (left + right) % (2 * h)
             /\ op = "sub" => n = (left - right) % (2 * h)
             /\ op = "mul" => n = (left * right) % (2 * h)
             /\ op = "udiv" => n = left \div right
             /\ op = "urem" => n = left % right
             /\ op = "sdiv" => n = Quot(x, y) % (2 * h)
             /\ op = "srem" => n = JavaRem(x, y) % (2 * h)
             /\ op = "shl" => n = (left * 2 ^ right) % (2 * h)
             /\ op = "lshr" => n = left \div 2 ^ right
             /\ op = "ashr" => n = (x \div 2 ^ right) % (2 * h)
<1> DEFINE i == Binary(op, ty, left, right, isConst)
<1>1. i.op = op /\ i.type = ty /\ i.left = left /\ i.right = right
  BY BinaryFields
<1>2. ~ComparesFloats(i) /\ ResultType(i) = ty
  BY ArithmeticKeepsType
<1> HIDE DEF i
<1>3. op = "add" => Meaning(i) = (left + right) % (2 * Half(ty))
  BY <1>1, <1>2 DEF Meaning
<1>4. op = "sub" => Meaning(i) = (left - right) % (2 * Half(ty))
  BY <1>1, <1>2 DEF Meaning
<1>5. op = "mul" => Meaning(i) = (left * right) % (2 * Half(ty))
  BY <1>1, <1>2 DEF Meaning
<1>6. op = "udiv" => Meaning(i) = left \div right
  BY <1>1, <1>2 DEF Meaning
<1>7. op = "urem" => Meaning(i) = left % right
  BY <1>1, <1>2 DEF Meaning
<1>8. op = "sdiv" => Meaning(i) = Quot(Signed(left, Half(ty)), Signed(right, Half(ty))) % (2 * Half(ty))
  BY <1>1, <1>2 DEF Meaning
<1>9. op = "srem" => Meaning(i) = JavaRem(Signed(left, Half(ty)), Signed(right, Half(ty))) % (2 * Half(ty))
  BY <1>1, <1>2 DEF Meaning, JavaRem
<1>10. op = "shl" => Meaning(i) = (left * 2 ^ right) % (2 * Half(ty))
  BY <1>1, <1>2 DEF Meaning
<1>11. op = "lshr" => Meaning(i) = left \div 2 ^ right
  BY <1>1, <1>2 DEF Meaning
<1>12. op = "ashr" => Meaning(i) = (Signed(left, Half(ty)) \div 2 ^ right) % (2 * Half(ty))
  BY <1>1, <1>2 DEF Meaning
<1> QED
  BY <1>3, <1>4, <1>5, <1>6, <1>7, <1>8, <1>9, <1>10, <1>11, <1>12 DEF i

\* ... on which operands ...
LEMMA DefinedArithmetic ==
  ASSUME NEW ty \in Types, NEW left, NEW right, NEW isConst, NEW op \in Arithmetics,
         Defined(Binary(op, ty, left, right, isConst))
  PROVE  /\ op \in {"udiv", "urem", "sdiv", "srem"} => right # 0
         /\ op \in {"sdiv", "srem"} =>
              ~(Signed(left, Half(ty)) = -Half(ty) /\ Signed(right, Half(ty)) = -1)
         /\ op \in {"shl", "lshr", "ashr"} => right < Width[ty]
BY BinaryFields DEF Defined, Arithmetics

\* ... and which one is known to differ.
LEMMA DivergingArithmetic ==
  ASSUME NEW ty \in Types, NEW left, NEW right, NEW isConst, NEW op \in Arithmetics
  PROVE  Diverges(Binary(op, ty, left, right, isConst)) <=> op = "lshr" /\ ty \in {"i8", "i16"}
BY BinaryFields DEF Diverges, Arithmetics, Comparisons

\* Zero divided is zero.
LEMMA QuotientOfZero ==
  ASSUME NEW b \in Int \ {0}
  PROVE  Quot(0, b) = 0 /\ JavaRem(0, b) = 0
<1>1. Abs(b) \in Nat \ {0} /\ Abs(0) = 0
  BY DEF Abs
<1>2. 0 \div Abs(b) = 0
  BY <1>1
<1>3. Quot(0, b) = 0
  BY <1>1, <1>2 DEF Quot
<1> QED
  BY <1>3 DEF JavaRem

\* What the code divides are the numbers LLVM divides, but for an i1, of which
\* only 0 may be divided.
LEMMA SignedQuotients ==
  ASSUME NEW ty \in Types, NEW left \in Patterns(ty), NEW right \in Patterns(ty),
         NEW isConst \in BOOLEAN, right # 0,
         ~(Signed(left, Half(ty)) = -Half(ty) /\ Signed(right, Half(ty)) = -1)
  PROVE  LET x == Signed(left, Half(ty))
             y == Signed(right, Half(ty))
             a == Load(ty, left, FALSE)
             b == Load(ty, right, isConst)
         IN  /\ Quot(a, b) = Quot(x, y) /\ JavaRem(a, b) = JavaRem(x, y)
             /\ a \in -Bound(ty) .. Bound(ty) - 1 /\ b \in Int \ {0}
<1> DEFINE h == Half(ty)
           x == Signed(left, h)
           y == Signed(right, h)
           a == Load(ty, left, FALSE)
           b == Load(ty, right, isConst)
<1>1. /\ h \in Nat \ {0} /\ left \in 0 .. 2 * h - 1 /\ right \in 0 .. 2 * h - 1
      /\ h <= Bound(ty) /\ Bound(ty) \in Nat \ {0}
  BY Halves, Bounds
<1>2. b \in Int \ {0} /\ (ty # "i1" => b = y)
  BY Loads
<1>3. ty # "i1" => a = x /\ a \in -h .. h - 1
  BY Loads
<1> HIDE DEF a, b, x, y, h
<1>4. CASE ty # "i1"
  <2>1. a = x /\ b = y
    BY <1>2, <1>3, <1>4
  <2>2. a \in -Bound(ty) .. Bound(ty) - 1
    BY <1>1, <1>3, <1>4
  <2> QED
    BY <1>2, <2>1, <2>2 DEF a, b, x, y, h
<1>5. CASE ty = "i1"
  <2>1. h = 1
    BY <1>5, WidthOrder DEF h
  <2>2. right = 1 /\ y = -1
    BY <1>1, <2>1 DEF Signed, y
  <2>3. left = 0 /\ x = 0
    BY <1>1, <2>1, <2>2 DEF Signed, x, h, y
  <2>4. a = 0
    BY <1>5, <2>3, Loads DEF a
  <2>5. /\ Quot(a, b) = 0 /\ JavaRem(a, b) = 0
        /\ Quot(x, y) = 0 /\ JavaRem(x, y) = 0
    <3>1. -1 \in Int \ {0}
      OBVIOUS
    <3> QED
      BY <1>2, <2>2, <2>3, <2>4, <3>1, QuotientOfZero
  <2>6. a \in -Bound(ty) .. Bound(ty) - 1
    BY <1>1, <2>4
  <2> QED
    BY <1>2, <2>5, <2>6 DEF a, b, x, y, h
<1> QED
  BY <1>4, <1>5

\* v is what the JVM computes, n what LLVM does.
LEMMA BinaryCorrect ==
  ASSUME NEW op \in Arithmetics, NEW ty \in Types, NEW left, NEW right, NEW isConst,
         NEW v, NEW n \in Int,
         v = Operate(op, ty, Operand(ty, left), Load(ty, right, isConst)),
         Yields(ty, v, n),
         ~(op = "lshr" /\ ty \in {"i8", "i16"})
           => Meaning(Binary(op, ty, left, right, isConst)) = n % (2 * Half(ty))
  PROVE  Correct(Binary(op, ty, left, right, isConst))
<1> DEFINE i == Binary(op, ty, left, right, isConst)
<1>1. ResultType(i) = ty
  BY ArithmeticKeepsType
<1>2. Emitted(i) = Store(ty, v)
  <2>1. Emitted(i) = Store(ty, Operate(op, ty, Operand(ty, left), Load(ty, right, isConst)))
    BY EmittedArithmetic
  <2> QED
    BY <2>1
<1>3. ~Diverges(i) => Meaning(i) = n % (2 * Half(ty))
  BY DivergingArithmetic
<1> HIDE DEF i
<1>4. v \in -Bound(ty) .. Bound(ty) - 1 /\ Bound(ty) \in Nat
  BY Bounds DEF Yields
<1>5. v \in Int
  <2> DEFINE h == Bound(ty)
  <2>1. v \in -h .. h - 1 /\ h \in Nat
    BY <1>4
  <2>2. -h \in Int /\ h - 1 \in Int
    BY <2>1
  <2> HIDE DEF h
  <2> QED
    BY <2>1
<1>6. Correct(i)
  BY <1>1, <1>2, <1>3, <1>4, <1>5, IntegerCorrect
<1> QED
  BY <1>6 DEF i

\* add, sub, mul.
LEMMA AddSubMulCorrect ==
  ASSUME NEW op \in {"add", "sub", "mul"}, NEW ty \in Types, NEW left \in Patterns(ty),
         NEW right \in Patterns(ty), NEW isConst \in BOOLEAN
  PROVE  Correct(Binary(op, ty, left, right, isConst))
<1> DEFINE a == Operand(ty, left)
           b == Load(ty, right, isConst)
           n == CASE op = "add" -> left + right [] op = "sub" -> left - right
                  [] op = "mul" -> left * right
<1>1. left \in Int /\ right \in Int
  BY PatternStays
<1>2. a \in Int /\ Congruent(a, left, 2 * Half(ty))
  BY Loads DEF Operand
<1>3. b \in Int /\ Congruent(b, right, 2 * Half(ty))
  BY Loads
<1>4. op \in Arithmetics
  BY DEF Arithmetics
<1>5. Meaning(Binary(op, ty, left, right, isConst)) = n % (2 * Half(ty))
  BY MeaningOfArithmetic DEF Arithmetics
<1>6. n \in Int
  BY <1>1
<1>7. Yields(ty, Operate(op, ty, a, b), n)
  <2> HIDE DEF a, b
  <2>1. Stand(ty, a, b, left, right)
    BY <1>1, <1>2, <1>3 DEF Stand
  <2> QED
    BY <2>1, AddSubMul
<1> HIDE DEF n
<1> QED
  BY <1>4, <1>5, <1>6, <1>7, BinaryCorrect

\* sdiv, srem.
LEMMA SignedDivisionCorrect ==
  ASSUME NEW op \in {"sdiv", "srem"}, NEW ty \in Types, NEW left \in Patterns(ty),
         NEW right \in Patterns(ty), NEW isConst \in BOOLEAN,
         Defined(Binary(op, ty, left, right, isConst))
  PROVE  Correct(Binary(op, ty, left, right, isConst))
<1> DEFINE a == Operand(ty, left)
           b == Load(ty, right, isConst)
           x == Signed(left, Half(ty))
           y == Signed(right, Half(ty))
           n == IF op = "sdiv" THEN Quot(x, y) ELSE JavaRem(x, y)
<1>1. op \in Arithmetics
  BY DEF Arithmetics
<1>2. right # 0 /\ ~(x = -Half(ty) /\ y = -1)
  BY <1>1, DefinedArithmetic
<1>3. /\ Quot(a, b) = Quot(x, y) /\ JavaRem(a, b) = JavaRem(x, y)
      /\ a \in -Bound(ty) .. Bound(ty) - 1 /\ b \in Int \ {0} /\ Bound(ty) \in Nat
  BY <1>2, SignedQuotients, Bounds DEF Operand
<1>4. Meaning(Binary(op, ty, left, right, isConst)) = n % (2 * Half(ty))
  BY MeaningOfArithmetic DEF Arithmetics
<1> HIDE DEF a, b, x, y
<1>5. a \in Int
  BY <1>3
<1>6. Quot(a, b) \in Int /\ JavaRem(a, b) \in Int
  BY <1>3, <1>5, Quotient
<1>7. n \in Int
  BY <1>3, <1>6
<1>8. Yields(ty, Operate(op, ty, a, b), n)
  BY <1>3, SignedDivision
<1> HIDE DEF n
<1> QED
  BY <1>1, <1>4, <1>7, <1>8, BinaryCorrect DEF a, b

\* A shift count is less than the width, so that it is loaded as it is.
LEMMA ShiftOperands ==
  ASSUME NEW op \in {"shl", "lshr", "ashr"}, NEW ty \in Types, NEW left \in Patterns(ty),
         NEW right \in Patterns(ty), NEW isConst \in BOOLEAN,
         Defined(Binary(op, ty, left, right, isConst))
  PROVE  /\ Load(ty, right, isConst) = right
         /\ right < Width[ty] /\ right \in Nat
         /\ 2 ^ right \in Nat \ {0}
         /\ Operand(ty, left) \in -Bound(ty) .. Bound(ty) - 1
<1>1. op \in Arithmetics
  BY DEF Arithmetics
<1>2. right < Width[ty]
  BY <1>1, DefinedArithmetic
<1>3. right \in Nat /\ right < Half(ty)
  BY <1>2, ShiftCounts
<1>4. Load(ty, right, isConst) = right
  BY <1>3, Loads
<1>5. Operand(ty, left) \in -Bound(ty) .. Bound(ty) - 1
  <2> DEFINE a == Operand(ty, left)
  <2>1. /\ ty # "i1" => a \in -Half(ty) .. Half(ty) - 1
        /\ ty = "i1" => a \in 0 .. 1
    BY Loads DEF Operand
  <2>2. /\ Half(ty) \in Nat \ {0} /\ Bound(ty) \in Nat \ {0} /\ Half(ty) <= Bound(ty)
        /\ ty \notin {"i32", "i64"} => 2 * Half(ty) <= Bound(ty)
    BY Halves, Bounds
  <2> HIDE DEF a
  <2>3. a \in -Bound(ty) .. Bound(ty) - 1
    BY <2>1, <2>2
  <2> QED
    BY <2>3 DEF a
<1> QED
  BY <1>2, <1>3, <1>4, <1>5, PowerPositive

\* shl.
LEMMA ShiftLeftCorrect ==
  ASSUME NEW op, op = "shl", NEW ty \in Types, NEW left \in Patterns(ty),
         NEW right \in Patterns(ty), NEW isConst \in BOOLEAN,
         Defined(Binary(op, ty, left, right, isConst))
  PROVE  Correct(Binary(op, ty, left, right, isConst))
<1> DEFINE a == Operand(ty, left)
           n == left * 2 ^ right
<1>1. Load(ty, right, isConst) = right /\ right < Width[ty] /\ 2 ^ right \in Nat \ {0}
  BY ShiftOperands
<1>2. left \in Int
  BY PatternStays
<1>3. n \in Int
  BY <1>1, <1>2
<1>4. a \in Int /\ Congruent(a, left, 2 * Half(ty))
  BY Loads DEF Operand
<1>5. Meaning(Binary(op, ty, left, right, isConst)) = n % (2 * Half(ty))
  BY MeaningOfArithmetic DEF Arithmetics
<1> HIDE DEF a
<1>6. Yields(ty, Operate(op, ty, a, right), n)
  BY <1>1, <1>2, <1>4, ShiftsLeft
<1> HIDE DEF n
<1>7. op \in Arithmetics
  BY DEF Arithmetics
<1> QED
  BY <1>1, <1>3, <1>5, <1>6, <1>7, BinaryCorrect DEF a

\* ashr.
LEMMA ArithmeticShiftCorrect ==
  ASSUME NEW op, op = "ashr", NEW ty \in Types, NEW left \in Patterns(ty),
         NEW right \in Patterns(ty), NEW isConst \in BOOLEAN,
         Defined(Binary(op, ty, left, right, isConst))
  PROVE  Correct(Binary(op, ty, left, right, isConst))
<1> DEFINE a == Operand(ty, left)
           x == Signed(left, Half(ty))
           n == x \div 2 ^ right
           v == Operate(op, ty, a, right)
<1>1. /\ Load(ty, right, isConst) = right /\ right < Width[ty] /\ right \in Nat
      /\ 2 ^ right \in Nat \ {0} /\ a \in -Bound(ty) .. Bound(ty) - 1
  BY ShiftOperands
<1>2. left \in Int /\ Half(ty) \in Nat \ {0}
  BY PatternStays, Halves
<1>3. x \in Int
  BY <1>2 DEF Signed
<1>4. Meaning(Binary(op, ty, left, right, isConst)) = n % (2 * Half(ty))
  BY MeaningOfArithmetic DEF Arithmetics
<1>5. a \in Int /\ Congruent(a, left, 2 * Half(ty)) /\ (ty # "i1" => a = x)
  BY Loads DEF Operand
<1>6. Congruent(x, left, 2 * Half(ty))
  BY <1>2, CongruentSigned
<1> HIDE DEF a, x, v
<1>7. Yields(ty, v, a \div 2 ^ right)
  BY <1>1, ShiftsRight DEF v
<1>8. n \in Int
  BY <1>1, <1>3, DivMod
<1>9. Yields(ty, v, n)
  <2>1. CASE ty # "i1"
    BY <1>5, <1>7, <2>1
  <2>2. CASE ty = "i1"
    <3>1. right = 0
      BY <1>1, <2>2, WidthAssumption
    <3>2. 2 ^ right = 1
      BY <3>1, PowerZero
    <3>3. a \div 2 ^ right = a /\ n = x
      BY <1>3, <1>5, <3>2
    <3>4. Congruent(left, x, 2 * Half(ty)) /\ 2 * Half(ty) \in Nat
      BY <1>2, <1>3, <1>6, CongruentSymmetric
    <3>5. v \in -Bound(ty) .. Bound(ty) - 1 /\ Congruent(v, a, 2 * Half(ty))
      BY <1>7, <3>3 DEF Yields
    <3>6. v \in Int
      BY <1>1, <3>5, Bounds
    <3>7. Congruent(v, left, 2 * Half(ty))
      BY <1>2, <1>5, <3>4, <3>5, <3>6, CongruentTransitive
    <3>8. Congruent(v, x, 2 * Half(ty))
      BY <1>2, <1>3, <3>4, <3>6, <3>7, CongruentTransitive
    <3> QED
      BY <3>3, <3>5, <3>8 DEF Yields
  <2> QED
    BY <2>1, <2>2
<1> HIDE DEF n
<1>10. op \in Arithmetics
  BY DEF Arithmetics
<1> QED
  BY <1>1, <1>4, <1>8, <1>9, <1>10, BinaryCorrect DEF a, v

\* lshr: of an i8 or i16 it has some value of the type, of the others the right one.
LEMMA LogicalShiftCorrect ==
  ASSUME NEW op, op = "lshr", NEW ty \in Types, NEW left \in Patterns(ty),
         NEW right \in Patterns(ty), NEW isConst \in BOOLEAN,
         Defined(Binary(op, ty, left, right, isConst))
  PROVE  Correct(Binary(op, ty, left, right, isConst))
<1> DEFINE a == Operand(ty, left)
           u == Unsigned(a, Bound(ty))
           d == 2 ^ right
           n == u \div d
<1>1. /\ Load(ty, right, isConst) = right /\ right < Width[ty]
      /\ d \in Nat \ {0} /\ a \in -Bound(ty) .. Bound(ty) - 1
  BY ShiftOperands
<1>2. Bound(ty) \in Nat \ {0} /\ (ty \in {"i32", "i64"} => Bound(ty) = Half(ty))
  BY Bounds
<1>3. left \in 0 .. 2 * Half(ty) - 1 /\ 2 * Half(ty) \in Nat \ {0}
  BY Halves
<1>4. Unsigned(a, Half(ty)) = left /\ (ty = "i1" => a = left)
  BY Loads DEF Operand
<1>5. Meaning(Binary(op, ty, left, right, isConst)) = left \div d
  BY MeaningOfArithmetic DEF Arithmetics
<1>6. Yields(ty, Operate(op, ty, a, right), n)
  BY <1>1, ShiftsRight
<1> HIDE DEF a, d
<1>7. u \in Int
  BY <1>1, <1>2 DEF Unsigned
<1>8. ty \notin {"i8", "i16"} => u = left
  <2>1. CASE ty \in {"i32", "i64"}
    BY <1>2, <1>4, <2>1
  <2>2. CASE ty = "i1"
    BY <1>3, <1>4, <2>2 DEF Unsigned
  <2> QED
    BY <2>1, <2>2 DEF Types
<1> HIDE DEF u
<1>9. n \in Int
  BY <1>1, <1>7, DivMod
<1>10. ASSUME ty \notin {"i8", "i16"}
       PROVE  Meaning(Binary(op, ty, left, right, isConst)) = n % (2 * Half(ty))
  <2>1. n = left \div d
    BY <1>8, <1>10
  <2>2. left \div d \in 0 .. left
    <3>1. left \in Int /\ left >= 0 /\ d \in Int \ {0} /\ d >= 0
      BY <1>1, <1>3
    <3> HIDE DEF n
    <3> QED
      BY <3>1, Quotient
  <2>3. n \in Patterns(ty)
    BY <1>3, <2>1, <2>2, Halves
  <2> QED
    BY <1>5, <2>1, <2>3, PatternStays
<1> HIDE DEF n
<1>11. op \in Arithmetics
  BY DEF Arithmetics
<1> QED
  BY <1>1, <1>6, <1>9, <1>10, <1>11, BinaryCorrect DEF a

\* udiv, urem.
LEMMA UnsignedDivisionCorrect ==
  ASSUME NEW op \in {"udiv", "urem"}, NEW ty \in Types, NEW left \in Patterns(ty),
         NEW right \in Patterns(ty), NEW isConst \in BOOLEAN,
         Linked(op, ty, ty), Defined(Binary(op, ty, left, right, isConst))
  PROVE  Correct(Binary(op, ty, left, right, isConst))
<1> DEFINE n == IF op = "udiv" THEN left \div right ELSE left % right
<1>1. op \in Arithmetics
  BY DEF Arithmetics
<1>2. right # 0
  BY <1>1, DefinedArithmetic
<1>3. ty # "i1"
  BY DEF Linked
<1>4. /\ Yields(ty, Operate(op, ty, Operand(ty, left), Load(ty, right, isConst)), n)
      /\ n \in Patterns(ty)
  BY <1>2, <1>3, UnsignedDivision DEF Operand
<1>5. Meaning(Binary(op, ty, left, right, isConst)) = n
  BY MeaningOfArithmetic DEF Arithmetics
<1> HIDE DEF n
<1>6. n \in Int /\ n % (2 * Half(ty)) = n
  BY <1>4, PatternStays
<1> QED
  BY <1>1, <1>4, <1>5, <1>6, BinaryCorrect

\* Every instruction of printArithmeticInstruction.
LEMMA ArithmeticCorrect ==
  ASSUME NEW op \in Arithmetics, NEW ty \in Types, NEW left \in Patterns(ty),
         NEW right \in Patterns(ty), NEW isConst \in BOOLEAN,
         Linked(op, ty, ty), Defined(Binary(op, ty, left, right, isConst))
  PROVE  Correct(Binary(op, ty, left, right, isConst))
<1>1. CASE op \in {"add", "sub", "mul"}
  BY <1>1, AddSubMulCorrect
<1>2. CASE op \in {"sdiv", "srem"}
  BY <1>2, SignedDivisionCorrect
<1>3. CASE op = "shl"
  BY <1>3, ShiftLeftCorrect
<1>4. CASE op = "ashr"
  BY <1>4, ArithmeticShiftCorrect
<1>5. CASE op = "lshr"
  BY <1>5, LogicalShiftCorrect
<1>6. CASE op \in {"udiv", "urem"}
  BY <1>6, UnsignedDivisionCorrect
<1> QED
  BY <1>1, <1>2, <1>3, <1>4, <1>5, <1>6 DEF Arithmetics

\* An i1 is 0 or 1.
LEMMA BitCorrect ==
  ASSUME NEW i, NEW v \in {0, 1}, ResultType(i) = "i1", Emitted(i) = Store("i1", v),
         ~Diverges(i) => Meaning(i) = v
  PROVE  Correct(i)
<1>1. Store("i1", v) = v
  <2>1. v % 2 = v
    OBVIOUS
  <2> QED
    BY <2>1 DEF Store
<1>2. Local("i1", v) = v
  BY DEF Local
<1>3. v \in Patterns("i1")
  BY WidthOrder DEF Patterns
<1>4. v \in Locals("i1")
  <2>1. "i1" \notin FloatTypes
    BY DEF FloatTypes
  <2> QED
    BY <1>2, <1>3, <2>1 DEF Locals
<1> QED
  BY <1>1, <1>2, <1>4 DEF Correct

\* printCmpInstruction: the result is an i1.
LEMMA EmittedComparison ==
  ASSUME NEW op \in Comparisons, NEW ty \in Types, NEW left, NEW right, NEW isConst
  PROVE  /\ ResultType(Binary(op, ty, left, right, isConst)) = "i1"
         /\ Emitted(Binary(op, ty, left, right, isConst))
              = Store("i1", Compare(op, Operand(ty, left), Load(ty, right, isConst)))
<1> DEFINE i == Binary(op, ty, left, right, isConst)
           a == Operand(ty, left)
           b == Load(ty, right, isConst)
<1>1. i.op = op /\ i.type = ty /\ i.left = left /\ i.right = right /\ i.const = isConst
  BY BinaryFields
<1> HIDE DEF i
<1>2. ResultType(i) = "i1"
  BY <1>1 DEF ResultType
<1>3. ~ComparesFloats(i)
  BY <1>1 DEF ComparesFloats, FloatTypes, Types
<1>4. Load(i.type, i.left, FALSE) = a /\ Load(i.type, i.right, i.const) = b
  BY <1>1 DEF Operand
<1>5. i.op \notin Conversions /\ i.op \notin Arithmetics /\ i.op \notin Casts
  BY <1>1 DEF Arithmetics, Conversions, Casts, Comparisons
<1> HIDE DEF a, b
<1>6. Emitted(i) = Store(ResultType(i), Compare(i.op, a, b))
  BY <1>3, <1>4, <1>5 DEF Emitted
<1> QED
  BY <1>1, <1>2, <1>6 DEF i, a, b

\* icmp.
LEMMA ComparisonCorrect ==
  ASSUME NEW op \in Comparisons, NEW ty \in Types, NEW left \in Patterns(ty),
         NEW right \in Patterns(ty), NEW isConst \in BOOLEAN
  PROVE  Correct(Binary(op, ty, left, right, isConst))
<1> DEFINE i == Binary(op, ty, left, right, isConst)
           v == Compare(op, Operand(ty, left), Load(ty, right, isConst))
<1>1. v \in {0, 1}
  BY ComparesToBit
<1>2. ResultType(i) = "i1" /\ Emitted(i) = Store("i1", v)
  BY EmittedComparison
<1>3. ASSUME ~Diverges(i) PROVE Meaning(i) = v
  <2>1. ty = "i1" => ~isConst /\ op \notin {"slt", "sle", "sgt", "sge"}
    BY <1>3, BinaryFields DEF Diverges
  <2> QED
    BY <2>1, ComparesRight DEF Operand, Binary
<1> HIDE DEF i, v
<1>4. Correct(i)
  BY <1>1, <1>2, <1>3, BitCorrect
<1> QED
  BY <1>4 DEF i

\* fcmp.
LEMMA FloatComparisonCorrect ==
  ASSUME NEW op \in FloatComparisons, NEW ty \in FloatTypes, NEW left \in Int \cup {NaN},
         NEW right \in Int \cup {NaN}
  PROVE  Correct(Binary(op, ty, left, right, FALSE))
<1> DEFINE i == Binary(op, ty, left, right, FALSE)
           v == CompareFloats(op, left, right)
<1>1. i.op = op /\ i.type = ty /\ i.left = left /\ i.right = right /\ i.const = FALSE
  BY DEF Binary, Instruction
<1>2. v = Bit(Outcome(left, right) \in Accepted(op)) /\ v \in {0, 1}
  <2>1. v = Bit(Outcome(left, right) \in Accepted(op))
    BY FloatsCompareRight
  <2> QED
    BY <2>1 DEF Bit
<1> HIDE DEF i
<1>3. ComparesFloats(i) /\ ResultType(i) = "i1"
  BY <1>1 DEF ComparesFloats, ResultType
<1>4. Load(i.type, i.left, FALSE) = left
  BY <1>1 DEF Load, Local
<1>5. Load(i.type, i.right, i.const) = right
  BY <1>1 DEF Load, Local
<1>6. i.op \notin Conversions /\ i.op = op
  BY <1>1 DEF Conversions, FloatComparisons
<1>7. Emitted(i) = Store("i1", v)
  <2>1. i.op \notin Casts
    BY <1>1 DEF Casts, FloatComparisons
  <2>2. i.op \notin Arithmetics
    BY <1>1 DEF Arithmetics, FloatComparisons
  <2> QED
    BY <1>3, <1>4, <1>5, <1>6, <2>1, <2>2 DEF Emitted
<1>8. Meaning(i) = v
  BY <1>1, <1>2, <1>3, SMTT(30) DEF Meaning
<1> HIDE DEF v
<1>9. Correct(i)
  BY <1>2, <1>3, <1>7, <1>8, BitCorrect
<1> QED
  BY <1>9 DEF i

-----------------------------------------------------------------------------
(* The instructions with one operand. *)

Unary(op, ty, dest, left) == Instruction(op, ty, dest, left, 0, FALSE)

LEMMA UnaryFields ==
  ASSUME NEW op, NEW ty, NEW dest, NEW left
  PROVE  LET i == Unary(op, ty, dest, left) IN
         i.op = op /\ i.type = ty /\ i.dest = dest /\ i.left = left
BY DEF Unary, Instruction

\* The result has the type the instruction names.
LEMMA UnaryType ==
  ASSUME NEW op \in Casts \cup Conversions, NEW ty, NEW dest, NEW left
  PROVE  /\ ResultType(Unary(op, ty, dest, left)) = dest
         /\ ~ComparesFloats(Unary(op, ty, dest, left))
<1>1. op \notin Comparisons /\ op \notin FloatComparisons
  BY DEF Casts, Conversions, Comparisons, FloatComparisons
<1> QED
  BY <1>1, UnaryFields DEF ResultType, ComparesFloats

\* printCastInstruction.
LEMMA EmittedUnary ==
  ASSUME NEW op, NEW ty, NEW dest, NEW left
  PROVE  /\ op \in Casts => Emitted(Unary(op, ty, dest, left))
                              = Store(dest, Cast(op, ty, dest, Operand(ty, left)))
         /\ op \in Conversions => Emitted(Unary(op, ty, dest, left))
                                    = Store(dest, Convert(op, ty, dest, Operand(ty, left)))
<1> DEFINE i == Unary(op, ty, dest, left)
           a == Operand(ty, left)
<1>1. i.op = op /\ i.type = ty /\ i.dest = dest /\ i.left = left
  BY UnaryFields
<1>2. op \in Casts \cup Conversions => ResultType(i) = dest /\ ~ComparesFloats(i)
  BY UnaryType
<1> HIDE DEF i
<1>3. Load(i.type, i.left, FALSE) = a
  BY <1>1 DEF Operand
<1> HIDE DEF a
<1>4. ASSUME op \in Casts PROVE Emitted(i) = Store(ResultType(i), Cast(i.op, i.type, i.dest, a))
  <2>1. i.op \in Casts /\ i.op \notin Conversions /\ i.op \notin Arithmetics
    BY <1>1, <1>4 DEF Casts, Conversions, Arithmetics
  <2> QED
    BY <1>2, <1>3, <1>4, <2>1 DEF Emitted
<1>5. ASSUME op \in Conversions PROVE Emitted(i) = Store(ResultType(i), Convert(i.op, i.type, i.dest, a))
  <2>1. i.op \in Conversions /\ i.op \notin Casts /\ i.op \notin Arithmetics
    BY <1>1, <1>5 DEF Casts, Conversions, Arithmetics
  <2> QED
    BY <1>2, <1>3, <1>5, <2>1 DEF Emitted
<1> QED
  BY <1>1, <1>2, <1>4, <1>5 DEF i, a

\* What LLVM says of each of them.
LEMMA MeaningOfUnary ==
  ASSUME NEW op \in Casts \cup Conversions, NEW ty, NEW dest, NEW left
  PROVE  LET x == Signed(left, Half(ty))
             n == Meaning(Unary(op, ty, dest, left))
         IN  /\ op = "sext" => n = x % (2 * Half(dest))
             /\ op = "zext" => n = left
             /\ op = "trunc" => n = left % (2 * Half(dest))
             /\ op = "sitofp" => n = Rounded(x, dest)
             /\ op \in {"uitofp", "fptrunc"} => n = Rounded(left, dest)
             /\ op = "fptosi" => n = left % (2 * Half(dest))
             /\ op \in {"fptoui", "fpext"} => n = left
<1> DEFINE i == Unary(op, ty, dest, left)
<1>1. i.op = op /\ i.type = ty /\ i.dest = dest /\ i.left = left
  BY UnaryFields
<1>2. ~ComparesFloats(i) /\ ResultType(i) = dest
  BY UnaryType
<1> HIDE DEF i
<1>3. op = "sext" => Meaning(i) = Signed(left, Half(ty)) % (2 * Half(dest))
  BY <1>1, <1>2 DEF Meaning
<1>4. op = "zext" => Meaning(i) = left
  BY <1>1, <1>2 DEF Meaning
<1>5. op = "trunc" => Meaning(i) = left % (2 * Half(dest))
  BY <1>1, <1>2 DEF Meaning
<1>6. op = "sitofp" => Meaning(i) = Rounded(Signed(left, Half(ty)), dest)
  BY <1>1, <1>2 DEF Meaning
<1>7. op \in {"uitofp", "fptrunc"} => Meaning(i) = Rounded(left, dest)
  BY <1>1, <1>2 DEF Meaning
<1>8. op = "fptosi" => Meaning(i) = left % (2 * Half(dest))
  BY <1>1, <1>2 DEF Meaning
<1>9. op \in {"fptoui", "fpext"} => Meaning(i) = left
  BY <1>1, <1>2 DEF Meaning
<1> QED
  BY <1>3, <1>4, <1>5, <1>6, <1>7, <1>8, <1>9 DEF i

\* A number in the range of a JVM type is a number.
LEMMA YieldsInt ==
  ASSUME NEW ty \in Types, NEW v, v \in -Bound(ty) .. Bound(ty) - 1
  PROVE  v \in Int
<1> DEFINE h == Bound(ty)
<1>1. v \in -h .. h - 1 /\ h \in Nat
  BY Bounds
<1>2. -h \in Int /\ h - 1 \in Int
  BY <1>1
<1> HIDE DEF h
<1> QED
  BY <1>1, <1>2

\* sext, zext, trunc.
LEMMA CastCorrect ==
  ASSUME NEW op \in Casts, NEW ty \in Types, NEW dest \in Types, NEW left \in Patterns(ty),
         Converts(op, ty, dest)
  PROVE  Correct(Unary(op, ty, dest, left))
<1> DEFINE i == Unary(op, ty, dest, left)
           a == Operand(ty, left)
           v == Cast(op, ty, dest, a)
           n == IF op = "sext" THEN a ELSE left
<1>1. ResultType(i) = dest
  BY UnaryType
<1>2. Emitted(i) = Store(dest, v)
  BY EmittedUnary
<1>3. n \in Int /\ Yields(dest, v, n)
  <2>1. CASE op \in {"sext", "zext"}
    <3>1. Width[ty] < Width[dest]
      BY <2>1 DEF Converts
    <3>2. /\ Yields(dest, Cast("sext", ty, dest, a), a) /\ a \in Int
          /\ Yields(dest, Cast("zext", ty, dest, a), left) /\ left \in Patterns(dest)
      BY <3>1, SignExtends DEF Operand
    <3>3. left \in Int
      BY PatternStays
    <3> QED
      BY <2>1, <3>2, <3>3
  <2>2. CASE op = "trunc"
    <3>1. Width[dest] < Width[ty]
      BY <2>2 DEF Converts
    <3> QED
      BY <2>2, <3>1, Truncates DEF Operand
  <2> QED
    BY <2>1, <2>2 DEF Casts
<1>4. ASSUME ~Diverges(i) PROVE Meaning(i) = n % (2 * Half(dest))
  <2>1. CASE op = "sext"
    <3>1. ty # "i1"
      BY <1>4, <2>1, UnaryFields DEF Diverges
    <3>2. a = Signed(left, Half(ty))
      BY <3>1, Loads DEF Operand
    <3> HIDE DEF a
    <3> QED
      BY <2>1, <3>2, MeaningOfUnary DEF Casts, Conversions
  <2>2. CASE op = "zext"
    <3>1. left \in Patterns(dest)
      <4>1. Width[ty] < Width[dest]
        BY <2>2 DEF Converts
      <4> QED
        BY <4>1, SignExtends
    <3>2. left % (2 * Half(dest)) = left
      BY <3>1, PatternStays
    <3> QED
      BY <2>2, <3>2, MeaningOfUnary DEF Casts, Conversions
  <2>3. CASE op = "trunc"
    BY <2>3, MeaningOfUnary DEF Casts, Conversions
  <2> QED
    BY <2>1, <2>2, <2>3 DEF Casts
<1> HIDE DEF i, v, n
<1>5. v \in -Bound(dest) .. Bound(dest) - 1 /\ v \in Int
  BY <1>3, YieldsInt DEF Yields
<1>6. Correct(i)
  BY <1>1, <1>2, <1>3, <1>4, <1>5, IntegerCorrect
<1> QED
  BY <1>6 DEF i

\* v is the floating-point number of the result.
LEMMA FloatCorrect ==
  ASSUME NEW i, NEW v, NEW dest \in FloatTypes, v \in Floats(dest), ResultType(i) = dest,
         Emitted(i) = Store(dest, v), ~Diverges(i) => Meaning(i) = v
  PROVE  Correct(i)
<1>1. dest \notin {"i1", "i8", "i16"}
  BY DEF FloatTypes
<1>2. Store(dest, v) = v
  BY <1>1 DEF Store
<1>3. Local(dest, v) = v
  BY DEF Local
<1>4. Locals(dest) = Floats(dest)
  BY DEF Locals
<1> QED
  BY <1>2, <1>3, <1>4 DEF Correct

\* From an integer.
LEMMA IntegerToFloatCorrect ==
  ASSUME NEW op \in {"sitofp", "uitofp"}, NEW ty \in Types, NEW dest \in FloatTypes,
         NEW left \in Patterns(ty), Linked(op, ty, dest)
  PROVE  Correct(Unary(op, ty, dest, left))
<1> DEFINE i == Unary(op, ty, dest, left)
           a == Operand(ty, left)
           x == Signed(left, Half(ty))
           v == Convert(op, ty, dest, a)
<1>1. op \in Conversions
  BY DEF Conversions
<1>2. ResultType(i) = dest /\ Emitted(i) = Store(dest, v)
  BY <1>1, UnaryType, EmittedUnary
<1>3. /\ left \in -(2 * Half("i64")) .. 2 * Half("i64")
      /\ x \in -(2 * Half("i64")) .. 2 * Half("i64")
  BY LongBounds
<1>4. (ty # "i1" => a = x) /\ (ty = "i1" => a = left) /\ Unsigned(a, Half(ty)) = left
  BY Loads DEF Operand
<1>5. CASE op = "sitofp"
  <2>1. v = Rounded(a, dest)
    BY <1>5 DEF Convert
  <2>2. ~Diverges(i) => ty # "i1"
    BY <1>5, UnaryFields DEF Diverges
  <2>3. Meaning(i) = Rounded(x, dest)
    BY <1>5, MeaningOfUnary DEF Casts, Conversions
  <2> HIDE DEF i, a, x, v
  <2>4. a \in -(2 * Half("i64")) .. 2 * Half("i64")
    BY <1>3, <1>4
  <2>5. v \in Floats(dest)
    BY <2>1, <2>4, RoundsToFloat
  <2>6. ~Diverges(i) => Meaning(i) = v
    BY <1>4, <2>1, <2>2, <2>3
  <2>7. Correct(i)
    BY <1>2, <2>5, <2>6, FloatCorrect
  <2> QED
    BY <2>7 DEF i
<1>6. CASE op = "uitofp"
  <2>1. v = Rounded(IF ty = "i64" THEN uitofpLong(a, Half(ty)) ELSE Unsigned(a, Half(ty)), dest)
    BY <1>6 DEF Convert
  <2>2. ty = "i64" => uitofpLong(a, Half(ty)) = Rounded(left, "f64")
    BY LongToDouble DEF Operand
  <2>3. Meaning(i) = Rounded(left, dest)
    BY <1>6, MeaningOfUnary DEF Casts, Conversions
  <2>4. Diverges(i) <=> ty = "i64" /\ dest = "f32"
    BY <1>6, UnaryFields DEF Diverges, Comparisons
  <2> HIDE DEF i, a, x, v
  <2>5. Rounded(left, dest) \in Floats(dest)
    BY <1>3, RoundsToFloat
  <2>6. /\ Rounded(left, "f64") \in -(2 * Half("i64")) .. 2 * Half("i64")
        /\ Rounded(Rounded(left, "f64"), "f64") = Rounded(left, "f64")
    <3>1. "f64" \in FloatTypes
      BY DEF FloatTypes
    <3> QED
      BY <1>3, <3>1, RoundsToFloat
  <2>7. v \in Floats(dest)
    <3>1. CASE ty = "i64"
      <4> DEFINE d == Rounded(left, "f64")
      <4>1. v = Rounded(d, dest) /\ d \in -(2 * Half("i64")) .. 2 * Half("i64")
        BY <2>1, <2>2, <2>6, <3>1
      <4> HIDE DEF d
      <4> QED
        BY <4>1, RoundsToFloat
    <3>2. CASE ty # "i64"
      BY <1>4, <2>1, <2>5, <3>2
    <3> QED
      BY <3>1, <3>2
  <2>8. ~Diverges(i) => Meaning(i) = v
    <3>1. CASE ty # "i64"
      BY <1>4, <2>1, <2>3, <3>1
    <3>2. CASE ty = "i64" /\ dest = "f64"
      BY <2>1, <2>2, <2>3, <2>6, <3>2
    <3>3. CASE ty = "i64" /\ dest = "f32"
      BY <2>4, <3>3
    <3> QED
      BY <3>1, <3>2, <3>3 DEF FloatTypes
  <2>9. Correct(i)
    BY <1>2, <2>7, <2>8, FloatCorrect
  <2> QED
    BY <2>9 DEF i
<1> QED
  BY <1>5, <1>6

\* Between floating-point types.
LEMMA FloatToFloatCorrect ==
  ASSUME NEW op \in {"fpext", "fptrunc"}, NEW ty \in FloatTypes, NEW dest \in FloatTypes,
         NEW left \in Floats(ty), Converts(op, ty, dest)
  PROVE  Correct(Unary(op, ty, dest, left))
<1> DEFINE i == Unary(op, ty, dest, left)
           v == Convert(op, ty, dest, Operand(ty, left))
<1>1. op \in Conversions
  BY DEF Conversions
<1>2. ResultType(i) = dest /\ Emitted(i) = Store(dest, v)
  BY <1>1, UnaryType, EmittedUnary
<1>3. Operand(ty, left) = left
  BY DEF Operand, Load, Local
<1>4. v = Meaning(i)
  <2>1. CASE op = "fpext"
    <3>1. v = left
      BY <1>3, <2>1 DEF Convert
    <3> QED
      BY <2>1, <3>1, MeaningOfUnary DEF Casts, Conversions
  <2>2. CASE op = "fptrunc"
    <3>1. v = Rounded(left, dest)
      BY <1>3, <2>2 DEF Convert
    <3> QED
      BY <2>2, <3>1, MeaningOfUnary DEF Casts, Conversions
  <2> QED
    BY <2>1, <2>2
<1>5. v \in Floats(dest)
  <2>1. CASE left = NaN
    <3>1. v = NaN
      BY <1>3, <2>1 DEF Convert, Rounded
    <3> HIDE DEF v
    <3> QED
      BY <3>1 DEF Floats
  <2>2. CASE left # NaN
    <3>1. left \in -(2 * Half("i64")) .. 2 * Half("i64") /\ left = Round(left, Precision[ty])
      BY <2>2, FloatsAre
    <3>2. CASE op = "fptrunc"
      <4>1. v = Rounded(left, dest)
        BY <1>3, <3>2 DEF Convert
      <4> HIDE DEF v
      <4> QED
        BY <3>1, <4>1, RoundsToFloat
    <3>3. CASE op = "fpext"
      <4>1. v = left
        BY <1>3, <3>3 DEF Convert
      <4>2. ty = "f32" /\ dest = "f64"
        BY <3>3 DEF Converts
      <4>3. left \in Int
        BY <3>1, LongBounds
      <4> DEFINE p == Precision["f32"]
                 q == Precision["f64"]
      <4>4. p \in Nat \ {0} /\ q \in Nat \ {0} /\ p <= q
        BY WidthOrder
      <4>5. Round(left, p) = left
        BY <3>1, <4>2
      <4> HIDE DEF p, q
      <4>6. Round(left, q) = left
        BY <4>3, <4>4, <4>5, RoundWider
      <4> HIDE DEF v
      <4> QED
        BY <3>1, <4>1, <4>2, <4>6 DEF Floats, q
    <3> QED
      BY <3>2, <3>3
  <2> QED
    BY <2>1, <2>2
<1> HIDE DEF i, v
<1>6. Correct(i)
  BY <1>2, <1>4, <1>5, FloatCorrect
<1> QED
  BY <1>6 DEF i

\* To an integer.
LEMMA FloatToIntegerCorrect ==
  ASSUME NEW op \in {"fptosi", "fptoui"}, NEW ty \in FloatTypes, NEW dest \in Types,
         NEW left, Linked(op, ty, dest), Defined(Unary(op, ty, dest, left))
  PROVE  Correct(Unary(op, ty, dest, left))
<1> DEFINE i == Unary(op, ty, dest, left)
           v == Convert(op, ty, dest, Operand(ty, left))
<1>1. op \in Conversions
  BY DEF Conversions
<1>2. ResultType(i) = dest /\ Emitted(i) = Store(dest, v)
  BY <1>1, UnaryType, EmittedUnary
<1>3. v = Convert(op, ty, dest, left)
  BY DEF Operand, Load, Local
<1>4. /\ op = "fptosi" => left \in -Half(dest) .. Half(dest) - 1
      /\ op = "fptoui" => left \in Patterns(dest)
  BY UnaryFields DEF Defined
<1>5. op = "fptoui" => dest # "i1"
  BY DEF Linked
<1>6. left \in Int
  BY <1>4, Halves
<1>7. Diverges(i) <=> op = "fptoui" /\ dest = "i64" /\ left >= Half("i64")
  BY UnaryFields DEF Diverges, Comparisons
<1>8. /\ op = "fptosi" => Meaning(i) = left % (2 * Half(dest))
      /\ op = "fptoui" => Meaning(i) = left
  BY MeaningOfUnary DEF Casts, Conversions
<1> HIDE DEF i, v
<1>9. /\ v \in -Bound(dest) .. Bound(dest) - 1
      /\ ~Diverges(i) => Yields(dest, v, left)
  <2>1. CASE op = "fptosi"
    <3>1. Yields(dest, v, left)
      BY <1>3, <1>4, <2>1, FloatToSigned
    <3> QED
      BY <3>1 DEF Yields
  <2>2. CASE op = "fptoui" /\ dest # "i64"
    <3>1. Yields(dest, v, left)
      BY <1>3, <1>4, <1>5, <2>2, FloatToUnsigned
    <3> QED
      BY <3>1 DEF Yields
  <2>3. CASE op = "fptoui" /\ dest = "i64"
    <3>1. /\ v \in -Half("i64") .. Half("i64") - 1
          /\ left < Half("i64") => v = left
      BY <1>3, <1>4, <2>3, FloatToLong
    <3>2. Bound(dest) = Half("i64")
      BY <2>3, Bounds
    <3>3. ASSUME ~Diverges(i) PROVE Yields(dest, v, left)
      <4>1. v = left
        BY <1>6, <1>7, <2>3, <3>1, <3>3, LongBounds
      <4>2. Congruent(left, left, 2 * Half(dest))
        BY <1>6, Halves, CongruentSelf
      <4> QED
        BY <3>1, <3>2, <4>1, <4>2 DEF Yields
    <3> QED
      BY <3>1, <3>2, <3>3
  <2> QED
    BY <2>1, <2>2, <2>3
<1>10. v \in Int
  BY <1>9, YieldsInt
<1>11. Meaning(i) = left % (2 * Half(dest))
  BY <1>4, <1>8, PatternStays
<1>12. Correct(i)
  BY <1>2, <1>6, <1>9, <1>10, <1>11, IntegerCorrect
<1> QED
  BY <1>12 DEF i

-----------------------------------------------------------------------------
(* Every instruction. *)

\* Whatever instruction is chosen.
LEMMA ChosenCorrect ==
  ASSUME Chosen
  PROVE  Correct(inst)
<1>1. Linked(inst.op, inst.type, inst.dest) /\ Defined(inst)
  BY DEF Chosen
<1>2. CASE \E ty \in Types, op \in Comparisons \cup Arithmetics :
             \E left, right \in Patterns(ty), isConst \in BOOLEAN :
               inst = Instruction(op, ty, ty, left, right, isConst)
  <2>1. PICK ty \in Types, op \in Comparisons \cup Arithmetics :
               \E left, right \in Patterns(ty), isConst \in BOOLEAN :
                 inst = Instruction(op, ty, ty, left, right, isConst)
    BY <1>2
  <2>2. PICK left \in Patterns(ty), right \in Patterns(ty), isConst \in BOOLEAN :
               inst = Binary(op, ty, left, right, isConst)
    BY <2>1 DEF Binary
  <2>3. Linked(op, ty, ty)
    BY <1>1, <2>2, BinaryFields
  <2>4. Correct(Binary(op, ty, left, right, isConst))
    <3>1. CASE op \in Comparisons
      BY <3>1, ComparisonCorrect
    <3>2. CASE op \in Arithmetics
      <4>1. Defined(Binary(op, ty, left, right, isConst))
        BY <1>1, <2>2
      <4> QED
        BY <2>3, <3>2, <4>1, ArithmeticCorrect
    <3> QED
      BY <3>1, <3>2
  <2> QED
    BY <2>2, <2>4
<1>3. CASE \E ty \in FloatTypes, op \in FloatComparisons, left, right \in Comparands :
             inst = Instruction(op, ty, ty, left, right, FALSE)
  <2>1. PICK ty \in FloatTypes, op \in FloatComparisons, left \in Comparands, right \in Comparands :
               inst = Binary(op, ty, left, right, FALSE)
    BY <1>3 DEF Binary
  <2>2. left \in Int \cup {NaN} /\ right \in Int \cup {NaN}
    BY DEF Comparands
  <2> QED
    BY <2>1, <2>2, FloatComparisonCorrect
<1>4. CASE \E op \in Casts \cup Conversions, ty, dest \in Types \cup FloatTypes :
             /\ Converts(op, ty, dest)
             /\ \E left \in Operands(ty) : inst = Instruction(op, ty, dest, left, 0, FALSE)
  <2>1. PICK op \in Casts \cup Conversions, ty \in Types \cup FloatTypes, dest \in Types \cup FloatTypes :
             /\ Converts(op, ty, dest)
             /\ \E left \in Operands(ty) : inst = Instruction(op, ty, dest, left, 0, FALSE)
    BY <1>4
  <2>2. PICK left \in Operands(ty) : inst = Unary(op, ty, dest, left)
    BY <2>1 DEF Unary
  <2>3. Linked(op, ty, dest) /\ Defined(Unary(op, ty, dest, left))
    BY <1>1, <2>2, UnaryFields
  <2>4. Types \cap FloatTypes = {}
    BY DEF Types, FloatTypes
  <2>5. Correct(Unary(op, ty, dest, left))
    <3>1. CASE op \in Casts
      <4>1. ty \in Types /\ dest \in Types
        BY <2>1, <3>1 DEF Converts, Casts
      <4>2. left \in Patterns(ty)
        BY <2>4, <4>1 DEF Operands
      <4> QED
        BY <2>1, <3>1, <4>1, <4>2, CastCorrect
    <3>2. CASE op \in {"sitofp", "uitofp"}
      <4>1. ty \in Types /\ dest \in FloatTypes
        BY <2>1, <3>2 DEF Converts
      <4>2. left \in Patterns(ty)
        BY <2>4, <4>1 DEF Operands
      <4> QED
        BY <2>3, <3>2, <4>1, <4>2, IntegerToFloatCorrect
    <3>3. CASE op \in {"fptosi", "fptoui"}
      <4>1. ty \in FloatTypes /\ dest \in Types
        BY <2>1, <3>3 DEF Converts
      <4> QED
        BY <2>3, <3>3, <4>1, FloatToIntegerCorrect
    <3>4. CASE op \in {"fpext", "fptrunc"}
      <4>1. ty \in FloatTypes /\ dest \in FloatTypes
        BY <2>1, <3>4 DEF Converts, FloatTypes
      <4>2. left \in Floats(ty)
        BY <4>1 DEF Operands
      <4> QED
        BY <2>1, <3>4, <4>1, <4>2, FloatToFloatCorrect
    <3> QED
      BY <3>1, <3>2, <3>3, <3>4 DEF Conversions
  <2> QED
    BY <2>2, <2>5
<1> QED
  BY <1>2, <1>3, <1>4 DEF Chosen

\* The inductive invariant.
IInv == Chosen /\ (Done => result = Emitted(inst))

\* Type and value of the result follow from the instruction.
LEMMA Invariant == Spec => []IInv
<1>1. Init => IInv
  BY DEF Init, IInv, Done
<1>2. IInv /\ [Next]_vars => IInv'
  <2> SUFFICES ASSUME IInv, [Next]_vars PROVE IInv'
    OBVIOUS
  <2>1. inst' = inst
    BY DEF Next, Run, vars
  <2>2. Chosen'
    BY <2>1 DEF IInv, Chosen
  <2>3. result' = Emitted(inst) \/ result' = result
    BY DEF Next, Run, vars
  <2>4. (Done => result = Emitted(inst))'
    BY <2>1, <2>3 DEF IInv, Done
  <2> QED
    BY <2>2, <2>4 DEF IInv
<1> QED
  BY <1>1, <1>2, PTL DEF Spec

\* loadstore.cc:70-97: whatever instruction has run, the local variable of its
\* result holds a value of its type, which the next instruction relies on: an i1
\* is 0 or 1, an i8 or i16 is sign-extended, a float is rounded.
THEOREM TypeCorrect == Spec => []TypeOK
<1>1. IInv => TypeOK
  BY ChosenCorrect DEF IInv, TypeOK, Correct
<1> QED
  BY <1>1, Invariant, PTL

\* Instruction.java:53-442, instruction.cc:75-420: for every width, every
\* instruction and all of its operands for which LLVM defines a result, the
\* emitted code computes it, but for the instructions listed in Diverges.
THEOREM ComputesWhatLlvmDefines == Spec => []ComputesLlvm
<1>1. IInv => ComputesLlvm
  BY ChosenCorrect DEF IInv, ComputesLlvm, Correct
<1> QED
  BY <1>1, Invariant, PTL
=============================================================================
