---------------------------- MODULE GeneratorProofs ----------------------------
(***************************************************************************)
(* Theorems about generator/main.cc, for every number of strings, every    *)
(* bound on the digits, every width of int32_t and every size that is      *)
(* asked for.  Folds first: FoldLeft is a recursion over sets of places,   *)
(* and has to be shown to have a solution.  Then the file generate_pattern *)
(* writes (GeneratorFile) and the strings generate makes (Generator).      *)
(***************************************************************************)
EXTENDS Generator, GeneratorFile, FiniteSetTheorems, WellFoundedInduction, TLAPS

\* Induction, for a set of numbers.
LEMMA SetOfNat ==
    ASSUME NEW S, 0 \in S, \A k \in Nat : k \in S => k + 1 \in S
    PROVE  Nat \subseteq S
<1> DEFINE T == Nat \ S
<1> SUFFICES ASSUME T # {} PROVE FALSE
  OBVIOUS
<1>1. PICK x \in T : \A y \in T : ~ (<<y, x>> \in OpToRel(<, Nat))
  <2> HIDE DEF T
  <2>1. T \subseteq Nat
    BY DEF T
  <2> QED
    BY <2>1, WFMin, NatLessThanWellFounded
<1>2. x # 0 /\ x - 1 \in Nat /\ (x - 1) + 1 = x
  OBVIOUS
<1>3. <<x - 1, x>> \in OpToRel(<, Nat)
  BY <1>2 DEF OpToRel
<1>4. x - 1 \in S
  BY <1>1, <1>2, <1>3
<1> QED
  BY <1>2, <1>4

\* A number that is in S and not smaller than any other is the largest.
LEMMA MaxIs ==
    ASSUME NEW S \in SUBSET Int, NEW m \in S, \A y \in S : y <= m
    PROVE  Max(S) = m
<1>1. \A x \in S : (\A y \in S : x >= y) => x = m
  OBVIOUS
<1>2. \A y \in S : m >= y
  OBVIOUS
<1> QED
  BY <1>1, <1>2 DEF Max

LEMMA MaxOfRange ==
    ASSUME NEW k \in Nat
    PROVE  1..(k + 1) # {} /\ Max(1..(k + 1)) = k + 1 /\ (1..(k + 1)) \ {k + 1} = 1..k
<1>1. k + 1 \in 1..(k + 1) /\ \A y \in 1..(k + 1) : y <= k + 1
  OBVIOUS
<1>2. 1..(k + 1) \in SUBSET Int
  OBVIOUS
<1>3. Max(1..(k + 1)) = k + 1
  BY <1>1, <1>2, MaxIs
<1> QED
  BY <1>1, <1>3

\* A set of places has a largest.
LEMMA MaxInRange ==
    ASSUME NEW n \in Nat, NEW S \in SUBSET (1..n), S # {}
    PROVE  Max(S) \in S /\ \A y \in S : y <= Max(S)
<1> DEFINE T == {k \in Nat : \A U \in SUBSET (1..k) : U # {} => \E m \in U : \A y \in U : y <= m}
<1>1. 0 \in T
  <2>1. \A U \in SUBSET (1..0) : U = {}
    OBVIOUS
  <2> QED
    BY <2>1
<1>2. ASSUME NEW k \in Nat, k \in T
      PROVE  k + 1 \in T
  <2> SUFFICES ASSUME NEW U \in SUBSET (1..(k + 1)), U # {}
               PROVE  \E m \in U : \A y \in U : y <= m
    OBVIOUS
  <2>1. CASE k + 1 \in U
    BY <2>1
  <2>2. CASE k + 1 \notin U
    <3>1. U \in SUBSET (1..k)
      BY <2>2
    <3> QED
      BY <1>2, <3>1
  <2> QED
    BY <2>1, <2>2
<1>3. Nat \subseteq T
  <2> HIDE DEF T
  <2> QED
    BY <1>1, <1>2, SetOfNat
<1>4. PICK m \in S : \A y \in S : y <= m
  BY <1>3
<1>5. Max(S) = m
  BY <1>4, MaxIs
<1> QED
  BY <1>4, <1>5

\* FoldLeft is defined by recursion over the sets of places of a sequence.
\* Such a recursion has a solution, from one place to the next.
Folds(g, places, base, step) ==
    \A S \in SUBSET places :
        g[S] = IF S = {} THEN base ELSE step[Max(S)][g[S \ {Max(S)}]]

LEMMA FoldExists ==
    ASSUME NEW n \in Nat, NEW Val, NEW base \in Val, NEW step \in [1..n -> [Val -> Val]]
    PROVE  \E g \in [SUBSET (1..n) -> Val] : Folds(g, 1..n, base, step)
<1> DEFINE Done(k) == \E g \in [SUBSET (1..k) -> Val] : Folds(g, 1..k, base, step)
           T == {k \in Nat : k <= n => Done(k)}
<1>1. Done(0)
  <2> DEFINE g == [S \in SUBSET (1..0) |-> base]
  <2>1. g \in [SUBSET (1..0) -> Val] /\ \A S \in SUBSET (1..0) : S = {} /\ g[S] = base
    OBVIOUS
  <2> HIDE DEF g
  <2>2. Folds(g, 1..0, base, step)
    BY <2>1 DEF Folds
  <2> QED
    BY <2>1, <2>2
<1>2. ASSUME NEW k \in Nat, k + 1 <= n, Done(k)
      PROVE  Done(k + 1)
  <2>1. PICK g \in [SUBSET (1..k) -> Val] : Folds(g, 1..k, base, step)
    BY <1>2
  <2> DEFINE h == [S \in SUBSET (1..(k + 1)) |->
                      IF k + 1 \in S THEN step[k + 1][g[S \ {k + 1}]] ELSE g[S]]
  <2>2. ASSUME NEW S \in SUBSET (1..(k + 1))
        PROVE  /\ k + 1 \in S => /\ S \ {k + 1} \in SUBSET (1..k)
                                 /\ Max(S) = k + 1
                                 /\ h[S] = step[Max(S)][g[S \ {Max(S)}]]
                                 /\ h[S \ {Max(S)}] = g[S \ {Max(S)}]
                                 /\ h[S] \in Val
               /\ k + 1 \notin S => S \in SUBSET (1..k) /\ h[S] = g[S] /\ h[S] \in Val
    <3>1. CASE k + 1 \in S
      <4>1. S \ {k + 1} \in SUBSET (1..k) /\ S \ {k + 1} \in SUBSET (1..(k + 1))
        OBVIOUS
      <4>2. S \in SUBSET Int /\ \A y \in S : y <= k + 1
        OBVIOUS
      <4>3. Max(S) = k + 1
        BY <3>1, <4>2, MaxIs
      <4>4. h[S] = step[k + 1][g[S \ {k + 1}]]
        BY <3>1
      <4>5. h[S \ {k + 1}] = g[S \ {k + 1}]
        BY <4>1
      <4>6. g[S \ {k + 1}] \in Val /\ k + 1 \in 1..n
        BY <1>2, <2>1, <4>1
      <4>7. step[k + 1][g[S \ {k + 1}]] \in Val
        BY <4>6
      <4> QED
        BY <3>1, <4>1, <4>3, <4>4, <4>5, <4>7
    <3>2. CASE k + 1 \notin S
      <4>1. S \in SUBSET (1..k)
        BY <3>2
      <4>2. h[S] = g[S] /\ g[S] \in Val
        BY <2>1, <3>2, <4>1
      <4> QED
        BY <3>2, <4>1, <4>2
    <3> QED
      BY <3>1, <3>2
  <2>3. h \in [SUBSET (1..(k + 1)) -> Val]
    BY <2>2
  <2> HIDE DEF h
  <2>4. ASSUME NEW S \in SUBSET (1..(k + 1))
        PROVE  h[S] = IF S = {} THEN base ELSE step[Max(S)][h[S \ {Max(S)}]]
    <3>1. CASE k + 1 \in S
      BY <2>2, <3>1
    <3>2. CASE k + 1 \notin S
      <4>1. S \in SUBSET (1..k) /\ h[S] = g[S]
        BY <2>2, <3>2
      <4>2. S \ {Max(S)} \in SUBSET (1..k) /\ k + 1 \notin S \ {Max(S)}
        BY <3>2, <4>1
      <4>3. h[S \ {Max(S)}] = g[S \ {Max(S)}]
        <5>1. S \ {Max(S)} \in SUBSET (1..(k + 1))
          BY <4>2
        <5> QED
          BY <2>2, <4>2, <5>1
      <4> QED
        BY <2>1, <4>1, <4>3 DEF Folds
    <3> QED
      BY <3>1, <3>2
  <2>5. Folds(h, 1..(k + 1), base, step)
    BY <2>4 DEF Folds
  <2> QED
    BY <2>3, <2>5
<1> HIDE DEF Done
<1>3. 0 \in T /\ \A k \in Nat : k \in T => k + 1 \in T
  BY <1>1, <1>2
<1>4. Nat \subseteq T
  <2> HIDE DEF T
  <2> QED
    BY <1>3, SetOfNat
<1>5. Done(n)
  BY <1>4
<1> QED
  BY <1>5 DEF Done

\* The sum of a list of sizes, size after size.
LEMMA SizeSums ==
    ASSUME NEW s \in Seq(Nat)
    PROVE  \E g \in [0..Len(s) -> Nat] :
               /\ g[0] = 0
               /\ \A k \in 0..(Len(s) - 1) : g[k + 1] = g[k] + s[k + 1]
               /\ FoldLeft(LAMBDA sum, size : sum + size, 0, s) = g[Len(s)]
<1> DEFINE n == Len(s)
           step == [k \in 1..n |-> [v \in Nat |-> v + s[k]]]
           Solves(f) == f = [S \in SUBSET DOMAIN s |->
                                IF S = {} THEN 0 ELSE f[S \ {Max(S)}] + s[Max(S)]]
           f == CHOOSE f : f = [S \in SUBSET DOMAIN s |->
                                   IF S = {} THEN 0 ELSE f[S \ {Max(S)}] + s[Max(S)]]
<1>1. n \in Nat /\ DOMAIN s = 1..n /\ \A k \in 1..n : s[k] \in Nat
  OBVIOUS
<1>2. step \in [1..n -> [Nat -> Nat]]
  BY <1>1
<1>3. \A k \in 1..n, v \in Nat : step[k][v] = v + s[k]
  OBVIOUS
<1>4. FoldLeft(LAMBDA sum, size : sum + size, 0, s) = f[1..n]
  BY <1>1 DEF FoldLeft, MapThenFoldSet
<1> HIDE DEF n, step
<1>5. \A S \in SUBSET (1..n) : S # {} => Max(S) \in 1..n
  BY <1>1, MaxInRange
<1>6. \E g : Solves(g)
  <2>1. PICK g \in [SUBSET (1..n) -> Nat] : Folds(g, 1..n, 0, step)
    BY <1>1, <1>2, FoldExists
  <2>2. ASSUME NEW S \in SUBSET (1..n)
        PROVE  g[S] = IF S = {} THEN 0 ELSE g[S \ {Max(S)}] + s[Max(S)]
    <3>1. S \ {Max(S)} \in SUBSET (1..n)
      OBVIOUS
    <3>2. g[S \ {Max(S)}] \in Nat
      BY <2>1, <3>1
    <3> QED
      BY <1>3, <1>5, <2>1, <3>2 DEF Folds
  <2> QED
    BY <1>1, <2>2
<1>7. Solves(f)
  BY <1>6
<1> HIDE DEF f
<1>8. f[1..0] = 0
  <2>1. 1..0 = {} /\ 1..0 \in SUBSET (1..n)
    OBVIOUS
  <2> QED
    BY <1>1, <1>7, <2>1
<1>9. ASSUME NEW k \in 0..(n - 1)
      PROVE  f[1..(k + 1)] = f[1..k] + s[k + 1]
  <2> DEFINE S == 1..(k + 1)
  <2>1. S \in SUBSET (1..n) /\ k \in Nat
    BY <1>1
  <2>2. S # {} /\ Max(S) = k + 1 /\ S \ {k + 1} = 1..k
    BY <2>1, MaxOfRange
  <2> HIDE DEF S
  <2>3. f[S] = f[S \ {Max(S)}] + s[Max(S)]
    BY <1>1, <1>7, <2>1, <2>2
  <2>4. f[S] = f[1..k] + s[k + 1]
    BY <2>2, <2>3
  <2> QED
    BY <2>4 DEF S
<1>10. \A k \in 0..n : f[1..k] \in Nat
  <2> DEFINE T == {k \in Nat : k <= n => f[1..k] \in Nat}
  <2>1. 0 \in T
    BY <1>8
  <2>2. ASSUME NEW k \in Nat, k \in T
        PROVE  k + 1 \in T
    BY <1>1, <1>9, <2>2
  <2>3. Nat \subseteq T
    <3> HIDE DEF T
    <3> QED
      BY <2>1, <2>2, SetOfNat
  <2> QED
    BY <1>1, <2>3
<1> DEFINE g == [k \in 0..n |-> f[1..k]]
<1>11. g \in [0..n -> Nat] /\ g[0] = 0 /\ g[n] = f[1..n]
  BY <1>1, <1>8, <1>10
<1>12. ASSUME NEW k \in 0..(n - 1)
       PROVE  g[k + 1] = g[k] + s[k + 1]
  <2>1. k \in 0..n /\ k + 1 \in 0..n
    BY <1>1
  <2> QED
    BY <1>9, <2>1
<1> QED
  BY <1>4, <1>11, <1>12 DEF n

(***************************************************************************)
(* Numbers.                                                                *)
(***************************************************************************)

LEMMA HalfPositive == Half \in Nat /\ Half > 0
<1> DEFINE S == 1..(Width - 1)
<1>1. Width - 1 \in Nat
  BY FileAssumption
<1>2. IsFiniteSet(S) /\ Cardinality(S) = Width - 1
  BY <1>1, FS_Interval
<1> HIDE DEF S
<1>3. IsFiniteSet(SUBSET S) /\ Cardinality(SUBSET S) = 2^(Width - 1)
  BY <1>2, FS_SUBSET
<1>4. SUBSET S # {}
  OBVIOUS
<1>5. Cardinality(SUBSET S) \in Nat /\ Cardinality(SUBSET S) # 0
  BY <1>3, <1>4, FS_CardinalityType, FS_EmptySet
<1> QED
  BY <1>3, <1>5 DEF Half

\* An int32_t keeps the numbers it can hold.
LEMMA WrappedInts ==
    ASSUME NEW m \in Int
    PROVE  Wrapped(m) \in Ints /\ Wrapped(m) \in Int /\ (m \in Ints => Wrapped(m) = m)
<1> DEFINE h == Half
<1>1. h \in Nat /\ h > 0
  BY HalfPositive
<1>2. Wrapped(m) = ((m + h) % (2 * h)) - h /\ Ints = (-h)..(h - 1)
  BY DEF Wrapped, Ints
<1> HIDE DEF h
<1>3. (m + h) % (2 * h) \in 0..(2 * h - 1)
  BY <1>1
<1>4. ASSUME m \in (-h)..(h - 1)
      PROVE  (m + h) % (2 * h) = m + h
  BY <1>1, <1>4
<1> QED
  BY <1>1, <1>2, <1>3, <1>4

\* A factor can be compared instead of the product.
LEMMA Products ==
    ASSUME NEW a \in Int, NEW b \in Int, NEW d \in Nat \ {0}
    PROVE  /\ a * d \in Int
           /\ a <= b => a * d <= b * d
           /\ a < b => (a + 1) * d <= b * d
           /\ (a + 1) * d = a * d + d
           /\ (-a) * d = -(a * d)
<1>1. a * d \in Int /\ (a + 1) * d = a * d + d /\ (-a) * d = -(a * d)
  OBVIOUS
<1>2. a <= b => a * d <= b * d
  OBVIOUS
<1>3. a < b => (a + 1) * d <= b * d
  OBVIOUS
<1> QED
  BY <1>1, <1>2, <1>3

LEMMA Floor ==
    ASSUME NEW m \in Int, NEW d \in Nat \ {0}
    PROVE  /\ m \div d \in Int
           /\ (m \div d) * d <= m
           /\ m < (m \div d) * d + d
           /\ m >= 0 => m \div d >= 0
  OBVIOUS

\* The quotient of C is on the side of 0.
LEMMA QuotientBounds ==
    ASSUME NEW m \in Int, NEW d \in Nat \ {0}
    PROVE  /\ Quotient(m, d) \in Int
           /\ m >= 0 => /\ Quotient(m, d) >= 0
                        /\ Quotient(m, d) * d <= m
                        /\ m < Quotient(m, d) * d + d
           /\ m <= 0 => /\ Quotient(m, d) <= 0
                        /\ m <= Quotient(m, d) * d
                        /\ Quotient(m, d) * d <= 0
<1>1. CASE m >= 0
  <2>1. Quotient(m, d) = m \div d
    BY <1>1 DEF Quotient
  <2>2. m = 0 => m \div d = 0
    OBVIOUS
  <2> QED
    BY <1>1, <2>1, <2>2, Floor
<1>2. CASE m < 0
  <2> DEFINE e == (-m) \div d
  <2>1. e \in Int /\ e * d <= -m /\ e >= 0
    BY <1>2, Floor
  <2>2. Quotient(m, d) = -e
    BY <1>2 DEF Quotient
  <2> HIDE DEF e
  <2>3. (-e) * d = -(e * d) /\ e * d >= 0 /\ e * d \in Int
    BY <2>1
  <2> QED
    BY <1>2, <2>1, <2>2, <2>3
<1> QED
  BY <1>1, <1>2

LEMMA MultipleHasNoRemainder ==
    ASSUME NEW k \in Int, NEW d \in Nat \ {0}
    PROVE  Remainder(k * d, d) = 0
<1> DEFINE q == Quotient(k * d, d)
<1>1. k * d \in Int
  OBVIOUS
<1>2. q \in Int
  BY <1>1, QuotientBounds
<1>3. q = k
  <2>1. CASE k >= 0
    <3>1. k * d >= 0
      BY <2>1
    <3>2. q * d <= k * d /\ k * d < q * d + d
      BY <1>1, <3>1, QuotientBounds
    <3> HIDE DEF q
    <3>3. ~ (k < q) /\ ~ (q < k)
      BY <1>2, <3>2, Products
    <3> QED
      BY <1>2, <3>3
  <2>2. CASE k < 0
    <3> DEFINE e == (-(k * d)) \div d
    <3>1. k * d < 0 /\ -(k * d) = (-k) * d
      BY <2>2
    <3>2. q = -e
      BY <1>1, <3>1 DEF Quotient
    <3>3. e \in Int /\ e * d <= (-k) * d /\ (-k) * d < e * d + d
      BY <1>1, <3>1, Floor
    <3> HIDE DEF e, q
    <3>4. ~ (e < -k) /\ ~ (-k < e)
      BY <3>3, Products
    <3> QED
      BY <3>2, <3>3, <3>4
  <2> QED
    BY <2>1, <2>2
<1>4. Remainder(k * d, d) = k * d - d * q
  BY DEF Remainder
<1> QED
  BY <1>3, <1>4

\* Among d successive numbers there is a multiple of d.
LEMMA MultipleAhead ==
    ASSUME NEW m \in Int, NEW d \in Nat \ {0}
    PROVE  \E n \in m..(m + d - 1) : Remainder(n, d) = 0
<1> DEFINE k == (m + d - 1) \div d
<1>1. k \in Int /\ k * d <= m + d - 1 /\ m + d - 1 < k * d + d /\ k * d \in Int
  BY Floor
<1> HIDE DEF k
<1>2. k * d \in m..(m + d - 1)
  BY <1>1
<1> QED
  BY <1>1, <1>2, MultipleHasNoRemainder

\* Not below 0, the remainder of C is that of modular arithmetic.
LEMMA RemainderIsMod ==
    ASSUME NEW m \in Nat, NEW d \in Nat \ {0}, Remainder(m, d) = 0
    PROVE  m % d = 0
<1>1. m - d * (m \div d) = 0
  BY DEF Remainder, Quotient
<1> QED
  BY <1>1

(***************************************************************************)
(* The file.                                                               *)
(***************************************************************************)

\* g[k] is the sum of the first k sizes of s.
SumsOf(s, g) ==
    /\ g \in [0..Len(s) -> Nat]
    /\ g[0] = 0
    /\ \A k \in 0..(Len(s) - 1) : g[k + 1] = g[k] + s[k + 1]
    /\ g[Len(s)] = SizeSum(s)

Longest == Max(ToSet(generated_strings))

\* The size when the padding began.
Start == required_size_in_bytes - left

FileTypes ==
    /\ generated_strings \in Strings
    /\ size_in_mb \in Requests
    /\ required_size_in_bytes \in Int
    /\ i \in Nat
    /\ total_size \in Int
    /\ left \in Int
    /\ file \in Nat
    /\ pc \in {"main", "failed", "copies", "rest", "padding", "done"}

\* The copies written so far; none if the request is negative.
CopiesInv == file = i * generated_size_in_bytes /\ (i = 0 \/ i <= at_least)

\* The strings written after the copies; none is written unless something is
\* asked for, and only the last one can exceed what is asked for.
RestInv ==
    /\ left = required_size_in_bytes - total_size
    /\ required_size_in_bytes >= 0 => file = total_size
    /\ required_size_in_bytes < 0 =>
           file = 0 /\ total_size \in required_size_in_bytes..0
    /\ required_size_in_bytes = 0 => total_size = 0
    /\ required_size_in_bytes > 0 => total_size <= required_size_in_bytes + Longest - 1
    /\ i \in 1..(Len(generated_strings) + 1)
    /\ \E g \in [0..Len(generated_strings) -> Nat] :
           /\ SumsOf(generated_strings, g)
           /\ total_size = at_least * generated_size_in_bytes + g[i - 1]

\* The dashes written so far have not gone past a multiple of the block size.
PaddingInv ==
    /\ Start <= total_size
    /\ \A m \in Start..(total_size - 1) : Remainder(m, BlockSize) # 0
    /\ required_size_in_bytes >= 0 => file = total_size
    /\ required_size_in_bytes < 0 => file = total_size - Start
    /\ required_size_in_bytes = 0 => Start = 0
    /\ required_size_in_bytes > 0 =>
           Start \in required_size_in_bytes..(required_size_in_bytes + Longest - 1)

FileInv ==
    /\ FileTypes
    /\ pc = "main" => i = 0 /\ file = 0
    /\ pc \in {"copies", "rest", "padding", "done"} =>
           required_size_in_bytes = Wrapped(size_in_mb * Mega)
    /\ pc = "copies" => CopiesInv
    /\ pc = "rest" => RestInv
    /\ pc \in {"padding", "done"} => PaddingInv
    /\ pc = "done" => Remainder(total_size, BlockSize) = 0

LEMMA StringsSizes ==
    ASSUME NEW s \in Strings
    PROVE  /\ s \in Seq(Nat) /\ Len(s) \in Nat /\ Len(s) > 0
           /\ \A k \in 1..Len(s) : s[k] \in Nat /\ s[k] > 0
  BY FileAssumption

\* The longest string is as long as any.
LEMMA LongestBounds ==
    ASSUME NEW s \in Strings
    PROVE  Max(ToSet(s)) \in Nat /\ \A k \in 1..Len(s) : s[k] <= Max(ToSet(s))
<1> DEFINE n == Len(s)
           T == {k \in Nat : k + 1 <= n => \E m \in 1..(k + 1) : \A j \in 1..(k + 1) : s[j] <= s[m]}
<1>1. n \in Nat /\ n > 0 /\ DOMAIN s = 1..n /\ \A k \in 1..n : s[k] \in Nat
  BY StringsSizes
<1> HIDE DEF n
<1>2. 0 \in T
  <2>1. 1 \in 1..(0 + 1) /\ s[1] \in Nat /\ \A j \in 1..(0 + 1) : j = 1
    BY <1>1
  <2>2. \A j \in 1..(0 + 1) : s[j] <= s[1]
    BY <2>1
  <2> QED
    BY <2>1, <2>2
<1>3. ASSUME NEW k \in Nat, k \in T
      PROVE  k + 1 \in T
  <2> SUFFICES ASSUME k + 2 <= n
               PROVE  \E m \in 1..(k + 2) : \A j \in 1..(k + 2) : s[j] <= s[m]
    OBVIOUS
  <2>1. PICK m \in 1..(k + 1) : \A j \in 1..(k + 1) : s[j] <= s[m]
    BY <1>1, <1>3
  <2>2. s[m] \in Nat /\ s[k + 2] \in Nat /\ \A j \in 1..(k + 2) : s[j] \in Nat
    BY <1>1
  <2>3. CASE s[k + 2] <= s[m]
    BY <1>1, <2>1, <2>3
  <2>4. CASE s[m] <= s[k + 2]
    <3>1. \A j \in 1..(k + 2) : s[j] <= s[k + 2]
      BY <2>1, <2>2, <2>4
    <3> QED
      BY <3>1
  <2> QED
    BY <2>2, <2>3, <2>4
<1> DEFINE last == n - 1
<1>4. last \in T /\ last + 1 = n
  <2>1. Nat \subseteq T
    <3> HIDE DEF T
    <3> QED
      BY <1>2, <1>3, SetOfNat
  <2>2. last \in Nat /\ last + 1 = n
    BY <1>1
  <2> QED
    BY <2>1, <2>2
<1> HIDE DEF last
<1>5. PICK m \in 1..n : \A j \in 1..n : s[j] <= s[m]
  <2>1. last + 1 <= n
    BY <1>1, <1>4
  <2>2. \E m \in 1..(last + 1) : \A j \in 1..(last + 1) : s[j] <= s[m]
    BY <1>4, <2>1
  <2> QED
    BY <1>4, <2>2
<1>6. ToSet(s) \in SUBSET Int /\ s[m] \in ToSet(s) /\ \A y \in ToSet(s) : y <= s[m]
  BY <1>1, <1>5 DEF ToSet
<1>7. Max(ToSet(s)) = s[m]
  BY <1>6, MaxIs
<1> QED
  BY <1>1, <1>5, <1>7 DEF n

LEMMA SumExists ==
    ASSUME NEW s \in Strings
    PROVE  \E g \in [0..Len(s) -> Nat] : SumsOf(s, g)
<1>1. s \in Seq(Nat)
  BY StringsSizes
<1>2. PICK g \in [0..Len(s) -> Nat] :
          /\ g[0] = 0
          /\ \A k \in 0..(Len(s) - 1) : g[k + 1] = g[k] + s[k + 1]
          /\ SizeSum(s) = g[Len(s)]
  BY <1>1, SizeSums DEF SizeSum
<1> QED
  BY <1>2 DEF SumsOf

\* No string is empty, so no division is by 0.
LEMMA SumPositive ==
    ASSUME NEW s \in Strings
    PROVE  SizeSum(s) \in Nat \ {0}
<1>1. PICK g \in [0..Len(s) -> Nat] : SumsOf(s, g)
  BY SumExists
<1>2. Len(s) \in Nat /\ Len(s) > 0 /\ s[Len(s)] \in Nat /\ s[Len(s)] > 0
  BY StringsSizes
<1> DEFINE k == Len(s) - 1
<1>3. k \in 0..(Len(s) - 1) /\ k \in 0..Len(s) /\ k + 1 = Len(s)
  BY <1>2
<1> HIDE DEF k
<1>4. g[k + 1] = g[k] + s[k + 1] /\ g[k] \in Nat
  BY <1>1, <1>3 DEF SumsOf
<1>5. g[Len(s)] \in Nat /\ g[Len(s)] > 0
  BY <1>2, <1>3, <1>4
<1> QED
  BY <1>1, <1>5 DEF SumsOf

\* What every step relies on.
LEMMA FileFacts ==
    ASSUME FileTypes
    PROVE  /\ generated_size_in_bytes \in Nat \ {0}
           /\ at_least \in Int
           /\ Len(generated_strings) \in Nat /\ Len(generated_strings) > 0
           /\ \A k \in 1..Len(generated_strings) :
                  generated_strings[k] \in Nat /\ generated_strings[k] > 0 /\ generated_strings[k] <= Longest
           /\ Longest \in Nat /\ Longest > 0
           /\ BlockSize \in Nat \ {0}
<1>1. generated_strings \in Strings /\ required_size_in_bytes \in Int
  BY DEF FileTypes
<1>2. generated_size_in_bytes \in Nat \ {0}
  BY <1>1, SumPositive DEF generated_size_in_bytes
<1>3. at_least \in Int
  BY <1>1, <1>2, QuotientBounds DEF at_least
<1>4. Len(generated_strings) \in Nat /\ Len(generated_strings) > 0
      /\ \A k \in 1..Len(generated_strings) : generated_strings[k] \in Nat /\ generated_strings[k] > 0
  BY <1>1, StringsSizes
<1>5. Longest \in Nat /\ \A k \in 1..Len(generated_strings) : generated_strings[k] <= Longest
  BY <1>1, LongestBounds DEF Longest
<1>6. 1 \in 1..Len(generated_strings)
  BY <1>4
<1>7. Longest > 0
  BY <1>4, <1>5, <1>6
<1> QED
  BY <1>2, <1>3, <1>4, <1>5, <1>7, FileAssumption

\* The strings, the sum and the number of copies do not change on the way.
LEMMA SameStrings ==
    ASSUME UNCHANGED generated_strings
    PROVE  /\ generated_size_in_bytes' = generated_size_in_bytes
           /\ Longest' = Longest
           /\ UNCHANGED required_size_in_bytes => at_least' = at_least
  BY DEF generated_size_in_bytes, Longest, at_least

LEMMA SumPositiveAfter ==
    ASSUME FileTypes'
    PROVE  generated_size_in_bytes' \in Nat \ {0}
<1>1. generated_strings' \in Strings
  BY DEF FileTypes
<1> QED
  BY <1>1, SumPositive DEF generated_size_in_bytes

LEMMA FileInitKeeps == FileInit => FileInv
<1> SUFFICES ASSUME FileInit PROVE FileInv
  OBVIOUS
<1>1. FileTypes
  BY FileAssumption DEF FileInit, FileTypes
<1> QED
  BY <1>1 DEF FileInit, FileInv

LEMMA RequireKeeps == FileInv /\ Require => FileInv'
<1> SUFFICES ASSUME FileInv, Require PROVE FileInv'
  OBVIOUS
<1>1. size_in_mb * Mega \in Int
  BY FileAssumption DEF FileInv, FileTypes
<1>2. required_size_in_bytes' \in Int /\ required_size_in_bytes' = Wrapped(size_in_mb * Mega)
  BY <1>1, WrappedInts DEF Require
<1>3. FileTypes'
  BY <1>2 DEF FileInv, FileTypes, Require
<1>4. CopiesInv'
  <2>1. i' = 0 /\ file' = 0
    BY DEF FileInv, Require
  <2>2. generated_size_in_bytes' \in Nat
    BY <1>3, SumPositiveAfter
  <2>3. \A x \in Nat : 0 * x = 0
    OBVIOUS
  <2> QED
    BY <2>1, <2>2, <2>3 DEF CopiesInv
<1>5. pc' = "copies" /\ size_in_mb' = size_in_mb
  BY DEF Require
<1> QED
  BY <1>2, <1>3, <1>4, <1>5 DEF FileInv

LEMMA WriteCopyKeeps == FileInv /\ WriteCopy => FileInv'
<1> SUFFICES ASSUME FileInv, WriteCopy PROVE FileInv'
  OBVIOUS
<1> DEFINE sum == generated_size_in_bytes
           copies == at_least
<1>1. sum \in Nat \ {0} /\ copies \in Int /\ i \in Nat /\ file \in Nat
  BY FileFacts DEF FileInv, FileTypes
<1>2. sum' = sum /\ copies' = copies
  BY SameStrings DEF WriteCopy
<1>3. file = i * sum /\ i < copies /\ file' = file + sum /\ i' = i + 1
  BY DEF FileInv, CopiesInv, WriteCopy
<1>4. FileTypes'
  BY <1>1, <1>3 DEF FileInv, FileTypes, WriteCopy
<1>5. file' = i' * sum' /\ i' <= copies'
  <2> HIDE DEF sum, copies
  <2> QED
    BY <1>1, <1>2, <1>3
<1>6. CopiesInv'
  BY <1>5 DEF CopiesInv
<1>7. pc' = "copies" /\ size_in_mb' = size_in_mb /\ required_size_in_bytes' = Wrapped(size_in_mb * Mega)
  BY DEF FileInv, WriteCopy
<1> QED
  BY <1>4, <1>6, <1>7 DEF FileInv

LEMMA CopiesWrittenKeeps == FileInv /\ CopiesWritten => FileInv'
<1> SUFFICES ASSUME FileInv, CopiesWritten PROVE FileInv'
  OBVIOUS
<1> DEFINE sum == generated_size_in_bytes
           copies == at_least
           req == required_size_in_bytes
           longest == Longest
<1>1. /\ sum \in Nat \ {0} /\ copies \in Int /\ i \in Nat /\ file \in Nat /\ req \in Int
      /\ longest \in Nat /\ longest > 0
      /\ Len(generated_strings) \in Nat
  BY FileFacts DEF FileInv, FileTypes
<1>2. sum' = sum /\ copies' = copies /\ longest' = longest /\ req' = req
  BY SameStrings DEF CopiesWritten
<1>3. /\ file = i * sum /\ (i = 0 \/ i <= copies) /\ i >= copies
      /\ total_size' = copies * sum /\ left' = req - total_size' /\ i' = 1 /\ file' = file
  BY DEF FileInv, CopiesInv, CopiesWritten
<1>4. copies * sum \in Int
  BY <1>1
<1>5. FileTypes'
  BY <1>1, <1>3, <1>4 DEF FileInv, FileTypes, CopiesWritten
<1>6. /\ req >= 0 => copies >= 0 /\ copies * sum <= req
      /\ req <= 0 => copies <= 0 /\ req <= copies * sum /\ copies * sum <= 0
  <2>1. copies = Quotient(req, sum)
    BY DEF at_least
  <2> HIDE DEF copies, req, sum
  <2> QED
    BY <1>1, <2>1, QuotientBounds
<1>7. /\ req >= 0 => i = copies /\ file' = total_size'
      /\ req < 0 => i = 0 /\ file' = 0 /\ total_size' \in req..0
      /\ req = 0 => total_size' = 0
      /\ req > 0 => total_size' <= req + longest - 1
  <2> HIDE DEF copies, req, sum, longest
  <2>1. req >= 0 => i = copies
    BY <1>1, <1>3, <1>6
  <2>2. req < 0 => i = 0
    BY <1>1, <1>3, <1>6
  <2>3. i = 0 => i * sum = 0
    BY <1>1
  <2>4. req = 0 => total_size' = 0
    BY <1>1, <1>3, <1>4, <1>6
  <2> QED
    BY <1>1, <1>3, <1>4, <1>6, <2>1, <2>2, <2>3, <2>4
<1>8. \E g \in [0..Len(generated_strings) -> Nat] :
          SumsOf(generated_strings, g) /\ total_size' = copies * sum + g[1 - 1]
  <2>1. PICK g \in [0..Len(generated_strings) -> Nat] : SumsOf(generated_strings, g)
    BY SumExists DEF FileInv, FileTypes
  <2>2. g[0] = 0 /\ 1 - 1 = 0
    BY <2>1 DEF SumsOf
  <2>3. total_size' = copies * sum + g[1 - 1]
    <3> HIDE DEF copies, sum
    <3> QED
      BY <1>3, <1>4, <2>2, SMT
  <2> QED
    BY <2>1, <2>3
<1>9. generated_strings' = generated_strings
  BY DEF CopiesWritten
<1>10. RestInv'
  BY <1>1, <1>2, <1>3, <1>7, <1>8, <1>9 DEF RestInv
<1>11. pc' = "rest" /\ size_in_mb' = size_in_mb /\ required_size_in_bytes' = Wrapped(size_in_mb * Mega)
  BY DEF FileInv, CopiesWritten
<1> QED
  BY <1>5, <1>10, <1>11 DEF FileInv

\* Nothing is written when nothing is asked for.
LEMMA WriteStringKeeps == FileInv /\ WriteString => FileInv'
<1> SUFFICES ASSUME FileInv, WriteString PROVE FileInv'
  OBVIOUS
<1> DEFINE sum == generated_size_in_bytes
           copies == at_least
           req == required_size_in_bytes
           longest == Longest
           size == generated_strings[i]
           n == Len(generated_strings)
<1>1. /\ copies * sum \in Int /\ req \in Int /\ total_size \in Int /\ left \in Int /\ file \in Nat
      /\ i \in 1..n /\ size \in Nat /\ size <= longest /\ longest \in Nat /\ n \in Nat
  <2>1. i \in 1..n /\ n \in Nat
    BY FileFacts DEF FileInv, FileTypes, RestInv, WriteString
  <2>2. sum \in Nat /\ copies \in Int
    BY FileFacts DEF FileInv
  <2>3. copies * sum \in Int
    <3> HIDE DEF copies, sum
    <3> QED
      BY <2>2
  <2> QED
    BY <2>1, <2>3, FileFacts DEF FileInv, FileTypes
<1>2. sum' = sum /\ copies' = copies /\ longest' = longest /\ req' = req /\ n' = n
  BY SameStrings DEF WriteString
<1>3. /\ left = req - total_size
      /\ req >= 0 => file = total_size
      /\ req < 0 => file = 0 /\ total_size \in req..0
      /\ req = 0 => total_size = 0
      /\ req > 0 => total_size <= req + longest - 1
  BY DEF FileInv, RestInv, WriteString
<1>4. PICK g \in [0..n -> Nat] : SumsOf(generated_strings, g) /\ total_size = copies * sum + g[i - 1]
  BY DEF FileInv, RestInv, WriteString
<1>5. left > 0 /\ file' = file + size /\ left' = left - size /\ total_size' = total_size + size /\ i' = i + 1
  BY DEF WriteString
<1>6. FileTypes'
  <2>1. file' \in Nat /\ left' \in Int /\ total_size' \in Int /\ i' \in Nat
    <3> HIDE DEF size, n
    <3> QED
      BY <1>1, <1>5
  <2>2. /\ generated_strings' \in Strings
        /\ size_in_mb' \in Requests
        /\ required_size_in_bytes' \in Int
        /\ pc' \in {"main", "failed", "copies", "rest", "padding", "done"}
    BY DEF FileInv, FileTypes, WriteString
  <2> QED
    BY <2>1, <2>2 DEF FileTypes
<1>7. total_size' = copies * sum + g[i' - 1]
  <2>1. i - 1 \in 0..(n - 1) /\ i - 1 \in 0..n /\ (i - 1) + 1 = i /\ i' - 1 = i
    BY <1>1, <1>5
  <2>2. g[(i - 1) + 1] = g[i - 1] + generated_strings[(i - 1) + 1] /\ g[i - 1] \in Nat
    BY <1>4, <2>1 DEF SumsOf
  <2>3. g[i] = g[i - 1] + size
    BY <2>1, <2>2
  <2> DEFINE written == copies * sum
  <2>4. written \in Int /\ total_size = written + g[i - 1]
    BY <1>1, <1>4
  <2> HIDE DEF written, size
  <2>5. total_size' = written + g[i]
    BY <1>1, <1>5, <2>2, <2>3, <2>4
  <2> QED
    BY <2>1, <2>5 DEF written
<1>8. /\ req > 0
      /\ left' = req - total_size'
      /\ file' = total_size'
      /\ total_size' <= req + longest - 1
      /\ i' \in 1..(n + 1)
  <2> HIDE DEF req, longest, size, n
  <2> QED
    BY <1>1, <1>3, <1>5
<1>9. \E h \in [0..n -> Nat] : SumsOf(generated_strings, h) /\ total_size' = copies * sum + h[i' - 1]
  BY <1>4, <1>7
<1>10. generated_strings' = generated_strings
  BY DEF WriteString
<1>11. RestInv'
  <2>1. req > 0 => ~ (req < 0) /\ ~ (req = 0)
    BY <1>1
  <2> QED
    BY <1>2, <1>8, <1>9, <1>10, <2>1 DEF RestInv
<1>12. pc' = "rest" /\ size_in_mb' = size_in_mb /\ required_size_in_bytes' = Wrapped(size_in_mb * Mega)
  BY DEF FileInv, WriteString
<1> QED
  BY <1>6, <1>11, <1>12 DEF FileInv

\* The strings together are longer than what the copies left.
LEMMA RestWrittenKeeps == FileInv /\ RestWritten => FileInv'
<1> SUFFICES ASSUME FileInv, RestWritten PROVE FileInv'
  OBVIOUS
<1> DEFINE sum == generated_size_in_bytes
           copies == at_least
           req == required_size_in_bytes
           longest == Longest
           n == Len(generated_strings)
<1>1. /\ sum \in Nat \ {0} /\ copies \in Int /\ req \in Int /\ total_size \in Int /\ left \in Int
      /\ file \in Nat /\ i \in Nat /\ longest \in Nat /\ n \in Nat
  BY FileFacts DEF FileInv, FileTypes
<1>2. longest' = longest /\ req' = req /\ left' = left /\ total_size' = total_size /\ file' = file
  BY SameStrings DEF RestWritten
<1>3. /\ left = req - total_size
      /\ req >= 0 => file = total_size
      /\ req < 0 => file = 0 /\ total_size \in req..0
      /\ req = 0 => total_size = 0
      /\ req > 0 => total_size <= req + longest - 1
      /\ i \in 1..(n + 1)
  BY DEF FileInv, RestInv, RestWritten
<1>4. PICK g \in [0..n -> Nat] : SumsOf(generated_strings, g) /\ total_size = copies * sum + g[i - 1]
  BY DEF FileInv, RestInv, RestWritten
<1>5. left <= 0
  <2>1. CASE i > n /\ req >= 0
    <3>1. i - 1 = n
      BY <1>1, <1>3, <2>1
    <3>2. g[i - 1] = sum
      BY <1>4, <3>1 DEF SumsOf, generated_size_in_bytes
    <3>3. req < copies * sum + sum /\ copies * sum \in Int
      <4>1. copies = Quotient(req, sum)
        BY DEF at_least
      <4> HIDE DEF copies, sum, req
      <4> QED
        BY <1>1, <2>1, <4>1, QuotientBounds
    <3>4. total_size = copies * sum + sum
      BY <1>4, <3>2
    <3> HIDE DEF copies, sum, req
    <3> QED
      BY <1>1, <1>3, <3>3, <3>4
  <2>2. CASE req < 0
    <3> HIDE DEF req
    <3> QED
      BY <1>1, <1>3, <2>2
  <2>3. CASE left <= 0
    BY <2>3
  <2> QED
    BY <1>1, <2>1, <2>2, <2>3 DEF RestWritten
<1>6. FileTypes'
  BY DEF FileInv, FileTypes, RestWritten
<1>7. /\ Start' = total_size /\ total_size \in Int
      /\ req = 0 => total_size = 0
      /\ req > 0 => total_size \in req..(req + longest - 1)
      /\ req < 0 => file = total_size - total_size
  <2>1. Start' = req - left
    BY <1>2 DEF Start
  <2> HIDE DEF req, longest
  <2> QED
    BY <1>1, <1>3, <1>5, <2>1
<1>8. PaddingInv'
  <2>1. \A m \in total_size..(total_size - 1) : FALSE
    BY <1>7
  <2> QED
    BY <1>1, <1>2, <1>3, <1>7, <2>1 DEF PaddingInv
<1>9. pc' = "padding" /\ size_in_mb' = size_in_mb /\ required_size_in_bytes' = Wrapped(size_in_mb * Mega)
  BY DEF FileInv, RestWritten
<1> QED
  BY <1>6, <1>8, <1>9 DEF FileInv

LEMMA WriteDashKeeps == FileInv /\ WriteDash => FileInv'
<1> SUFFICES ASSUME FileInv, WriteDash PROVE FileInv'
  OBVIOUS
<1>1. /\ required_size_in_bytes \in Int /\ left \in Int /\ total_size \in Int /\ file \in Nat
      /\ Start \in Int
  BY DEF FileInv, FileTypes, Start
<1>2. /\ Longest' = Longest /\ required_size_in_bytes' = required_size_in_bytes /\ Start' = Start
      /\ file' = file + 1 /\ total_size' = total_size + 1
      /\ Remainder(total_size, BlockSize) # 0
  BY SameStrings DEF WriteDash, Start
<1>3. FileTypes'
  BY <1>1, <1>2 DEF FileInv, FileTypes, WriteDash
<1>4. PaddingInv
  BY DEF FileInv, WriteDash
<1>5. \A m \in Start..(total_size' - 1) : Remainder(m, BlockSize) # 0
  <2> SUFFICES ASSUME NEW m \in Start..(total_size' - 1) PROVE Remainder(m, BlockSize) # 0
    OBVIOUS
  <2>1. m \in Start..(total_size - 1) \/ m = total_size
    BY <1>1, <1>2
  <2> QED
    BY <1>2, <1>4, <2>1 DEF PaddingInv
<1>6. PaddingInv'
  BY <1>1, <1>2, <1>4, <1>5 DEF PaddingInv
<1>7. pc' = "padding" /\ size_in_mb' = size_in_mb /\ required_size_in_bytes' = Wrapped(size_in_mb * Mega)
  BY DEF FileInv, WriteDash
<1> QED
  BY <1>3, <1>6, <1>7 DEF FileInv

\* The steps that change nothing but pc.
LEMMA OtherStepKeeps == FileInv /\ (Usage \/ Close \/ UNCHANGED fileVars) => FileInv'
<1> SUFFICES ASSUME FileInv, Usage \/ Close \/ UNCHANGED fileVars PROVE FileInv'
  OBVIOUS
<1>1. UNCHANGED <<generated_strings, size_in_mb, required_size_in_bytes, i, total_size, left, file>>
  BY DEF Usage, Close, fileVars
<1>2. /\ pc' = "failed" \/ pc' = pc \/ pc' = "done"
      /\ pc' = "done" /\ pc # "done" => pc = "padding" /\ Remainder(total_size, BlockSize) = 0
  BY DEF Usage, Close, fileVars
<1>3. /\ Longest' = Longest /\ at_least' = at_least /\ Start' = Start
      /\ generated_size_in_bytes' = generated_size_in_bytes
  BY <1>1, SameStrings DEF Start
<1>4. FileTypes'
  BY <1>1, <1>2 DEF FileInv, FileTypes
<1>5. /\ CopiesInv => CopiesInv'
      /\ RestInv => RestInv'
      /\ PaddingInv => PaddingInv'
  BY <1>1, <1>3 DEF CopiesInv, RestInv, PaddingInv
<1>6. CASE pc' = pc
  BY <1>1, <1>4, <1>5, <1>6 DEF FileInv
<1>7. CASE pc' = "failed"
  BY <1>1, <1>4, <1>7 DEF FileInv
<1>8. CASE pc' = "done" /\ pc # "done"
  BY <1>1, <1>2, <1>4, <1>5, <1>8 DEF FileInv
<1> QED
  BY <1>2, <1>6, <1>7, <1>8

LEMMA FileStep == FileInv /\ [FileNext]_fileVars => FileInv'
  BY RequireKeeps, WriteCopyKeeps, CopiesWrittenKeeps, WriteStringKeeps, RestWrittenKeeps,
     WriteDashKeeps, OtherStepKeeps DEF FileNext, FileExited

THEOREM FileInvariant == FileSpec => []FileInv
<1> QED
  BY FileInitKeeps, FileStep, PTL DEF FileSpec

\* The number of dashes.
LEMMA FewDashes ==
    ASSUME FileInv, pc = "done"
    PROVE  total_size \in Start..(Start + BlockSize - 1)
<1>1. Start \in Int /\ total_size \in Int /\ BlockSize \in Nat \ {0}
  BY FileAssumption DEF FileInv, FileTypes, Start
<1>2. PaddingInv
  BY DEF FileInv
<1>3. PICK m \in Start..(Start + BlockSize - 1) : Remainder(m, BlockSize) = 0
  BY <1>1, MultipleAhead
<1>4. m \notin Start..(total_size - 1) /\ Start <= total_size
  BY <1>2, <1>3 DEF PaddingInv
<1> QED
  BY <1>1, <1>3, <1>4

\* The generator writes whole blocks: what the benchmark takes for granted of
\* its input holds for every list of strings, width of int and block size.
THEOREM GeneratorFileIsBlocks == FileSpec => []FileIsBlocks
<1>1. FileInv => FileIsBlocks
  <2> SUFFICES ASSUME FileInv, pc = "done", required_size_in_bytes >= 0
               PROVE  file % BlockSize = 0
    BY DEF FileIsBlocks
  <2>1. file = total_size /\ file \in Nat /\ Remainder(total_size, BlockSize) = 0
    BY DEF FileInv, FileTypes, PaddingInv
  <2> QED
    BY <2>1, FileAssumption, RemainderIsMod
<1> QED
  BY <1>1, FileInvariant, PTL

\* A request is met and exceeded by less than a string and a block; a negative
\* one leaves less than a block.
THEOREM GeneratorFileAnswersRequest == FileSpec => []FileAnswersRequest
<1>1. FileInv => FileAnswersRequest
  <2> DEFINE request == size_in_mb * Mega
             longest == Longest
  <2> SUFFICES ASSUME FileInv, pc = "done", request \in Ints
               PROVE  IF request > 0
                      THEN file \in request..(request + longest - 1 + BlockSize - 1)
                      ELSE file < BlockSize
    BY DEF FileAnswersRequest, Longest
  <2>1. request \in Int
    BY FileAssumption DEF FileInv, FileTypes
  <2>2. required_size_in_bytes = request
    <3>1. required_size_in_bytes = Wrapped(request)
      BY DEF FileInv
    <3> HIDE DEF request
    <3> QED
      BY <2>1, <3>1, WrappedInts
  <2>3. /\ Start \in Int /\ total_size \in Int /\ BlockSize \in Nat \ {0} /\ file \in Nat
        /\ longest \in Nat
    BY FileFacts DEF FileInv, FileTypes, Start
  <2>4. total_size \in Start..(Start + BlockSize - 1)
    BY FewDashes
  <2>5. /\ request >= 0 => file = total_size
        /\ request < 0 => file = total_size - Start
        /\ request = 0 => Start = 0
        /\ request > 0 => Start \in request..(request + longest - 1)
    BY <2>2 DEF FileInv, PaddingInv
  <2> HIDE DEF request, longest
  <2> QED
    BY <2>1, <2>3, <2>4, <2>5
<1> QED
  BY <1>1, FileInvariant, PTL

(***************************************************************************)
(* The strings that are put together.                                      *)
(***************************************************************************)
Chars == {"a", "b", "z", "0", "_"}
Lists == {always_matching_pattern, randomly_matching_pattern, never_matching_pattern}

\* The characters input at of a list may push.
Of(list, at) == UNION {list[at].ranges[index] : index \in 1..Len(list[at].ranges)}

LEMMA RangesOf ==
    ASSUME NEW list, NEW at
    PROVE  /\ Len(list[at].ranges) = 1 => Of(list, at) = list[at].ranges[1]
           /\ Len(list[at].ranges) = 2 =>
                  Of(list, at) = list[at].ranges[1] \cup list[at].ranges[2]
<1>1. Len(list[at].ranges) = 1 => 1..Len(list[at].ranges) = {1}
  OBVIOUS
<1>2. Len(list[at].ranges) = 2 => 1..Len(list[at].ranges) = {1, 2}
  OBVIOUS
<1> DEFINE of == Of(list, at)
<1>3. of = UNION {list[at].ranges[index] : index \in 1..Len(list[at].ranges)}
  BY DEF Of
<1> HIDE DEF of
<1>4. Len(list[at].ranges) = 1 => of = list[at].ranges[1]
  BY <1>1, <1>3
<1>5. Len(list[at].ranges) = 2 => of = list[at].ranges[1] \cup list[at].ranges[2]
  BY <1>2, <1>3
<1> QED
  BY <1>4, <1>5 DEF of

\* The shape the three lists have in common.
Inputs(list, one, two, four, five) ==
    /\ Len(list) = 6
    /\ list[1] = Sometimes(<<one, {"b"}>>) /\ list[2] = Once(<<two>>)
    /\ list[3] = Digits /\ list[4] = Once(<<four>>)
    /\ list[5] = Sometimes(<<five, {"b"}>>) /\ list[6] = Sometimes(<<{"_"}>>)

LEMMA InputFacts ==
    ASSUME NEW list, NEW one, NEW two, NEW four, NEW five, Inputs(list, one, two, four, five)
    PROVE  /\ Of(list, 1) = one \cup {"b"} /\ Of(list, 2) = two /\ Of(list, 3) = {"0"}
           /\ Of(list, 4) = four /\ Of(list, 5) = five \cup {"b"} /\ Of(list, 6) = {"_"}
           /\ \A at \in {1, 2, 4, 5, 6} : ~ list[at].star
           /\ list[3].star
           /\ \A at \in {1, 5, 6} : list[at].random
           /\ \A at \in {2, 3, 4} : ~ list[at].random
<1>1. \A ranges : /\ Sometimes(ranges).ranges = ranges
                  /\ ~ Sometimes(ranges).star /\ Sometimes(ranges).random
  BY DEF Sometimes
<1>2. \A ranges : Once(ranges).ranges = ranges /\ ~ Once(ranges).star /\ ~ Once(ranges).random
  BY DEF Once
<1>3. Digits.ranges = <<{"0"}>> /\ Digits.star /\ ~ Digits.random
  BY DEF Digits
<1>4. /\ list[1] = Sometimes(<<one, {"b"}>>) /\ list[2] = Once(<<two>>)
      /\ list[3] = Digits /\ list[4] = Once(<<four>>)
      /\ list[5] = Sometimes(<<five, {"b"}>>) /\ list[6] = Sometimes(<<{"_"}>>)
  BY DEF Inputs
<1>5. /\ list[1].ranges = <<one, {"b"}>> /\ list[2].ranges = <<two>>
      /\ list[3].ranges = <<{"0"}>> /\ list[4].ranges = <<four>>
      /\ list[5].ranges = <<five, {"b"}>> /\ list[6].ranges = <<{"_"}>>
  BY <1>1, <1>2, <1>3, <1>4
<1>6. ASSUME NEW at, NEW range, list[at].ranges = <<range>>
      PROVE  Of(list, at) = range
  <2>1. Len(list[at].ranges) = 1 /\ list[at].ranges[1] = range
    BY <1>6
  <2> QED
    BY <2>1, RangesOf
<1>7. ASSUME NEW at, NEW range, NEW other, list[at].ranges = <<range, other>>
      PROVE  Of(list, at) = range \cup other
  <2>1. /\ Len(list[at].ranges) = 2
        /\ list[at].ranges[1] = range /\ list[at].ranges[2] = other
    BY <1>7
  <2>2. Of(list, at) = list[at].ranges[1] \cup list[at].ranges[2]
    BY <2>1, RangesOf
  <2> QED
    BY <2>1, <2>2
<1>10. Of(list, 1) = one \cup {"b"} /\ Of(list, 5) = five \cup {"b"}
  <2> DEFINE b == {"b"}
  <2>1. list[1].ranges = <<one, b>> /\ list[5].ranges = <<five, b>>
    BY <1>5
  <2> HIDE DEF b
  <2>2. Of(list, 1) = one \cup b
    BY <1>7, <2>1
  <2>3. Of(list, 5) = five \cup b
    BY <1>7, <2>1
  <2> QED
    BY <2>2, <2>3 DEF b
<1>11. Of(list, 2) = two /\ Of(list, 3) = {"0"} /\ Of(list, 4) = four /\ Of(list, 6) = {"_"}
  BY <1>5, <1>6, Zenon
<1>8. /\ ~ list[1].star /\ ~ list[2].star /\ list[3].star
      /\ ~ list[4].star /\ ~ list[5].star /\ ~ list[6].star
  BY <1>1, <1>2, <1>3, <1>4
<1>9. /\ list[1].random /\ ~ list[2].random /\ ~ list[3].random
      /\ ~ list[4].random /\ list[5].random /\ list[6].random
  BY <1>1, <1>2, <1>3, <1>4
<1> QED
  BY <1>8, <1>9, <1>10, <1>11

LEMMA ListInputs ==
    /\ Inputs(always_matching_pattern, {"a", "b", "z"}, {"a"}, {"z"}, {"a", "b", "z"})
    /\ Inputs(randomly_matching_pattern, {"a", "b", "z"}, {"a", "b"}, {"b", "z"},
              {"a", "b", "z"})
    /\ Inputs(never_matching_pattern, {"b", "z"}, {"b"}, {"b"}, {"a", "b"})
<1>1. Inputs(always_matching_pattern, {"a", "b", "z"}, {"a"}, {"z"}, {"a", "b", "z"})
  BY DEF Inputs, always_matching_pattern
<1>2. Inputs(randomly_matching_pattern, {"a", "b", "z"}, {"a", "b"}, {"b", "z"}, {"a", "b", "z"})
  BY DEF Inputs, randomly_matching_pattern
<1>3. Inputs(never_matching_pattern, {"b", "z"}, {"b"}, {"b"}, {"a", "b"})
  BY DEF Inputs, never_matching_pattern
<1> QED
  BY <1>1, <1>2, <1>3

LEMMA ListFacts ==
    ASSUME NEW list \in Lists
    PROVE  /\ Len(list) = 6
           /\ \A at \in 1..6 : /\ list[at].star <=> at = 3
                               /\ list[at].random <=> at \in {1, 5, 6}
                               /\ Of(list, at) \subseteq Chars
           /\ Of(list, 3) = {"0"} /\ Of(list, 6) = {"_"}
           /\ \A at \in {1, 2, 4, 5} : Of(list, at) \subseteq {"a", "b", "z"}
           /\ list = always_matching_pattern => Of(list, 2) = {"a"} /\ Of(list, 4) = {"z"}
           /\ list = never_matching_pattern =>
                  "a" \notin Of(list, 1) /\ Of(list, 2) = {"b"} /\ Of(list, 4) = {"b"}
<1>1. PICK one \in SUBSET {"a", "b", "z"}, two \in SUBSET {"a", "b", "z"},
           four \in SUBSET {"a", "b", "z"}, five \in SUBSET {"a", "b", "z"} :
           Inputs(list, one, two, four, five)
  <2>1. /\ {"a", "b", "z"} \in SUBSET {"a", "b", "z"} /\ {"b", "z"} \in SUBSET {"a", "b", "z"}
        /\ {"a", "b"} \in SUBSET {"a", "b", "z"} /\ {"a"} \in SUBSET {"a", "b", "z"}
        /\ {"b"} \in SUBSET {"a", "b", "z"} /\ {"z"} \in SUBSET {"a", "b", "z"}
    OBVIOUS
  <2> QED
    BY <2>1, ListInputs DEF Lists
<1>2. /\ Of(list, 1) = one \cup {"b"} /\ Of(list, 2) = two /\ Of(list, 3) = {"0"}
      /\ Of(list, 4) = four /\ Of(list, 5) = five \cup {"b"} /\ Of(list, 6) = {"_"}
      /\ \A at \in {1, 2, 4, 5, 6} : ~ list[at].star
      /\ list[3].star
      /\ \A at \in {1, 5, 6} : list[at].random
      /\ \A at \in {2, 3, 4} : ~ list[at].random
  BY <1>1, InputFacts
<1>3. Len(list) = 6
  BY <1>1 DEF Inputs
<1>4. \A at \in {1, 2, 4, 5} : Of(list, at) \subseteq {"a", "b", "z"}
  BY <1>2
<1>5. \A at \in 1..6 : at \in {1, 2, 3, 4, 5, 6}
  OBVIOUS
<1>6. \A at \in 1..6 : Of(list, at) \subseteq Chars
  BY <1>2, <1>4, <1>5 DEF Chars
<1>7. \A at \in 1..6 : (list[at].star <=> at = 3) /\ (list[at].random <=> at \in {1, 5, 6})
  BY <1>2, <1>5
<1>8. Of(always_matching_pattern, 2) = {"a"} /\ Of(always_matching_pattern, 4) = {"z"}
  <2> DEFINE letters == {"a", "b", "z"}
             a == {"a"}
             z == {"z"}
  <2>1. Inputs(always_matching_pattern, letters, a, z, letters)
    BY ListInputs
  <2> HIDE DEF letters, a, z
  <2>2. Of(always_matching_pattern, 2) = a /\ Of(always_matching_pattern, 4) = z
    BY <2>1, InputFacts
  <2> QED
    BY <2>2 DEF a, z
<1>9. /\ Of(never_matching_pattern, 1) = {"b", "z"} \cup {"b"}
      /\ Of(never_matching_pattern, 2) = {"b"} /\ Of(never_matching_pattern, 4) = {"b"}
  <2> DEFINE first == {"b", "z"}
             b == {"b"}
             last == {"a", "b"}
  <2>1. Inputs(never_matching_pattern, first, b, b, last)
    BY ListInputs
  <2> HIDE DEF first, b, last
  <2>2. /\ Of(never_matching_pattern, 1) = first \cup {"b"}
        /\ Of(never_matching_pattern, 2) = b /\ Of(never_matching_pattern, 4) = b
    BY <2>1, InputFacts
  <2> QED
    BY <2>2 DEF first, b
<1>10. "a" \notin {"b", "z"} \cup {"b"}
  OBVIOUS
<1>11. list = always_matching_pattern => Of(list, 2) = {"a"} /\ Of(list, 4) = {"z"}
  BY <1>8
<1>12. list = never_matching_pattern =>
           "a" \notin Of(list, 1) /\ Of(list, 2) = {"b"} /\ Of(list, 4) = {"b"}
  BY <1>9, <1>10
<1> QED
  BY <1>2, <1>3, <1>4, <1>6, <1>7, <1>11, <1>12

\* What generate has put together: an optional letter and the first character
\* of the match at c, digits, and the last character of the match at d.
Opened(list, s, c) ==
    /\ c \in 1..2 /\ c <= Len(s) /\ s[c] \in Of(list, 2)
    /\ \A p \in 1..(c - 1) : s[p] \in Of(list, 1)
Zeros(s, c, d) == \A p \in (c + 1)..(d - 1) : s[p] = "0"
Closed(list, s, c, d) ==
    /\ Opened(list, s, c) /\ Zeros(s, c, d)
    /\ c < d /\ d <= Len(s) /\ s[d] \in Of(list, 4)

\* After that, an optional letter and an optional "_".
Whole(list, s, c, d) ==
    /\ Closed(list, s, c, d) /\ Len(s) <= d + 2
    /\ \A p \in (d + 1)..Len(s) : s[p] \in Of(list, 5) \cup {"_"}
    /\ Len(s) = d + 2 => s[d + 2] = "_"
Finished(list, s) == \E c \in 1..2, d \in 1..Len(s) : Whole(list, s, c, d)

\* The string when the loop is at input at.
PutTogether(list, at, s) ==
    /\ at = 1 => s = <<>>
    /\ at = 2 => Len(s) <= 1 /\ \A p \in 1..Len(s) : s[p] \in Of(list, 1)
    /\ at = 3 => Opened(list, s, Len(s))
    /\ at = 4 => \E c \in 1..2 : Opened(list, s, c) /\ Zeros(s, c, Len(s) + 1)
    /\ at = 5 => \E c \in 1..2 : Closed(list, s, c, Len(s))
    /\ at = 6 => \E c \in 1..2, d \in 1..Len(s) :
                    /\ Closed(list, s, c, d) /\ Len(s) <= d + 1
                    /\ \A p \in (d + 1)..Len(s) : s[p] \in Of(list, 5)
    /\ at = 7 => Finished(list, s)

StringInv ==
    /\ generator_inputs \in Lists
    /\ next \in 1..7
    /\ generated \in Seq(Chars)
    /\ output \in Seq(Seq(Chars))
    /\ PutTogether(generator_inputs, next, generated)
    /\ \A k \in 1..Len(output) : Finished(generator_inputs, output[k])

\* An input of which one character, or one that is left out, is added.
LEMMA LeftOut ==
    ASSUME NEW list \in Lists, NEW at \in {1, 5, 6}, NEW s \in Seq(Chars), PutTogether(list, at, s)
    PROVE  PutTogether(list, at + 1, s)
<1>1. CASE at = 1
  BY <1>1 DEF PutTogether
<1>2. CASE at = 5
  <2>1. PICK c \in 1..2 : Closed(list, s, c, Len(s))
    BY <1>2 DEF PutTogether
  <2>2. Len(s) \in Nat /\ Len(s) \in 1..Len(s)
    BY <2>1 DEF Closed
  <2>3. Len(s) <= Len(s) + 1 /\ (Len(s) + 1)..Len(s) = {}
    BY <2>2
  <2> QED
    BY <1>2, <2>1, <2>2, <2>3 DEF PutTogether
<1>3. CASE at = 6
  <2>1. PICK c \in 1..2, d \in 1..Len(s) :
            /\ Closed(list, s, c, d) /\ Len(s) <= d + 1
            /\ \A p \in (d + 1)..Len(s) : s[p] \in Of(list, 5)
    BY <1>3 DEF PutTogether
  <2>2. Len(s) <= d + 2 /\ Len(s) # d + 2
    BY <2>1
  <2>3. Finished(list, s)
    BY <2>1, <2>2 DEF Finished, Whole
  <2> QED
    BY <1>3, <2>3 DEF PutTogether
<1> QED
  BY <1>1, <1>2, <1>3

LEMMA Pushed ==
    ASSUME NEW list \in Lists, NEW at \in 1..6, NEW s \in Seq(Chars), PutTogether(list, at, s),
           NEW count \in Nat, at # 3 => count = 1,
           NEW x \in [1..count -> Of(list, at)]
    PROVE  s \o x \in Seq(Chars) /\ PutTogether(list, at + 1, s \o x)
<1> DEFINE t == s \o x
<1>1. x \in Seq(Chars) /\ Len(x) = count /\ \A p \in 1..count : x[p] \in Of(list, at)
  <2>1. Of(list, at) \subseteq Chars
    BY ListFacts
  <2>2. x \in [1..count -> Chars] /\ \A p \in 1..count : x[p] \in Of(list, at)
    BY <2>1
  <2> QED
    BY <2>2
<1> DEFINE n == Len(s)
<1>2. n \in Nat /\ t \in Seq(Chars) /\ Len(t) = n + count /\ \A p \in 1..n : t[p] = s[p]
  BY <1>1
<1>3. \A p \in (n + 1)..(n + count) : t[p] \in Of(list, at)
  BY <1>1
<1> HIDE DEF t
<1>4. \A c \in 1..2 : Opened(list, s, c) => Opened(list, t, c)
  BY <1>2 DEF Opened
<1>5. \A c \in 1..2, d \in 1..n : Closed(list, s, c, d) => Closed(list, t, c, d)
  <2> SUFFICES ASSUME NEW c \in 1..2, NEW d \in 1..n, Closed(list, s, c, d)
               PROVE  Closed(list, t, c, d)
    OBVIOUS
  <2>1. /\ Opened(list, s, c) /\ c < d /\ d <= n /\ s[d] \in Of(list, 4)
        /\ \A p \in (c + 1)..(d - 1) : s[p] = "0"
    BY DEF Closed, Zeros
  <2> HIDE DEF n
  <2>2. \A p \in (c + 1)..(d - 1) : t[p] = "0"
    BY <1>2, <2>1
  <2>3. Opened(list, t, c) /\ d <= Len(t) /\ t[d] \in Of(list, 4)
    BY <1>2, <1>4, <2>1
  <2> QED
    BY <2>1, <2>2, <2>3 DEF Closed, Zeros
<1> HIDE DEF n
<1>6. CASE at = 1
  <2>1. n = 0
    BY <1>6 DEF PutTogether, n
  <2>2. Len(t) <= 1 /\ \A p \in 1..Len(t) : t[p] \in Of(list, 1)
    BY <1>2, <1>3, <1>6, <2>1
  <2>3. PutTogether(list, 2, t)
    BY <2>2 DEF PutTogether
  <2> QED
    BY <1>2, <1>6, <2>3 DEF t
<1>7. CASE at = 2
  <2>1. n <= 1 /\ \A p \in 1..n : s[p] \in Of(list, 1)
    BY <1>7 DEF PutTogether, n
  <2>2. Len(t) = n + 1 /\ Len(t) \in 1..2 /\ t[Len(t)] \in Of(list, 2)
    BY <1>2, <1>3, <1>7, <2>1
  <2>3. Opened(list, t, Len(t))
    BY <1>2, <2>1, <2>2 DEF Opened
  <2>4. PutTogether(list, 3, t)
    BY <2>3 DEF PutTogether
  <2> QED
    BY <1>2, <1>7, <2>4 DEF t
<1>8. CASE at = 3
  <2>1. Opened(list, s, n)
    BY <1>8 DEF PutTogether, n
  <2>2. n \in 1..2 /\ Opened(list, t, n)
    BY <1>4, <2>1 DEF Opened
  <2>3. \A p \in (n + 1)..Len(t) : t[p] = "0"
    <3>1. Of(list, at) = {"0"}
      BY <1>8, ListFacts
    <3>2. \A p \in (n + 1)..Len(t) : t[p] \in Of(list, at)
      BY <1>2, <1>3
    <3> QED
      BY <3>1, <3>2
  <2>4. Zeros(t, n, Len(t) + 1)
    BY <1>2, <2>3 DEF Zeros
  <2>5. PutTogether(list, 4, t)
    BY <2>2, <2>4 DEF PutTogether
  <2> QED
    BY <1>2, <1>8, <2>5 DEF t
<1>9. CASE at = 4
  <2>1. PICK c \in 1..2 : Opened(list, s, c) /\ Zeros(s, c, n + 1)
    BY <1>9 DEF PutTogether, n
  <2>2. Len(t) = n + 1 /\ t[n + 1] \in Of(list, 4)
    BY <1>2, <1>3, <1>9
  <2>3. c <= n /\ Opened(list, t, c)
    BY <1>4, <2>1 DEF Opened, n
  <2>4. \A p \in (c + 1)..n : t[p] = "0"
    BY <1>2, <2>1 DEF Zeros
  <2>5. Closed(list, t, c, Len(t))
    BY <1>2, <2>2, <2>3, <2>4 DEF Closed, Zeros
  <2>6. PutTogether(list, 5, t)
    BY <2>5 DEF PutTogether
  <2> QED
    BY <1>2, <1>9, <2>6 DEF t
<1>10. CASE at = 5
  <2>1. PICK c \in 1..2 : Closed(list, s, c, n)
    BY <1>10 DEF PutTogether, n
  <2>2. Len(t) = n + 1 /\ t[n + 1] \in Of(list, 5)
    BY <1>2, <1>3, <1>10
  <2>3. n \in 1..n /\ n \in 1..Len(t)
    BY <1>2, <2>1, <2>2 DEF Closed
  <2>4. Closed(list, t, c, n)
    BY <1>5, <2>1, <2>3
  <2>5. Len(t) <= n + 1 /\ \A p \in (n + 1)..Len(t) : t[p] \in Of(list, 5)
    BY <1>2, <2>2
  <2>6. PutTogether(list, 6, t)
    BY <2>3, <2>4, <2>5 DEF PutTogether
  <2> QED
    BY <1>2, <1>10, <2>6 DEF t
<1>11. CASE at = 6
  <2>1. Len(t) = n + 1 /\ n \in Nat
    BY <1>2, <1>11
  <2>9. t[n + 1] = "_"
    <3>1. Of(list, at) = {"_"}
      BY <1>11, ListFacts
    <3>2. t[n + 1] \in Of(list, at)
      BY <1>2, <1>3, <1>11
    <3> QED
      BY <3>1, <3>2
  <2>2. PICK c \in 1..2, d \in 1..n :
            /\ Closed(list, s, c, d) /\ n <= d + 1
            /\ \A p \in (d + 1)..n : s[p] \in Of(list, 5)
    BY <1>11 DEF PutTogether, n
  <2>3. Len(t) <= d + 2 /\ d \in 1..Len(t)
    BY <2>1, <2>2
  <2>4. Closed(list, t, c, d)
    BY <1>5, <2>2
  <2>5. \A p \in (d + 1)..Len(t) : t[p] \in Of(list, 5) \cup {"_"}
    <3>1. \A p \in (d + 1)..Len(t) : p = n + 1 \/ (p \in (d + 1)..n /\ p \in 1..n)
      BY <2>1
    <3> QED
      BY <1>2, <2>9, <2>2, <3>1
  <2>6. Len(t) = d + 2 => t[d + 2] = "_"
    BY <2>1, <2>9
  <2>7. Finished(list, t)
    BY <2>3, <2>4, <2>5, <2>6 DEF Finished, Whole
  <2>8. PutTogether(list, 7, t)
    BY <2>7 DEF PutTogether
  <2> QED
    BY <1>2, <1>11, <2>8 DEF t
<1> QED
  BY <1>6, <1>7, <1>8, <1>9, <1>10, <1>11

\* The loop starts with an empty string, and ends each string at the last input.
LEMMA StringsAtInit == Init => StringInv
<1> SUFFICES ASSUME Init PROVE StringInv
  OBVIOUS
<1>1. generator_inputs \in Lists /\ next = 1 /\ generated = <<>> /\ output = <<>>
  BY DEF Init, Lists
<1>2. generated \in Seq(Chars) /\ output \in Seq(Seq(Chars)) /\ Len(output) = 0
  BY <1>1
<1>3. PutTogether(generator_inputs, next, generated)
  BY <1>1 DEF PutTogether
<1> QED
  BY <1>1, <1>2, <1>3 DEF StringInv

LEMMA InputInRange ==
    ASSUME StringInv
    PROVE  /\ InString => next \in 1..6
           /\ next > Len(generator_inputs) => next = 7
<1>1. generator_inputs \in Lists /\ next \in 1..7
  BY DEF StringInv
<1>2. Len(generator_inputs) = 6
  BY <1>1, ListFacts
<1> QED
  BY <1>1, <1>2 DEF InString

LEMMA StringPushed ==
    ASSUME StringInv, InString, NEW count \in Nat, next # 3 => count = 1, Push(count)
    PROVE  StringInv'
<1>1. /\ generator_inputs \in Lists /\ next \in 1..6 /\ generated \in Seq(Chars)
      /\ PutTogether(generator_inputs, next, generated)
  BY InputInRange DEF StringInv
<1>2. PICK index \in 1..Len(Input.ranges) :
          \E characters \in [1..count -> Input.ranges[index]] :
              generated' = generated \o characters
  BY DEF Push
<1>3. PICK characters \in [1..count -> Input.ranges[index]] :
          generated' = generated \o characters
  BY <1>2
<1>4. Input.ranges[index] \subseteq Of(generator_inputs, next)
  BY DEF Of, Input
<1>5. characters \in [1..count -> Of(generator_inputs, next)]
  BY <1>4
<1>6. generated' \in Seq(Chars) /\ PutTogether(generator_inputs, next + 1, generated')
  BY <1>1, <1>3, <1>5, Pushed
<1>7. next' = next + 1 /\ UNCHANGED <<generator_inputs, output>>
  BY DEF Push
<1> QED
  BY <1>1, <1>6, <1>7 DEF StringInv

LEMMA StringsAtNext == StringInv /\ [Next]_vars => StringInv'
<1> SUFFICES ASSUME StringInv, [Next]_vars PROVE StringInv'
  OBVIOUS
<1>1. CASE LeaveOut
  <2>1. /\ generator_inputs \in Lists /\ next \in 1..6 /\ generated \in Seq(Chars)
        /\ PutTogether(generator_inputs, next, generated)
    BY <1>1, InputInRange DEF StringInv, LeaveOut
  <2>2. generator_inputs[next].random
    BY <1>1 DEF LeaveOut, Input
  <2>3. next \in {1, 5, 6}
    BY <2>1, <2>2, ListFacts
  <2>4. PutTogether(generator_inputs, next + 1, generated)
    BY <2>1, <2>3, LeftOut
  <2>5. next' = next + 1 /\ UNCHANGED <<generator_inputs, generated, output>>
    BY <1>1 DEF LeaveOut
  <2> QED
    BY <2>1, <2>4, <2>5 DEF StringInv
<1>2. CASE PushOne
  <2>1. InString /\ Push(1)
    BY <1>2 DEF PushOne
  <2> QED
    BY <2>1, StringPushed
<1>3. CASE PushStar
  <2>1. InString /\ generator_inputs[next].star /\ \E count \in 0..MaxCount : Push(count)
    BY <1>3 DEF PushStar, Input
  <2>2. generator_inputs \in Lists /\ next \in 1..6
    BY <2>1, InputInRange DEF StringInv
  <2>3. next = 3
    BY <2>1, <2>2, ListFacts
  <2>4. PICK count \in 0..MaxCount : Push(count)
    BY <2>1
  <2>5. count \in Nat
    BY TimesAssumption
  <2> QED
    BY <2>1, <2>3, <2>4, <2>5, StringPushed
<1>4. CASE EmplaceBack
  <2>1. /\ next > Len(generator_inputs) /\ output' = Append(output, generated)
        /\ generated' = <<>> /\ next' = 1 /\ UNCHANGED generator_inputs
    BY <1>4 DEF EmplaceBack
  <2>2. /\ generator_inputs \in Lists /\ next = 7 /\ generated \in Seq(Chars)
        /\ output \in Seq(Seq(Chars)) /\ PutTogether(generator_inputs, next, generated)
        /\ \A k \in 1..Len(output) : Finished(generator_inputs, output[k])
    BY <2>1, InputInRange DEF StringInv
  <2>3. Finished(generator_inputs, generated)
    BY <2>2 DEF PutTogether
  <2>4. output' \in Seq(Seq(Chars))
    BY <2>1, <2>2
  <2>5. \A k \in 1..Len(output') : Finished(generator_inputs, output'[k])
    <3>1. /\ \A k \in 1..Len(output) : output'[k] = output[k]
          /\ output'[Len(output) + 1] = generated /\ Len(output') = Len(output) + 1
          /\ Len(output) \in Nat
      BY <2>1, <2>2
    <3>2. \A k \in 1..Len(output') : k \in 1..Len(output) \/ k = Len(output) + 1
      BY <3>1
    <3> QED
      BY <2>2, <2>3, <3>1, <3>2
  <2>6. generated' \in Seq(Chars) /\ PutTogether(generator_inputs, 1, generated')
    BY <2>1 DEF PutTogether
  <2> QED
    BY <2>1, <2>2, <2>4, <2>5, <2>6 DEF StringInv
<1>5. CASE Returned \/ UNCHANGED vars
  BY <1>5 DEF Returned, vars, StringInv
<1> QED
  BY <1>1, <1>2, <1>3, <1>4, <1>5 DEF Next

\* At every step the string is a beginning of the pattern of its list, and
\* every string of the output is whole.
THEOREM StringInvariant == Spec => []StringInv
<1> QED
  BY StringsAtInit, StringsAtNext, PTL DEF Spec

\* The characters of a whole string, place by place.
LEMMA Places ==
    ASSUME NEW list \in Lists, NEW s \in Seq(Chars), Finished(list, s)
    PROVE  \E n \in Nat, c \in 1..2, d \in Nat :
               /\ n = Len(s) /\ c < d /\ d <= n /\ n <= d + 2
               /\ s[c] \in Of(list, 2) /\ s[d] \in Of(list, 4)
               /\ \A p \in 1..n : p < c => s[p] \in Of(list, 1)
               /\ \A p \in 1..n : c < p /\ p < d => s[p] = "0"
               /\ \A p \in 1..n : p = d + 1 => s[p] \in Of(list, 5) \cup {"_"}
               /\ \A p \in 1..n : p = d + 2 => s[p] = "_"
<1> DEFINE n == Len(s)
<1>1. n \in Nat
  OBVIOUS
<1>2. PICK c \in 1..2, d \in 1..n : Whole(list, s, c, d)
  BY DEF Finished
<1>3. /\ c < d /\ d <= n /\ n <= d + 2 /\ s[c] \in Of(list, 2) /\ s[d] \in Of(list, 4)
      /\ \A p \in 1..(c - 1) : s[p] \in Of(list, 1)
      /\ \A p \in (c + 1)..(d - 1) : s[p] = "0"
      /\ \A p \in (d + 1)..n : s[p] \in Of(list, 5) \cup {"_"}
      /\ n = d + 2 => s[d + 2] = "_"
  BY <1>2 DEF Whole, Closed, Opened, Zeros
<1> DEFINE other == Of(list, 5) \cup {"_"}
<1> HIDE DEF n, other
<1>4. d \in Nat
  BY <1>1
<1>5. c < d /\ d <= n /\ n <= d + 2
  BY <1>3
<1>6. ASSUME NEW p \in 1..n
      PROVE  /\ p < c => p \in 1..(c - 1)
             /\ c < p /\ p < d => p \in (c + 1)..(d - 1)
             /\ p = d + 1 => p \in (d + 1)..n
             /\ p = d + 2 => n = d + 2
  BY <1>1, <1>4, <1>5
<1>7. \A p \in 1..n : p < c => s[p] \in Of(list, 1)
  BY <1>3, <1>6
<1>8. \A p \in 1..n : c < p /\ p < d => s[p] = "0"
  BY <1>3, <1>6
<1>9. \A p \in 1..n : p = d + 1 => s[p] \in other
  BY <1>3, <1>6 DEF other
<1>10. \A p \in 1..n : p = d + 2 => s[p] = "_"
  BY <1>3, <1>6
<1> QED
  BY <1>1, <1>3, <1>4, <1>7, <1>8, <1>9, <1>10 DEF n, other

\* A match of a string of the first list is the one it was made around.
LEMMA OneMatch ==
    ASSUME NEW s \in Seq(Chars), Finished(always_matching_pattern, s)
    PROVE  Cardinality(MatchesIn(s)) = 1
<1> DEFINE list == always_matching_pattern
<1>1. list \in Lists
  BY DEF Lists
<1>2. PICK n \in Nat, c \in 1..2, d \in Nat :
          /\ n = Len(s) /\ c < d /\ d <= n /\ n <= d + 2
          /\ s[c] \in Of(list, 2) /\ s[d] \in Of(list, 4)
          /\ \A p \in 1..n : p < c => s[p] \in Of(list, 1)
          /\ \A p \in 1..n : c < p /\ p < d => s[p] = "0"
          /\ \A p \in 1..n : p = d + 1 => s[p] \in Of(list, 5) \cup {"_"}
          /\ \A p \in 1..n : p = d + 2 => s[p] = "_"
  BY <1>1, Places
<1>3. Of(list, 2) = {"a"} /\ Of(list, 4) = {"z"}
  BY <1>1, ListFacts
<1> HIDE DEF list
<1>4. s[c] = "a" /\ s[d] = "z"
  BY <1>2, <1>3
<1>5. c < d /\ d <= n /\ n <= d + 2 /\ c \in 1..n /\ d \in 1..n
  <2>1. c < d /\ d <= n /\ n <= d + 2
    BY <1>2
  <2> QED
    BY <2>1
<1>6. \A p \in 1..n : c < p /\ p < d => s[p] # "a" /\ s[p] # "z" /\ s[p] = "0"
  BY <1>2
<1>7. \A p \in 1..n : p = d + 2 => s[p] # "a" /\ s[p] # "z"
  BY <1>2
<1>8. ASSUME NEW f \in 1..n, NEW l \in 1..n, f < l, s[f] = "a", s[l] = "z",
             \A p \in (f + 1)..(l - 1) : s[p] = "0"
      PROVE  f = c /\ l = d
  <2>1. f # d /\ l # c
    BY <1>4, <1>8
  <2>2. \A p \in 1..n : f < p /\ p < l => s[p] = "0"
    BY <1>8
  <2>3. ~ (f < c /\ c < l) /\ ~ (f < d /\ d < l)
    BY <1>4, <1>5, <2>2
  <2>4. ~ (c < f /\ f < d) /\ ~ (c < l /\ l < d)
    BY <1>6, <1>8
  <2>5. f # d + 2 /\ l # d + 2
    BY <1>7, <1>8
  <2> QED
    BY <1>5, <1>8, <2>1, <2>3, <2>4, <2>5
<1>9. <<c, d>> \in MatchesIn(s)
  <2>1. \A p \in (c + 1)..(d - 1) : p \in 1..n /\ c < p /\ p < d
    BY <1>5
  <2>2. \A p \in (c + 1)..(d - 1) : s[p] = "0"
    BY <1>6, <2>1
  <2>3. <<c, d>> \in (1..n) \X (1..n)
    BY <1>5
  <2>4. n = Len(s)
    BY <1>2
  <2> QED
    BY <1>4, <1>5, <2>2, <2>3, <2>4 DEF MatchesIn
<1>10. MatchesIn(s) = {<<c, d>>}
  <2>1. ASSUME NEW m \in MatchesIn(s)
        PROVE  m = <<c, d>>
    <3>1. n = Len(s)
      BY <1>2
    <3>2. /\ m \in (1..n) \X (1..n) /\ m[1] < m[2] /\ s[m[1]] = "a" /\ s[m[2]] = "z"
          /\ \A p \in (m[1] + 1)..(m[2] - 1) : s[p] = "0"
      BY <3>1 DEF MatchesIn
    <3>3. m[1] = c /\ m[2] = d
      BY <1>8, <3>2
    <3> QED
      BY <3>2, <3>3
  <2> QED
    BY <1>9, <2>1
<1> QED
  BY <1>10, FS_Singleton

\* A string of the last list has an "a" only where no "z" can follow.
LEMMA NoMatch ==
    ASSUME NEW s \in Seq(Chars), Finished(never_matching_pattern, s)
    PROVE  Cardinality(MatchesIn(s)) = 0
<1> DEFINE list == never_matching_pattern
<1>1. list \in Lists
  BY DEF Lists
<1>2. PICK n \in Nat, c \in 1..2, d \in Nat :
          /\ n = Len(s) /\ c < d /\ d <= n /\ n <= d + 2
          /\ s[c] \in Of(list, 2) /\ s[d] \in Of(list, 4)
          /\ \A p \in 1..n : p < c => s[p] \in Of(list, 1)
          /\ \A p \in 1..n : c < p /\ p < d => s[p] = "0"
          /\ \A p \in 1..n : p = d + 1 => s[p] \in Of(list, 5) \cup {"_"}
          /\ \A p \in 1..n : p = d + 2 => s[p] = "_"
  BY <1>1, Places
<1>3. "a" \notin Of(list, 1) /\ Of(list, 2) = {"b"} /\ Of(list, 4) = {"b"}
  BY <1>1, ListFacts
<1> HIDE DEF list
<1>4. n = Len(s) /\ c < d /\ d <= n /\ n <= d + 2
  BY <1>2
<1>5. s[c] # "a" /\ s[d] # "a"
  BY <1>2, <1>3
<1>6. \A p \in 1..n : p < c \/ (c < p /\ p < d) \/ p = d + 2 => s[p] # "a"
  BY <1>2, <1>3
<1>7. \A p \in 1..n : p = d + 2 => s[p] # "z"
  BY <1>2
<1>8. ASSUME NEW f \in 1..n, NEW l \in 1..n, f < l, s[f] = "a", s[l] = "z"
      PROVE  FALSE
  <2>1. f # c /\ f # d /\ ~ (f < c) /\ ~ (c < f /\ f < d) /\ f # d + 2
    BY <1>5, <1>6, <1>8
  <2>2. l # d + 2
    BY <1>7, <1>8
  <2> QED
    BY <1>4, <1>8, <2>1, <2>2
<1>9. MatchesIn(s) = {}
  <2>1. ASSUME NEW m \in MatchesIn(s)
        PROVE  FALSE
    <3>1. m \in (1..n) \X (1..n) /\ m[1] < m[2] /\ s[m[1]] = "a" /\ s[m[2]] = "z"
      BY <1>4 DEF MatchesIn
    <3> QED
      BY <1>8, <3>1
  <2> QED
    BY <2>1
<1> QED
  BY <1>9, FS_EmptySet

\* A string of the first list has exactly one match and a string of the last
\* none, whatever generate leaves out of it by chance.
THEOREM GeneratorStringMatches == Spec => []StringMatches
<1>1. StringInv => StringMatches
  <2> SUFFICES ASSUME StringInv, NEW k \in 1..Len(output)
               PROVE  /\ generator_inputs = always_matching_pattern =>
                             Cardinality(MatchesIn(output[k])) = 1
                      /\ generator_inputs = never_matching_pattern =>
                             Cardinality(MatchesIn(output[k])) = 0
    BY DEF StringMatches
  <2>1. output[k] \in Seq(Chars) /\ Finished(generator_inputs, output[k])
    BY DEF StringInv
  <2> QED
    BY <2>1, OneMatch, NoMatch
<1> QED
  BY <1>1, StringInvariant, PTL

(***************************************************************************)
(* The strings one after the other.                                        *)
(***************************************************************************)
LEMMA JoinedParts ==
    ASSUME NEW s \in Seq(Seq(Chars))
    PROVE  \E t \in [0..Len(s) -> Seq(Chars)] :
               /\ t[0] = <<>>
               /\ \A k \in 0..(Len(s) - 1) : t[k + 1] = t[k] \o s[k + 1]
               /\ Joined(s) = t[Len(s)]
<1> DEFINE n == Len(s)
           step == [k \in 1..n |-> [v \in Seq(Chars) |-> v \o s[k]]]
           Solves(f) == f = [S \in SUBSET DOMAIN s |->
                                IF S = {} THEN <<>> ELSE f[S \ {Max(S)}] \o s[Max(S)]]
           f == CHOOSE f : f = [S \in SUBSET DOMAIN s |->
                                   IF S = {} THEN <<>> ELSE f[S \ {Max(S)}] \o s[Max(S)]]
<1>1. n \in Nat /\ DOMAIN s = 1..n /\ \A k \in 1..n : s[k] \in Seq(Chars)
  OBVIOUS
<1>2. step \in [1..n -> [Seq(Chars) -> Seq(Chars)]]
  <2>1. \A k \in 1..n, v \in Seq(Chars) : v \o s[k] \in Seq(Chars)
    BY <1>1
  <2> QED
    BY <2>1
<1>3. \A k \in 1..n, v \in Seq(Chars) : step[k][v] = v \o s[k]
  OBVIOUS
<1>4. Joined(s) = f[1..n]
  BY <1>1 DEF Joined, FoldLeft, MapThenFoldSet
<1> HIDE DEF n, step
<1>5. \A S \in SUBSET (1..n) : S # {} => Max(S) \in 1..n
  BY <1>1, MaxInRange
<1>6. \E g : Solves(g)
  <2>1. <<>> \in Seq(Chars)
    OBVIOUS
  <2>2. PICK g \in [SUBSET (1..n) -> Seq(Chars)] : Folds(g, 1..n, <<>>, step)
    BY <1>1, <1>2, <2>1, FoldExists
  <2>3. ASSUME NEW S \in SUBSET (1..n)
        PROVE  g[S] = IF S = {} THEN <<>> ELSE g[S \ {Max(S)}] \o s[Max(S)]
    <3>1. S \ {Max(S)} \in SUBSET (1..n)
      OBVIOUS
    <3>2. g[S \ {Max(S)}] \in Seq(Chars)
      BY <2>2, <3>1
    <3> QED
      BY <1>3, <1>5, <2>2, <3>2 DEF Folds
  <2> QED
    BY <1>1, <2>2, <2>3
<1>7. Solves(f)
  BY <1>6
<1> HIDE DEF f
<1>8. f[1..0] = <<>>
  <2>1. 1..0 = {} /\ 1..0 \in SUBSET (1..n)
    OBVIOUS
  <2> QED
    BY <1>1, <1>7, <2>1
<1>9. ASSUME NEW k \in 0..(n - 1)
      PROVE  f[1..(k + 1)] = f[1..k] \o s[k + 1]
  <2> DEFINE S == 1..(k + 1)
  <2>1. S \in SUBSET (1..n) /\ k \in Nat
    BY <1>1
  <2>2. S # {} /\ Max(S) = k + 1 /\ S \ {k + 1} = 1..k
    BY <2>1, MaxOfRange
  <2> HIDE DEF S
  <2>3. f[S] = f[S \ {Max(S)}] \o s[Max(S)]
    BY <1>1, <1>7, <2>1, <2>2
  <2>4. f[S] = f[1..k] \o s[k + 1]
    BY <2>2, <2>3
  <2> QED
    BY <2>4 DEF S
<1>10. \A k \in 0..n : f[1..k] \in Seq(Chars)
  <2> DEFINE T == {k \in Nat : k <= n => f[1..k] \in Seq(Chars)}
  <2>1. 0 \in T
    <3>1. f[1..0] \in Seq(Chars)
      <4>1. <<>> \in Seq(Chars)
        OBVIOUS
      <4> QED
        BY <1>8, <4>1, Zenon
    <3> QED
      BY <3>1
  <2>2. ASSUME NEW k \in Nat, k \in T
        PROVE  k + 1 \in T
    <3> SUFFICES ASSUME k + 1 <= n PROVE f[1..(k + 1)] \in Seq(Chars)
      OBVIOUS
    <3>1. k \in 0..(n - 1) /\ k + 1 \in 1..n /\ f[1..k] \in Seq(Chars)
      BY <1>1, <2>2
    <3>2. s[k + 1] \in Seq(Chars)
      BY <1>1, <3>1
    <3>3. f[1..k] \o s[k + 1] \in Seq(Chars)
      BY <3>1, <3>2
    <3> QED
      BY <1>9, <3>1, <3>3, Zenon
  <2>3. Nat \subseteq T
    <3> HIDE DEF T
    <3> QED
      BY <2>1, <2>2, SetOfNat
  <2> QED
    BY <1>1, <2>3
<1> DEFINE t == [k \in 0..n |-> f[1..k]]
<1>11. t \in [0..n -> Seq(Chars)] /\ t[0] = <<>> /\ t[n] = f[1..n]
  BY <1>1, <1>8, <1>10
<1>12. ASSUME NEW k \in 0..(n - 1)
       PROVE  t[k + 1] = t[k] \o s[k + 1]
  <2>1. k \in 0..n /\ k + 1 \in 0..n
    BY <1>1
  <2> QED
    BY <1>9, <2>1
<1> QED
  BY <1>4, <1>11, <1>12 DEF n

\* What is joined of the first strings is the beginning of what is joined of all.
LEMMA JoinedPrefixes ==
    ASSUME NEW s \in Seq(Seq(Chars))
    PROVE  \E t \in [0..Len(s) -> Seq(Chars)] :
               /\ t[0] = <<>>
               /\ \A k \in 0..(Len(s) - 1) : t[k + 1] = t[k] \o s[k + 1]
               /\ \A k \in 1..Len(s) : Joined(SubSeq(s, 1, k)) = t[k]
               /\ Joined(s) = t[Len(s)]
<1>1. PICK t \in [0..Len(s) -> Seq(Chars)] :
          /\ t[0] = <<>>
          /\ \A k \in 0..(Len(s) - 1) : t[k + 1] = t[k] \o s[k + 1]
          /\ Joined(s) = t[Len(s)]
  BY JoinedParts
<1>2. ASSUME NEW k \in 1..Len(s)
      PROVE  Joined(SubSeq(s, 1, k)) = t[k]
  <2> DEFINE b == SubSeq(s, 1, k)
  <2>1. b \in Seq(Seq(Chars)) /\ Len(b) = k /\ \A j \in 1..k : b[j] = s[j]
    OBVIOUS
  <2> HIDE DEF b
  <2>2. PICK u \in [0..Len(b) -> Seq(Chars)] :
            /\ u[0] = <<>>
            /\ \A j \in 0..(Len(b) - 1) : u[j + 1] = u[j] \o b[j + 1]
            /\ Joined(b) = u[Len(b)]
    BY <2>1, JoinedParts
  <2> DEFINE T == {j \in Nat : j <= k => u[j] = t[j]}
  <2>3. 0 \in T
    BY <1>1, <2>2
  <2>4. ASSUME NEW j \in Nat, j \in T
        PROVE  j + 1 \in T
    <3> SUFFICES ASSUME j + 1 <= k PROVE u[j + 1] = t[j + 1]
      OBVIOUS
    <3>1. j \in 0..(k - 1) /\ j \in 0..(Len(s) - 1) /\ j + 1 \in 1..k /\ u[j] = t[j]
      BY <2>4
    <3>2. u[j + 1] = u[j] \o b[j + 1]
      BY <2>1, <2>2, <3>1
    <3>3. t[j + 1] = t[j] \o s[j + 1]
      BY <1>1, <3>1
    <3> QED
      BY <2>1, <3>1, <3>2, <3>3
  <2>5. Nat \subseteq T
    <3> HIDE DEF T
    <3> QED
      BY <2>3, <2>4, SetOfNat
  <2>6. u[k] = t[k]
    BY <2>5
  <2> QED
    BY <2>1, <2>2, <2>6 DEF b
<1> QED
  BY <1>1, <1>2

\* The ends of a string are not digits.
LEMMA Ends ==
    ASSUME NEW list \in Lists, NEW s \in Seq(Chars), Finished(list, s)
    PROVE  Len(s) > 0 /\ s[1] # "0" /\ s[Len(s)] # "0"
<1>1. PICK n \in Nat, c \in 1..2, d \in Nat :
          /\ n = Len(s) /\ c < d /\ d <= n /\ n <= d + 2
          /\ s[c] \in Of(list, 2) /\ s[d] \in Of(list, 4)
          /\ \A p \in 1..n : p < c => s[p] \in Of(list, 1)
          /\ \A p \in 1..n : c < p /\ p < d => s[p] = "0"
          /\ \A p \in 1..n : p = d + 1 => s[p] \in Of(list, 5) \cup {"_"}
          /\ \A p \in 1..n : p = d + 2 => s[p] = "_"
  BY Places
<1>2. n = Len(s) /\ c < d /\ d <= n /\ n <= d + 2
  BY <1>1
<1>3. \A x \in Of(list, 1) \cup Of(list, 2) \cup Of(list, 4) \cup Of(list, 5) : x # "0"
  BY ListFacts
<1>4. 1 \in 1..n /\ n \in 1..n /\ (c = 1 \/ 1 < c) /\ (n = d \/ n = d + 1 \/ n = d + 2)
  BY <1>2
<1>5. s[1] # "0"
  <2>1. CASE c = 1
    BY <1>1, <1>3, <2>1
  <2>2. CASE 1 < c
    <3>1. s[1] \in Of(list, 1)
      BY <1>1, <1>4, <2>2
    <3> QED
      BY <1>3, <3>1
  <2> QED
    BY <1>4, <2>1, <2>2
<1>6. s[n] # "0"
  <2>1. CASE n = d
    BY <1>1, <1>3, <2>1
  <2>2. CASE n = d + 1
    <3>1. s[n] \in Of(list, 5) \/ s[n] = "_"
      BY <1>1, <1>4, <2>2
    <3> QED
      BY <1>3, <3>1
  <2>3. CASE n = d + 2
    <3>1. s[n] = "_"
      BY <1>1, <1>4, <2>3
    <3> QED
      BY <3>1
  <2> QED
    BY <1>4, <2>1, <2>2, <2>3
<1> QED
  BY <1>2, <1>5, <1>6

LEMMA Concat ==
    ASSUME NEW x \in Seq(Chars), NEW y \in Seq(Chars)
    PROVE  /\ x \o y \in Seq(Chars)
           /\ Len(x) \in Nat /\ Len(y) \in Nat /\ Len(x \o y) = Len(x) + Len(y)
           /\ \A p \in 1..Len(x) : (x \o y)[p] = x[p]
           /\ Len(y) > 0 => /\ (x \o y)[Len(x) + 1] = y[1]
                            /\ (x \o y)[Len(x \o y)] = y[Len(y)]
  OBVIOUS

\* s is a beginning of x, after which x does not go on with a digit.
Continues(s, x) ==
    /\ Len(s) <= Len(x)
    /\ \A p \in 1..Len(s) : x[p] = s[p]
    /\ Len(s) < Len(x) => x[Len(s) + 1] # "0"

LEMMA ContinuesFurther ==
    ASSUME NEW s \in Seq(Chars), NEW x \in Seq(Chars), NEW y \in Seq(Chars),
           Continues(s, x), Len(y) > 0, y[1] # "0"
    PROVE  Continues(s, x \o y)
<1> DEFINE z == x \o y
           ls == Len(s)
           lx == Len(x)
           lz == Len(z)
<1>1. ls \in Nat /\ lx \in Nat /\ lz \in Nat /\ lx < lz
  BY Concat
<1>2. \A p \in 1..lx : z[p] = x[p]
  BY Concat
<1>3. z[lx + 1] # "0"
  BY Concat
<1>4. ls <= lx /\ (\A p \in 1..ls : x[p] = s[p]) /\ (ls < lx => x[ls + 1] # "0")
  BY DEF Continues
<1> HIDE DEF z, ls, lx, lz
<1>5. ls <= lz /\ \A p \in 1..ls : z[p] = s[p]
  BY <1>1, <1>2, <1>4
<1>6. z[ls + 1] # "0"
  <2>1. CASE ls = lx
    BY <1>3, <2>1
  <2>2. CASE ls < lx
    <3>1. ls + 1 \in 1..lx
      BY <1>1, <2>2
    <3> QED
      BY <1>2, <1>4, <2>2, <3>1
  <2> QED
    BY <1>1, <1>4, <2>1, <2>2
<1> QED
  BY <1>5, <1>6 DEF Continues, z, ls, lz

\* The texts of the first strings, and strings that do not end in digits.
Texts(t, s) ==
    /\ t \in [0..Len(s) -> Seq(Chars)]
    /\ t[0] = <<>>
    /\ \A k \in 0..(Len(s) - 1) : t[k + 1] = t[k] \o s[k + 1]
DigitsInside(s) ==
    /\ s \in Seq(Seq(Chars))
    /\ \A k \in 1..Len(s) : Len(s[k]) > 0 /\ s[k][1] # "0" /\ s[k][Len(s[k])] # "0"

\* Around the end of a string the text has the ends of two strings.
LEMMA AroundEnd ==
    ASSUME NEW s, DigitsInside(s), NEW t, Texts(t, s), NEW k \in 1..Len(s)
    PROVE  /\ Continues(t[k], t[Len(s)])
           /\ Len(t[k]) > 0 /\ t[k][Len(t[k])] # "0"
<1> DEFINE n == Len(s)
           T == {j \in Nat : k + j <= n => Continues(t[k], t[k + j])}
<1>1. n \in Nat /\ k \in 1..n
  BY DEF DigitsInside
<1>2. \A j \in 0..n : t[j] \in Seq(Chars)
  BY DEF Texts
<1>3. ASSUME NEW j \in 0..(n - 1)
      PROVE  /\ t[j + 1] = t[j] \o s[j + 1] /\ t[j] \in Seq(Chars)
             /\ s[j + 1] \in Seq(Chars)
             /\ Len(s[j + 1]) > 0 /\ s[j + 1][1] # "0" /\ s[j + 1][Len(s[j + 1])] # "0"
  <2>1. j + 1 \in 1..n /\ j \in 0..n
    BY <1>1
  <2>2. s[j + 1] \in Seq(Chars)
    BY <2>1 DEF DigitsInside
  <2>3. Len(s[j + 1]) > 0 /\ s[j + 1][1] # "0" /\ s[j + 1][Len(s[j + 1])] # "0"
    BY <2>1 DEF DigitsInside
  <2>4. t[j + 1] = t[j] \o s[j + 1]
    BY DEF Texts
  <2> QED
    BY <1>2, <2>1, <2>2, <2>3, <2>4
<1> HIDE DEF n
<1>4. 0 \in T
  <2>1. Continues(t[k], t[k])
    <3>1. Len(t[k]) \in Nat
      BY <1>1, <1>2
    <3> QED
      BY <3>1 DEF Continues
  <2> QED
    BY <2>1, <1>1
<1>5. ASSUME NEW j \in Nat, j \in T
      PROVE  j + 1 \in T
  <2> SUFFICES ASSUME k + (j + 1) <= n PROVE Continues(t[k], t[k + (j + 1)])
    OBVIOUS
  <2>1. k + j \in 0..(n - 1) /\ k + (j + 1) = (k + j) + 1 /\ k \in 0..n
    BY <1>1
  <2>2. Continues(t[k], t[k + j])
    BY <1>1, <1>5, <2>1
  <2>3. t[k] \in Seq(Chars)
    BY <1>2, <2>1
  <2>4. Continues(t[k], t[k + j] \o s[(k + j) + 1])
    BY <1>3, <2>1, <2>2, <2>3, ContinuesFurther
  <2> QED
    BY <1>3, <2>1, <2>4
<1>6. Continues(t[k], t[n])
  <2>1. Nat \subseteq T
    <3> HIDE DEF T
    <3> QED
      BY <1>4, <1>5, SetOfNat
  <2>2. n - k \in Nat /\ k + (n - k) = n /\ k + (n - k) <= n
    BY <1>1
  <2>3. n - k \in T
    BY <2>1, <2>2
  <2>4. Continues(t[k], t[k + (n - k)])
    BY <2>2, <2>3
  <2> QED
    BY <2>2, <2>4
<1>7. Len(t[k]) > 0 /\ t[k][Len(t[k])] # "0"
  <2>1. k - 1 \in 0..(n - 1) /\ (k - 1) + 1 = k
    BY <1>1
  <2> DEFINE x == t[k - 1]
             y == s[k]
  <2>2. /\ t[k] = x \o y /\ x \in Seq(Chars) /\ y \in Seq(Chars)
        /\ Len(y) > 0 /\ y[Len(y)] # "0"
    BY <1>3, <2>1
  <2> HIDE DEF x, y
  <2>3. Len(x \o y) > 0 /\ (x \o y)[Len(x \o y)] # "0"
    BY <2>2, Concat
  <2> QED
    BY <2>2, <2>3
<1> QED
  BY <1>6, <1>7 DEF n

\* Where two strings meet a match can only be an "a" before a "z": the digits of
\* a longer one would be an end of one of the strings.
THEOREM GeneratorJointMatches == Spec => []JointMatches
<1>1. StringInv => JointMatches
  <2> SUFFICES ASSUME StringInv PROVE JointMatches
    OBVIOUS
  <2>1. DigitsInside(output)
    <3>1. output \in Seq(Seq(Chars))
      BY DEF StringInv
    <3>2. ASSUME NEW k \in 1..Len(output)
          PROVE  /\ Len(output[k]) > 0
                 /\ output[k][1] # "0" /\ output[k][Len(output[k])] # "0"
      <4>1. output[k] \in Seq(Chars)
        BY <3>1
      <4>2. generator_inputs \in Lists /\ Finished(generator_inputs, output[k])
        BY DEF StringInv
      <4> QED
        BY <4>1, <4>2, Ends
    <3> QED
      BY <3>1, <3>2 DEF DigitsInside
  <2>2. PICK t : /\ Texts(t, output)
                 /\ \A k \in 1..Len(output) : Joined(SubSeq(output, 1, k)) = t[k]
                 /\ Joined(output) = t[Len(output)]
    BY <2>1, JoinedPrefixes DEF DigitsInside, Texts
  <2> DEFINE text == Joined(output)
             e(k) == Len(Joined(SubSeq(output, 1, k)))
  <2> SUFFICES ASSUME NEW m \in MatchesIn(text), NEW k \in 1..Len(output),
                      m[1] <= e(k), e(k) < m[2]
               PROVE  m = <<e(k), e(k) + 1>>
    BY DEF JointMatches
  <2> DEFINE n == Len(text)
             end == e(k)
             f == m[1]
             l == m[2]
  <2>3. text \in Seq(Chars) /\ t[k] \in Seq(Chars)
    <3>1. Len(output) \in 0..Len(output) /\ k \in 0..Len(output)
      BY <2>1 DEF DigitsInside
    <3>2. \A j \in 0..Len(output) : t[j] \in Seq(Chars)
      BY <2>2 DEF Texts
    <3> QED
      BY <2>2, <3>1, <3>2
  <2>4. end = Len(t[k]) /\ end \in Nat /\ n \in Nat
    BY <2>2, <2>3
  <2>5. Continues(t[k], text) /\ Len(t[k]) > 0 /\ t[k][Len(t[k])] # "0"
    BY <2>1, <2>2, AroundEnd
  <2>6. /\ m \in (1..n) \X (1..n)
        /\ \A p \in (m[1] + 1)..(m[2] - 1) : text[p] = "0"
    BY DEF MatchesIn
  <2>7. /\ end > 0 /\ end <= n /\ text[end] # "0"
        /\ end < n => text[end + 1] # "0"
    <3>1. end \in 1..Len(t[k])
      BY <2>4, <2>5
    <3>2. text[end] = t[k][end]
      BY <2>5, <3>1 DEF Continues
    <3> QED
      BY <2>4, <2>5, <3>2 DEF Continues
  <2>8. f \in 1..n /\ l \in 1..n /\ m = <<f, l>> /\ f <= end /\ end < l
    BY <2>6
  <2>9. \A p \in (f + 1)..(l - 1) : text[p] = "0"
    BY <2>6
  <2> HIDE DEF f, l, n, text, end, e
  <2>10. f = end
    <3> SUFFICES ASSUME f # end PROVE FALSE
      OBVIOUS
    <3>1. end \in (f + 1)..(l - 1) /\ end > 0
      BY <2>4, <2>7, <2>8
    <3>2. text[end] = "0"
      BY <2>9, <3>1
    <3> QED
      BY <2>7, <3>2
  <2>11. l = end + 1
    <3> SUFFICES ASSUME l # end + 1 PROVE FALSE
      OBVIOUS
    <3>1. end + 1 \in (f + 1)..(l - 1) /\ end < n
      BY <2>4, <2>7, <2>8
    <3>2. text[end + 1] = "0"
      BY <2>9, <3>1
    <3> QED
      BY <2>7, <3>1, <3>2
  <2> QED
    BY <2>8, <2>10, <2>11 DEF end, e
<1> QED
  BY <1>1, StringInvariant, PTL
================================================================================
