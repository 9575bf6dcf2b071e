------------------------------ MODULE ClassProofs ------------------------------
(***************************************************************************)
(* Theorems about the compilation of character classes, for bytes of any   *)
(* number of bits and for every pattern.  Powers of 2 are counts of        *)
(* subsets here, for the provers know nothing else of them.  A bit says    *)
(* what a remainder by 2^b lacks of the next one; from that, what the      *)
(* comparisons of CCCompiler mean, then a range, then the sign of its      *)
(* bounds, and last the loop over ranges and items.                        *)
(***************************************************************************)
EXTENDS ClassMeaning, FiniteSetTheorems, WellFoundedInduction, TLAPS

\* Induction, for a set of numbers.
LEMMA SetOfNat ==
    ASSUME NEW S, 0 \in S, \A k \in Nat : k \in S => k + 1 \in S
    PROVE  Nat \subseteq S
<1> DEFINE T == Nat \ S
<1> SUFFICES ASSUME T # {} PROVE FALSE
  OBVIOUS
<1>1. PICK x \in T : \A y \in T : ~ (<<y, x>> \in OpToRel(<, Nat))
  <2> HIDE DEF T
  <2>1. T \subseteq Nat
    BY DEF T
  <2> QED
    BY <2>1, WFMin, NatLessThanWellFounded
<1>2. x # 0 /\ x - 1 \in Nat /\ (x - 1) + 1 = x
  OBVIOUS
<1>3. <<x - 1, x>> \in OpToRel(<, Nat)
  BY <1>2 DEF OpToRel
<1>4. x - 1 \in S
  BY <1>1, <1>2, <1>3
<1> QED
  BY <1>2, <1>4

\* There is a least number in a set that has a number.
LEMMA LeastOf ==
    ASSUME NEW S \in SUBSET Nat, S # {}
    PROVE  \E x \in S : \A y \in S : x <= y
<1>1. PICK x \in S : \A y \in S : ~ (<<y, x>> \in OpToRel(<, Nat))
  BY WFMin, NatLessThanWellFounded
<1>2. ASSUME NEW y \in S, y < x
      PROVE  FALSE
  <2>1. <<y, x>> \in OpToRel(<, Nat)
    BY <1>2 DEF OpToRel
  <2> QED
    BY <1>1, <2>1
<1> QED
  BY <1>2

(***************************************************************************)
(* Powers of 2 and division by them.                                       *)
(***************************************************************************)

\* A set with one more element has twice as many subsets.
LEMMA Powers ==
    ASSUME NEW k \in Nat
    PROVE  2^k \in Nat \ {0} /\ 2^(k + 1) = 2 * 2^k
<1> DEFINE S == 1..k
           T == 1..(k + 1)
           With == {U \cup {k + 1} : U \in SUBSET S}
           f == [U \in SUBSET S |-> U \cup {k + 1}]
<1>1. /\ IsFiniteSet(SUBSET S) /\ Cardinality(SUBSET S) = 2^k
      /\ IsFiniteSet(SUBSET T) /\ Cardinality(SUBSET T) = 2^(k + 1)
  <2>1. IsFiniteSet(S) /\ Cardinality(S) = k
    BY FS_Interval
  <2>2. IsFiniteSet(T) /\ Cardinality(T) = k + 1
    BY FS_Interval
  <2> HIDE DEF S, T
  <2> QED
    BY <2>1, <2>2, FS_SUBSET
<1>2. SUBSET T = (SUBSET S) \cup With
  <2>1. ASSUME NEW U \in SUBSET T, k + 1 \in U
        PROVE  U \in With
    <3>1. U \ {k + 1} \in SUBSET S /\ U = (U \ {k + 1}) \cup {k + 1}
      BY <2>1
    <3> QED
      BY <3>1
  <2>2. ASSUME NEW U \in SUBSET T, k + 1 \notin U
        PROVE  U \in SUBSET S
    BY <2>2
  <2>3. SUBSET S \subseteq SUBSET T /\ With \subseteq SUBSET T
    <3>1. S \subseteq T /\ k + 1 \in T
      OBVIOUS
    <3> HIDE DEF S, T
    <3> QED
      BY <3>1
  <2> QED
    BY <2>1, <2>2, <2>3
<1>3. (SUBSET S) \cap With = {}
  <2>1. k + 1 \notin S
    OBVIOUS
  <2> QED
    BY <2>1
<1>4. ExistsBijection(SUBSET S, With)
  <2>1. f \in [SUBSET S -> With]
    OBVIOUS
  <2>2. ASSUME NEW U \in SUBSET S, NEW V \in SUBSET S, f[U] = f[V]
        PROVE  U = V
    <3>1. k + 1 \notin U /\ k + 1 \notin V /\ U \cup {k + 1} = V \cup {k + 1}
      BY <2>2
    <3> QED
      BY <3>1
  <2>3. \A V \in With : \E U \in SUBSET S : f[U] = V
    OBVIOUS
  <2> HIDE DEF f, With, S
  <2>4. f \in Bijection(SUBSET S, With)
    BY <2>1, <2>2, <2>3 DEF Bijection, Injection, Surjection, IsInjective
  <2> QED
    BY <2>4 DEF ExistsBijection
<1> HIDE DEF With, S, T, f
<1>5. IsFiniteSet(With) /\ Cardinality(With) = 2^k
  BY <1>1, <1>4, FS_Bijection
<1>6. Cardinality((SUBSET S) \cap With) = 0
  BY <1>3, FS_EmptySet
<1>7. Cardinality(SUBSET T) = 2^k + 2^k - 0
  BY <1>1, <1>2, <1>5, <1>6, FS_Union
<1>8. SUBSET S # {}
  OBVIOUS
<1>9. 2^k \in Nat /\ 2^k # 0
  BY <1>1, <1>8, FS_CardinalityType, FS_EmptySet
<1> QED
  BY <1>1, <1>7, <1>9

LEMMA PowerOfZero == 2^0 = 1
<1>1. IsFiniteSet(SUBSET {}) /\ Cardinality(SUBSET {}) = 2^0
  BY FS_EmptySet, FS_SUBSET
<1>2. SUBSET {} = {{}}
  OBVIOUS
<1>3. Cardinality({{}}) = 1
  BY FS_Singleton
<1> QED
  BY <1>1, <1>2, <1>3

LEMMA Quotients ==
    ASSUME NEW v \in Nat, NEW d \in Nat \ {0}
    PROVE  /\ v \div d \in Nat
           /\ v % d \in 0..(d - 1)
           /\ v = (v \div d) * d + (v % d)
  OBVIOUS

LEMMA QuotientIs ==
    ASSUME NEW q \in Nat, NEW d \in Nat \ {0}, NEW r \in 0..(d - 1)
    PROVE  (q * d + r) \div d = q /\ (q * d + r) % d = r
<1> DEFINE v == q * d + r
           w == v \div d
<1>1. q * d \in Nat /\ v \in Nat
  OBVIOUS
<1>2. w \in Nat /\ (v % d) \in 0..(d - 1) /\ v = w * d + (v % d)
  <2> HIDE DEF v
  <2> QED
    BY <1>1, Quotients
<1>3. w * d \in Nat /\ (w + 1) * d = w * d + d /\ (q + 1) * d = q * d + d
  BY <1>2
<1>4. ASSUME w < q PROVE FALSE
  <2>1. (w + 1) * d <= q * d
    BY <1>2, <1>4
  <2> QED
    BY <1>1, <1>2, <1>3, <2>1
<1>5. ASSUME q < w PROVE FALSE
  <2>1. (q + 1) * d <= w * d
    BY <1>2, <1>5
  <2> QED
    BY <1>1, <1>2, <1>3, <2>1
<1>6. w = q
  BY <1>2, <1>4, <1>5
<1> HIDE DEF w
<1>7. (v % d) = r
  BY <1>1, <1>2, <1>6
<1> QED
  BY <1>6, <1>7 DEF w

\* Bit b is what a quotient and a remainder by 2^b say more than those by
\* 2^(b + 1), or less.
LEMMA Bits ==
    ASSUME NEW v \in Nat, NEW b \in Nat
    PROVE  /\ v \div 2^b \in Nat /\ v \div 2^(b + 1) \in Nat
           /\ v % 2^b \in 0..(2^b - 1)
           /\ BitSet(v, b) => /\ v \div 2^b = 2 * (v \div 2^(b + 1)) + 1
                              /\ v % 2^(b + 1) = (v % 2^b) + 2^b
           /\ ~ BitSet(v, b) => /\ v \div 2^b = 2 * (v \div 2^(b + 1))
                                /\ v % 2^(b + 1) = v % 2^b
<1> DEFINE d == 2^b
           q == v \div d
           r == v % d
           h == q \div 2
           c == q % 2
<1>1. d \in Nat \ {0} /\ 2^(b + 1) = 2 * d
  BY Powers
<1>2. BitSet(v, b) <=> c = 1
  BY DEF BitSet
<1> HIDE DEF d
<1>3. q \in Nat /\ r \in 0..(d - 1) /\ v = q * d + r
  BY <1>1, Quotients
<1> HIDE DEF q, r
<1>4. h \in Nat /\ c \in {0, 1} /\ q = 2 * h + c
  BY <1>3
<1> HIDE DEF h, c
<1>5. c * d + r \in 0..(2 * d - 1) /\ 2 * d \in Nat \ {0}
  BY <1>1, <1>3, <1>4
<1>6. v = h * (2 * d) + (c * d + r)
  <2>1. (2 * h + c) * d = (2 * h) * d + c * d
    BY <1>1, <1>4
  <2>2. (2 * h) * d = h * (2 * d)
    BY <1>1, <1>4
  <2>3. h * (2 * d) \in Int /\ c * d \in Int
    BY <1>1, <1>4
  <2> QED
    BY <1>1, <1>3, <1>4, <2>1, <2>2, <2>3
<1>7. v \div (2 * d) = h /\ v % (2 * d) = c * d + r
  BY <1>4, <1>5, <1>6, QuotientIs
<1>8. /\ c = 1 => c * d + r = r + d
      /\ c = 0 => c * d + r = r
  BY <1>1, <1>3
<1> DEFINE e == c * d + r
<1>9. /\ d = 2^b /\ v \div 2^b = q /\ v % 2^b = r
      /\ v \div 2^(b + 1) = h /\ v % 2^(b + 1) = e
  BY <1>1, <1>7 DEF q, r, d
<1>10. /\ c = 1 => q = 2 * h + 1 /\ e = r + d
       /\ c = 0 => q = 2 * h /\ e = r
  BY <1>4, <1>8
<1>11. c # 1 => c = 0
  BY <1>4
<1> HIDE DEF e
<1> QED
  BY <1>2, <1>3, <1>4, <1>9, <1>10, <1>11

\* A number below a power of 2 has no bit above it.
LEMMA Below ==
    ASSUME NEW b \in Nat, NEW v \in 0..(2^b - 1)
    PROVE  v \div 2^b = 0 /\ v % 2^b = v
<1> DEFINE d == 2^b
<1>1. d \in Nat \ {0} /\ v \in 0..(d - 1)
  BY Powers
<1> HIDE DEF d
<1>2. 0 * d + v = v
  BY <1>1
<1>3. v \div d = 0 /\ v % d = v
  BY <1>1, <1>2, QuotientIs
<1> QED
  BY <1>3 DEF d

\* What is subtracted a whole number of times leaves the remainder as it is.
LEMMA Reduced ==
    ASSUME NEW d \in Nat \ {0}, NEW v \in Nat, NEW k \in Nat, k * d <= v
    PROVE  (v - k * d) % d = v % d
<1> DEFINE q == v \div d
           r == v % d
<1>1. q \in Nat /\ r \in 0..(d - 1) /\ v = q * d + r
  BY Quotients
<1> HIDE DEF q, r
<1>2. k <= q
  <2>1. ASSUME q < k PROVE FALSE
    <3>1. (q + 1) * d <= k * d /\ (q + 1) * d = q * d + d
      BY <1>1, <2>1
    <3> QED
      BY <1>1, <3>1
  <2> QED
    BY <1>1, <2>1
<1>3. (q - k) * d = q * d - k * d
  BY <1>1
<1>4. v - k * d = (q - k) * d + r
  BY <1>1, <1>3
<1>5. q - k \in Nat
  BY <1>1, <1>2
<1>6. ((q - k) * d + r) % d = r
  BY <1>1, <1>5, QuotientIs
<1> QED
  BY <1>4, <1>6 DEF r

LEMMA ByteBounds == EncodingBits \in Nat \ {0} /\ Byte \subseteq Nat /\ 0 \in Byte
  BY EncodingAssumption, Powers DEF Byte

LEMMA ByteQuotient ==
    ASSUME NEW v \in Byte
    PROVE  v \in Nat /\ v \div 2^EncodingBits = 0 /\ v % 2^EncodingBits = v
  BY ByteBounds, Below DEF Byte

\* Numbers with the same bit b agree from it up if they do above it.
LEMMA SameBits ==
    ASSUME NEW v \in Nat, NEW w \in Nat, NEW b \in Nat, BitSet(v, b) <=> BitSet(w, b)
    PROVE  v \div 2^b = w \div 2^b <=> v \div 2^(b + 1) = w \div 2^(b + 1)
<1> DEFINE q(x) == x \div 2^b
           h(x) == x \div 2^(b + 1)
<1>1. /\ q(v) \in Nat /\ h(v) \in Nat
      /\ BitSet(v, b) => q(v) = 2 * h(v) + 1
      /\ ~ BitSet(v, b) => q(v) = 2 * h(v)
  BY Bits
<1>2. /\ q(w) \in Nat /\ h(w) \in Nat
      /\ BitSet(w, b) => q(w) = 2 * h(w) + 1
      /\ ~ BitSet(w, b) => q(w) = 2 * h(w)
  BY Bits
<1> HIDE DEF q, h
<1>3. q(v) = q(w) <=> h(v) = h(w)
  BY <1>1, <1>2
<1> QED
  BY <1>3 DEF q, h

\* Bytes that agree from bit c up agree from every bit above it up.
LEMMA AgreeAbove ==
    ASSUME NEW v \in Nat, NEW w \in Nat, NEW c \in Nat, NEW b \in Nat, c <= b,
           v \div 2^c = w \div 2^c
    PROVE  v \div 2^b = w \div 2^b
<1> DEFINE S == {k \in Nat : c <= k => v \div 2^k = w \div 2^k}
<1>1. ASSUME NEW k \in Nat, v \div 2^k = w \div 2^k
      PROVE  v \div 2^(k + 1) = w \div 2^(k + 1)
  <2>1. BitSet(v, k) <=> BitSet(w, k)
    BY <1>1 DEF BitSet
  <2> QED
    BY <1>1, <2>1, SameBits
<1>2. 0 \in S
  <2>1. c <= 0 => c = 0
    OBVIOUS
  <2> QED
    BY <2>1
<1>3. ASSUME NEW k \in Nat, k \in S
      PROVE  k + 1 \in S
  <2>1. c <= k + 1 => c <= k \/ c = k + 1
    OBVIOUS
  <2> QED
    BY <1>1, <1>3, <2>1
<1> HIDE DEF S
<1>4. Nat \subseteq S
  BY <1>2, <1>3, SetOfNat
<1> QED
  BY <1>4 DEF S

\* A pattern of bits is a common quotient.
LEMMA BitPatternIs ==
    ASSUME NEW p \in Byte, NEW c \in 0..EncodingBits
    PROVE  BitPattern(p, c) = {v \in Byte : v \div 2^c = p \div 2^c}
<1>1. c \in Nat /\ EncodingBits \in Nat /\ p \in Nat
  BY ByteBounds
<1>2. ASSUME NEW v \in Byte, v \div 2^c = p \div 2^c, NEW b \in c..(EncodingBits - 1)
      PROVE  BitSet(v, b) <=> BitSet(p, b)
  <2>1. b \in Nat /\ c <= b /\ v \in Nat
    BY <1>1, ByteBounds
  <2>2. v \div 2^b = p \div 2^b
    BY <1>1, <1>2, <2>1, AgreeAbove
  <2> QED
    BY <2>2 DEF BitSet
<1>3. ASSUME NEW v \in Byte,
             \A b \in c..(EncodingBits - 1) : BitSet(v, b) <=> BitSet(p, b)
      PROVE  v \div 2^c = p \div 2^c
  <2> DEFINE S == {k \in Nat : k <= EncodingBits - c =>
                       v \div 2^(EncodingBits - k) = p \div 2^(EncodingBits - k)}
  <2>1. v \in Nat
    BY ByteBounds
  <2>2. 0 \in S
    <3>1. EncodingBits - 0 = EncodingBits
      BY <1>1
    <3> QED
      BY <3>1, ByteQuotient
  <2>3. ASSUME NEW k \in Nat, k \in S, k + 1 <= EncodingBits - c
        PROVE  v \div 2^(EncodingBits - (k + 1)) = p \div 2^(EncodingBits - (k + 1))
    <3> DEFINE b == EncodingBits - (k + 1)
    <3>1. /\ b \in Nat /\ b + 1 = EncodingBits - k /\ b \in c..(EncodingBits - 1)
          /\ k <= EncodingBits - c
      BY <1>1, <2>3
    <3>2. v \div 2^(b + 1) = p \div 2^(b + 1)
      BY <2>3, <3>1
    <3>3. BitSet(v, b) <=> BitSet(p, b)
      BY <1>3, <3>1
    <3> HIDE DEF b
    <3>4. v \div 2^b = p \div 2^b
      BY <1>1, <2>1, <3>1, <3>2, <3>3, SameBits
    <3> QED
      BY <3>4 DEF b
  <2>4. \A k \in Nat : k \in S => k + 1 \in S
    BY <2>3
  <2> HIDE DEF S
  <2>5. Nat \subseteq S
    BY <2>2, <2>4, SetOfNat
  <2>6. EncodingBits - c \in S /\ EncodingBits - (EncodingBits - c) = c
    BY <1>1, <2>5
  <2> QED
    BY <1>1, <2>6 DEF S
<1> QED
  BY <1>2, <1>3 DEF BitPattern

\* The bits below the highest one in which two bytes differ.
LEMMA DifferingBitsIs ==
    ASSUME NEW low \in Byte, NEW high \in Byte
    PROVE  LET c == DifferingBits(low, high)
           IN  /\ c \in 0..EncodingBits
               /\ low \div 2^c = high \div 2^c
               /\ \A d \in 0..(c - 1) : low \div 2^d # high \div 2^d
<1> DEFINE S == {c \in 0..EncodingBits : low \div 2^c = high \div 2^c}
<1>1. S \in SUBSET Nat /\ EncodingBits \in S
  BY ByteBounds, ByteQuotient
<1>2. PICK c \in S : \A d \in S : c <= d
  <2> HIDE DEF S
  <2> QED
    BY <1>1, LeastOf
<1>3. \A d \in 0..(c - 1) : d \in 0..EncodingBits /\ ~ (c <= d)
  BY ByteBounds
<1>4. \A d \in 0..(c - 1) : low \div 2^d # high \div 2^d
  BY <1>2, <1>3
<1>5. \E c_1 \in 0..EncodingBits : /\ low \div 2^c_1 = high \div 2^c_1
                                   /\ \A d \in 0..(c_1 - 1) : low \div 2^d # high \div 2^d
  BY <1>4
<1> QED
  BY <1>5 DEF DifferingBits

(***************************************************************************)
(* The comparisons.                                                        *)
(***************************************************************************)

\* The bytes whose bits lowest ones are not below those of m.
AtLeast(bits, m) == {v \in Byte : v % 2^bits >= m % 2^bits}

LEMMA RemainderAtMost ==
    ASSUME NEW v \in Nat, NEW d \in Nat \ {0}
    PROVE  v % d <= v
<1> DEFINE q == v \div d
           r == v % d
<1>1. q \in Nat /\ r \in Nat /\ v = q * d + r
  BY Quotients
<1> HIDE DEF q, r
<1>2. q * d \in Nat
  BY <1>1
<1>3. r <= v
  BY <1>1, <1>2
<1> QED
  BY <1>3 DEF r

\* What one bit says of a remainder.
LEMMA BitOfRemainder ==
    ASSUME NEW v \in Byte, NEW b \in Nat
    PROVE  /\ v % 2^b \in Nat /\ v % 2^b < 2^b /\ v % 2^(b + 1) \in Nat
           /\ v \in One(b) => v % 2^(b + 1) = (v % 2^b) + 2^b
           /\ v \notin One(b) => v % 2^(b + 1) = v % 2^b
<1>1. v \in Nat /\ 2^b \in Nat \ {0}
  BY ByteBounds, Powers
<1>2. v \in One(b) <=> BitSet(v, b)
  BY DEF One
<1> DEFINE d == 2^b
           r == v % d
<1>3. r \in 0..(d - 1)
  BY <1>1, Bits
<1>4. r \in Nat /\ r < d /\ r + d \in Nat
  <2> HIDE DEF d, r
  <2> QED
    BY <1>1, <1>3 DEF d
<1> QED
  BY <1>1, <1>2, <1>4, Bits

\* A bound with the highest bit set, and one without it.
LEMMA OneBit ==
    ASSUME NEW b \in Nat, NEW m \in Byte
    PROVE  /\ BitSet(m, b) => /\ m - 2^b \in Byte
                              /\ One(b) \cap AtLeast(b, m - 2^b) = AtLeast(b + 1, m)
           /\ ~ BitSet(m, b) => One(b) \cup AtLeast(b, m) = AtLeast(b + 1, m)
<1> DEFINE d == 2^b
           r(x) == x % 2^b
           s(x) == x % 2^(b + 1)
<1>1. m \in Nat /\ d \in Nat \ {0} /\ (m \in One(b) <=> BitSet(m, b))
  BY ByteBounds, Powers DEF One
<1>2. \A v \in Byte : /\ r(v) \in Nat /\ r(v) < d /\ s(v) \in Nat
                      /\ v \in One(b) => s(v) = r(v) + d
                      /\ v \notin One(b) => s(v) = r(v)
  BY BitOfRemainder
<1>3. /\ \A x : AtLeast(b, x) = {v \in Byte : r(v) >= r(x)}
      /\ AtLeast(b + 1, m) = {v \in Byte : s(v) >= s(m)}
      /\ One(b) \subseteq Byte
  BY DEF AtLeast, One
<1>4. s(m) <= m
  BY <1>1, RemainderAtMost, Powers
<1>5. ASSUME BitSet(m, b)
      PROVE  m - d \in Byte /\ r(m - d) = r(m)
  <2>1. d <= m /\ 1 * d = d
    <3> HIDE DEF d, r, s
    <3> QED
      BY <1>1, <1>2, <1>4, <1>5
  <2>2. (m - 1 * d) % d = m % d
    BY <1>1, <2>1, Reduced
  <2>3. m - d \in Byte
    <3> HIDE DEF d
    <3>1. m - d \in Nat /\ m - d <= m
      BY <1>1, <2>1
    <3>2. 2^EncodingBits \in Nat
      BY ByteBounds, Powers
    <3> QED
      BY <3>1, <3>2 DEF Byte
  <2> QED
    BY <2>1, <2>2, <2>3
<1>6. m - 2^b = m - d
  OBVIOUS
<1> HIDE DEF d, r, s
<1>7. ASSUME BitSet(m, b)
      PROVE  One(b) \cap AtLeast(b, m - d) = AtLeast(b + 1, m)
  <2>1. s(m) = r(m) + d /\ r(m) \in Nat
    BY <1>1, <1>2, <1>7
  <2>2. \A v \in Byte : v \in One(b) /\ r(v) >= r(m) <=> s(v) >= s(m)
    BY <1>1, <1>2, <2>1
  <2> QED
    BY <1>3, <1>5, <1>7, <2>2
<1>8. ASSUME ~ BitSet(m, b)
      PROVE  One(b) \cup AtLeast(b, m) = AtLeast(b + 1, m)
  <2>1. s(m) = r(m) /\ r(m) \in Nat /\ r(m) < d
    BY <1>1, <1>2, <1>8
  <2>2. \A v \in Byte : v \in One(b) \/ r(v) >= r(m) <=> s(v) >= s(m)
    BY <1>1, <1>2, <2>1
  <2> QED
    BY <1>3, <1>8, <2>2
<1> QED
  BY <1>5, <1>6, <1>7, <1>8

\* The two highest bits of a bound at once: neither set, or both.
LEMMA TwoBits ==
    ASSUME NEW b \in Nat, NEW m \in Byte
    PROVE  /\ m \div 2^b = 0 =>
                  (One(b + 1) \cup One(b)) \cup AtLeast(b, m) = AtLeast(b + 2, m)
           /\ m \div 2^b = 3 =>
                  /\ m - 3 * 2^b \in Byte
                  /\ (One(b + 1) \cap One(b)) \cap AtLeast(b, m - 3 * 2^b) = AtLeast(b + 2, m)
<1> DEFINE d == 2^b
<1>1. m \in Nat /\ d \in Nat \ {0} /\ 2^(b + 1) = 2 * d /\ (b + 1) + 1 = b + 2 /\ b + 1 \in Nat
  BY ByteBounds, Powers
<1>2. ASSUME m \div 2^b = 0
      PROVE  (One(b + 1) \cup One(b)) \cup AtLeast(b, m) = AtLeast(b + 2, m)
  <2>1. ~ BitSet(m, b)
    BY <1>2 DEF BitSet
  <2>2. m \div 2^(b + 1) = 0
    <3> DEFINE q == m \div 2^(b + 1)
    <3>1. q \in Nat /\ 0 = 2 * q
      BY <1>1, <1>2, <2>1, Bits
    <3> HIDE DEF q
    <3>2. q = 0
      BY <3>1
    <3> QED
      BY <3>2 DEF q
  <2>3. ~ BitSet(m, b + 1)
    BY <2>2 DEF BitSet
  <2>4. One(b) \cup AtLeast(b, m) = AtLeast(b + 1, m)
    BY <2>1, OneBit
  <2>5. One(b + 1) \cup AtLeast(b + 1, m) = AtLeast(b + 2, m)
    BY <1>1, <2>3, OneBit
  <2> QED
    BY <2>4, <2>5
<1>3. ASSUME m \div 2^b = 3
      PROVE  /\ m - 3 * 2^b \in Byte
             /\ (One(b + 1) \cap One(b)) \cap AtLeast(b, m - 3 * 2^b) = AtLeast(b + 2, m)
  <2>1. BitSet(m, b)
    BY <1>3 DEF BitSet
  <2>2. m \div 2^(b + 1) = 1
    <3> DEFINE q == m \div 2^(b + 1)
    <3>1. q \in Nat /\ 3 = 2 * q + 1
      BY <1>1, <1>3, <2>1, Bits
    <3> HIDE DEF q
    <3>2. q = 1
      BY <3>1
    <3> QED
      BY <3>2 DEF q
  <2>3. BitSet(m, b + 1)
    BY <2>2 DEF BitSet
  <2> DEFINE w == m - 2^(b + 1)
  <2>4. w \in Byte /\ One(b + 1) \cap AtLeast(b + 1, w) = AtLeast(b + 2, m)
    BY <1>1, <2>3, OneBit
  <2>5. w \div 2^b = 1
    <3> DEFINE r == m % d
    <3>1. r \in 0..(d - 1) /\ m = 3 * d + r
      BY <1>1, <1>3, Quotients
    <3> HIDE DEF r, d
    <3>2. w = 1 * d + r
      BY <1>1, <3>1
    <3>3. w \div d = 1
      BY <1>1, <3>1, <3>2, QuotientIs
    <3> QED
      BY <3>3 DEF d
  <2>6. BitSet(w, b)
    BY <2>5 DEF BitSet
  <2>7. w - 2^b = m - 3 * 2^b
    <3>1. m - 2 * d - d = m - 3 * d
      <4> HIDE DEF d
      <4> QED
        BY <1>1
    <3> QED
      BY <1>1, <3>1
  <2> HIDE DEF w
  <2>8. w - 2^b \in Byte /\ One(b) \cap AtLeast(b, w - 2^b) = AtLeast(b + 1, w)
    BY <2>4, <2>6, OneBit
  <2> QED
    BY <2>4, <2>7, <2>8
<1> QED
  BY <1>2, <1>3

\* One step of createGERange, if the steps for fewer bits are right.
LEMMA GEStepIs ==
    ASSUME NEW bits \in 0..EncodingBits, NEW m \in Byte, NEW ge,
           \A k \in 0..(bits - 1) : \A x \in Byte : ge[k][x] = AtLeast(k, x)
    PROVE  GEStep(ge, bits, m) = AtLeast(bits, m)
<1> DEFINE pair == bits % 2 = 0
           top == m \div 2^(bits - 2)
<1>1. bits \in Nat /\ EncodingBits \in Nat
  BY ByteBounds
<1>2. CASE bits = 0
  <2>1. \A v \in Byte : v % 2^bits = 0
    BY <1>2, ByteBounds, PowerOfZero
  <2>2. AtLeast(bits, m) = Byte
    BY <2>1 DEF AtLeast
  <2> QED
    BY <1>2, <2>2 DEF GEStep
<1>3. CASE bits # 0 /\ pair /\ top \in {0, 3}
  <2> DEFINE b == bits - 2
  <2>1. b \in Nat /\ b + 1 = bits - 1 /\ b + 2 = bits /\ b \in 0..(bits - 1)
    BY <1>1, <1>3
  <2>2. CASE top = 0
    <3>1. GEStep(ge, bits, m) = (One(b + 1) \cup One(b)) \cup ge[b][m]
      BY <1>3, <2>1, <2>2 DEF GEStep
    <3>2. ge[b][m] = AtLeast(b, m) /\ m \div 2^b = 0
      BY <2>1, <2>2
    <3> HIDE DEF b
    <3> QED
      BY <2>1, <3>1, <3>2, TwoBits
  <2>3. CASE top = 3
    <3>1. GEStep(ge, bits, m) = (One(b + 1) \cap One(b)) \cap ge[b][m - 3 * 2^b]
      BY <1>3, <2>1, <2>3 DEF GEStep
    <3>2. m \div 2^b = 3
      BY <2>3
    <3>3. m - 3 * 2^b \in Byte
      BY <2>1, <3>2, TwoBits
    <3>4. ge[b][m - 3 * 2^b] = AtLeast(b, m - 3 * 2^b)
      BY <2>1, <3>3
    <3> HIDE DEF b
    <3> QED
      BY <2>1, <3>1, <3>2, <3>4, TwoBits
  <2> QED
    BY <1>3, <2>2, <2>3
<1>4. CASE bits # 0 /\ ~ (pair /\ top \in {0, 3})
  <2> DEFINE b == bits - 1
  <2>1. b \in Nat /\ b + 1 = bits /\ b \in 0..(bits - 1)
    BY <1>1, <1>4
  <2>2. CASE BitSet(m, b)
    <3>1. GEStep(ge, bits, m) = One(b) \cap ge[b][m - 2^b]
      BY <1>4, <2>2 DEF GEStep
    <3> HIDE DEF b
    <3>2. m - 2^b \in Byte
      BY <2>1, <2>2, OneBit
    <3>3. ge[b][m - 2^b] = AtLeast(b, m - 2^b)
      BY <2>1, <3>2
    <3> QED
      BY <2>1, <2>2, <3>1, <3>3, OneBit
  <2>3. CASE ~ BitSet(m, b)
    <3>1. GEStep(ge, bits, m) = One(b) \cup ge[b][m]
      BY <1>4, <2>3 DEF GEStep
    <3> HIDE DEF b
    <3>2. ge[b][m] = AtLeast(b, m)
      BY <2>1
    <3> QED
      BY <2>1, <2>3, <3>1, <3>2, OneBit
  <2> QED
    BY <2>2, <2>3
<1> QED
  BY <1>2, <1>3, <1>4

\* createGERange compares the lowest bits of a byte with those of a bound.
LEMMA GERangeIs ==
    ASSUME NEW bits \in 0..EncodingBits, NEW m \in Byte
    PROVE  GERange[bits][m] = AtLeast(bits, m)
<1> DEFINE f == [k \in 0..EncodingBits |-> [x \in Byte |-> AtLeast(k, x)]]
           S == {n_1 \in Nat : \A k \in 0..n_1 :
                     k <= EncodingBits => \A x \in Byte : GERange[k][x] = AtLeast(k, x)}
<1>1. f = [k \in 0..EncodingBits |-> [x \in Byte |-> GEStep(f, k, x)]]
  <2>1. ASSUME NEW k \in 0..EncodingBits, NEW x \in Byte
        PROVE  GEStep(f, k, x) = AtLeast(k, x)
    <3>1. \A j \in 0..(k - 1) : j \in 0..EncodingBits
      BY ByteBounds
    <3>2. \A j \in 0..(k - 1) : \A y \in Byte : f[j][y] = AtLeast(j, y)
      BY <3>1
    <3> HIDE DEF f
    <3> QED
      BY <3>2, GEStepIs
  <2> QED
    BY <2>1
<1> HIDE DEF f
<1>2. \E ge : ge = [k \in 0..EncodingBits |-> [x \in Byte |-> GEStep(ge, k, x)]]
  BY <1>1
<1>3. GERange = [k \in 0..EncodingBits |-> [x \in Byte |-> GEStep(GERange, k, x)]]
  BY <1>2 DEF GERange
<1>4. ASSUME NEW k \in 0..EncodingBits,
             \A j \in 0..(k - 1) : \A x \in Byte : GERange[j][x] = AtLeast(j, x)
      PROVE  \A x \in Byte : GERange[k][x] = AtLeast(k, x)
  <2> TAKE x \in Byte
  <2>1. \A F, G : F = [j \in 0..EncodingBits |-> [y \in Byte |-> GEStep(G, j, y)]]
                    => F[k][x] = GEStep(G, k, x)
    OBVIOUS
  <2>2. GERange[k][x] = GEStep(GERange, k, x)
    BY <1>3, <2>1, Zenon
  <2>3. GEStep(GERange, k, x) = AtLeast(k, x)
    BY <1>4, GEStepIs
  <2> QED
    BY <2>2, <2>3
<1>5. 0 \in S
  <2>1. 0 \in 0..EncodingBits /\ 0..(0 - 1) = {} /\ 0..0 = {0}
    BY ByteBounds
  <2>2. \A x \in Byte : GERange[0][x] = AtLeast(0, x)
    BY <1>4, <2>1
  <2> QED
    BY <2>1, <2>2
<1>6. ASSUME NEW n_1 \in Nat, n_1 \in S
      PROVE  n_1 + 1 \in S
  <2>1. (n_1 + 1) - 1 = n_1 /\ 0..(n_1 + 1) = (0..n_1) \cup {n_1 + 1} /\ n_1 + 1 \in Nat
    OBVIOUS
  <2>2. ASSUME n_1 + 1 <= EncodingBits
        PROVE  \A x \in Byte : GERange[n_1 + 1][x] = AtLeast(n_1 + 1, x)
    <3>1. n_1 + 1 \in 0..EncodingBits /\ \A j \in 0..n_1 : j <= EncodingBits
      BY <2>2, ByteBounds
    <3>2. \A j \in 0..n_1 : \A x \in Byte : GERange[j][x] = AtLeast(j, x)
      BY <1>6, <3>1
    <3> QED
      BY <1>4, <2>1, <3>1, <3>2
  <2> QED
    BY <1>6, <2>1, <2>2
<1> HIDE DEF S
<1>7. Nat \subseteq S
  BY <1>5, <1>6, SetOfNat
<1>8. bits \in S /\ bits \in 0..bits /\ bits <= EncodingBits
  BY <1>7, ByteBounds
<1> QED
  BY <1>8 DEF S

LEMMA SmallerByte ==
    ASSUME NEW m \in Byte, NEW k \in Nat, k <= m
    PROVE  k \in Byte
  BY ByteBounds, Powers DEF Byte

LEMMA LERangeIs ==
    ASSUME NEW bits \in 0..EncodingBits, NEW m \in 0..(2^bits - 1),
           m + 1 = 2^bits \/ m + 1 \in Byte
    PROVE  LERange(bits, m) = {v \in Byte : v % 2^bits <= m}
<1> DEFINE d == 2^bits
           r(x) == x % d
<1>1. bits \in Nat /\ d \in Nat \ {0} /\ m \in Nat /\ m < d
  <2>1. bits \in Nat /\ d \in Nat \ {0}
    BY ByteBounds, Powers
  <2> QED
    BY <2>1
<1>2. \A v \in Byte : r(v) \in Nat /\ r(v) < d
  <2>1. \A v \in Byte : r(v) \in Nat /\ r(v) < d
    BY <1>1, BitOfRemainder
  <2> QED
    BY <2>1
<1>3. CASE m + 1 = 2^bits
  <2>1. \A v \in Byte : r(v) <= m
    <3>1. m + 1 = d
      BY <1>3
    <3> HIDE DEF d, r
    <3> QED
      BY <1>1, <1>2, <3>1
  <2> QED
    BY <1>3, <2>1 DEF LERange
<1>4. CASE m + 1 # 2^bits
  <2>1. m + 1 \in 0..(2^bits - 1) /\ m + 1 \in Byte
    <3>1. m + 1 # d
      BY <1>4
    <3>2. m + 1 \in 0..(d - 1)
      <4> HIDE DEF d
      <4> QED
        BY <1>1, <3>1
    <3> QED
      BY <1>4, <3>2
  <2>2. r(m + 1) = m + 1
    BY <1>1, <2>1, Below
  <2>3. GERange[bits][m + 1] = {v \in Byte : r(v) >= m + 1}
    BY <2>1, <2>2, GERangeIs DEF AtLeast
  <2>4. \A v \in Byte : ~ (r(v) >= m + 1) <=> r(v) <= m
    <3> HIDE DEF d, r
    <3> QED
      BY <1>1, <1>2
  <2>5. LERange(bits, m) = Byte \ GERange[bits][m + 1]
    BY <1>4 DEF LERange
  <2> QED
    BY <2>3, <2>4, <2>5
<1> QED
  BY <1>3, <1>4

LEMMA QuotientsOrdered ==
    ASSUME NEW v \in Nat, NEW w \in Nat, NEW d \in Nat \ {0}, v <= w
    PROVE  v \div d <= w \div d
<1> DEFINE p == v \div d
           q == w \div d
           r == v % d
           s == w % d
<1>1. /\ p \in Nat /\ q \in Nat /\ r \in 0..(d - 1) /\ s \in 0..(d - 1)
      /\ v = p * d + r /\ w = q * d + s
  BY Quotients
<1> HIDE DEF p, q, r, s
<1>2. ASSUME q < p PROVE FALSE
  <2>1. (q + 1) * d <= p * d /\ (q + 1) * d = q * d + d
    BY <1>1, <1>2
  <2>2. p * d \in Nat /\ q * d \in Nat
    BY <1>1
  <2> QED
    BY <1>1, <2>1, <2>2
<1>3. p <= q
  BY <1>1, <1>2
<1> QED
  BY <1>3 DEF p, q

\* A range with a common quotient is one of remainders.
LEMMA RemaindersOrdered ==
    ASSUME NEW v \in Nat, NEW w \in Nat, NEW d \in Nat \ {0}, v \div d = w \div d
    PROVE  v <= w <=> v % d <= w % d
<1> DEFINE q == v \div d
           r == v % d
           s == w % d
<1>1. q \in Nat /\ r \in Nat /\ s \in Nat /\ v = q * d + r /\ w = q * d + s
  BY Quotients
<1> HIDE DEF q, r, s
<1>2. q * d \in Nat
  BY <1>1
<1>3. v <= w <=> r <= s
  BY <1>1, <1>2
<1> QED
  BY <1>3 DEF r, s

\* createRange: the bits the bounds share, and a comparison of the others on
\* either side of the highest bit in which the bounds differ.
LEMMA BetweenIs ==
    ASSUME NEW low \in Byte, NEW high \in Byte, low <= high
    PROVE  Between(low, high) = {v \in Byte : low <= v /\ v <= high}
<1> DEFINE count == DifferingBits(low, high)
<1>1. /\ count \in 0..EncodingBits
      /\ low \div 2^count = high \div 2^count
      /\ \A d \in 0..(count - 1) : low \div 2^d # high \div 2^d
  BY DifferingBitsIs
<1>2. Between(low, high) =
          BitPattern(low, count)
              \cap IF count = 0 THEN Byte
                   ELSE Selection(One(count - 1), LERange(count - 1, high % 2^(count - 1)),
                                  GERange[count - 1][low % 2^(count - 1)])
  BY DEF Between
<1> HIDE DEF count
<1> DEFINE c == 2^count
<1>3. count \in Nat /\ EncodingBits \in Nat /\ low \in Nat /\ high \in Nat /\ c \in Nat \ {0}
  BY <1>1, ByteBounds, Powers
<1>4. BitPattern(low, count) = {v \in Byte : v \div c = low \div c}
  BY <1>1, BitPatternIs
<1>5. ASSUME NEW v \in Byte
      PROVE  (low <= v /\ v <= high)
                 <=> (v \div c = low \div c /\ low % c <= v % c /\ v % c <= high % c)
  <2>1. v \in Nat
    BY ByteBounds
  <2>2. ASSUME low <= v, v <= high
        PROVE  v \div c = low \div c
    <3> DEFINE q(x) == x \div c
    <3>1. q(low) <= q(v) /\ q(v) <= q(high) /\ q(low) = q(high)
      BY <1>1, <1>3, <2>1, <2>2, QuotientsOrdered
    <3>2. q(low) \in Nat /\ q(v) \in Nat
      BY <1>3, <2>1, Quotients
    <3> HIDE DEF q
    <3>3. q(v) = q(low)
      BY <3>1, <3>2
    <3> QED
      BY <3>3 DEF q
  <2>3. ASSUME v \div c = low \div c
        PROVE  /\ low <= v <=> low % c <= v % c
               /\ v <= high <=> v % c <= high % c
    BY <1>1, <1>3, <2>1, <2>3, RemaindersOrdered
  <2> QED
    BY <2>2, <2>3
<1>6. CASE count = 0
  <2>1. \A v \in Byte : v % c = 0
    BY <1>6, ByteBounds, PowerOfZero
  <2>2. \A v \in Byte : (low <= v /\ v <= high) <=> v \div c = low \div c
    BY <1>5, <2>1
  <2>3. Between(low, high) = BitPattern(low, count)
    <3>1. BitPattern(low, count) \subseteq Byte
      BY DEF BitPattern
    <3> QED
      BY <1>2, <1>6, <3>1
  <2> QED
    BY <1>4, <2>2, <2>3
<1>7. CASE count # 0
  <2> DEFINE b == count - 1
             d == 2^b
             r(x) == x % 2^b
             s(x) == x % c
  <2>1. b \in Nat /\ b \in 0..EncodingBits /\ b + 1 = count /\ d \in Nat \ {0} /\ b \in 0..(count - 1)
    <3>1. b \in Nat /\ b \in 0..EncodingBits /\ b + 1 = count /\ b \in 0..(count - 1)
      BY <1>1, <1>3, <1>7
    <3> QED
      BY <3>1, Powers
  <2>2. \A v \in Byte : /\ r(v) \in Nat /\ r(v) < d /\ s(v) \in Nat
                        /\ v \in One(b) => s(v) = r(v) + d
                        /\ v \notin One(b) => s(v) = r(v)
    <3>1. c = 2^(b + 1)
      BY <2>1
    <3> HIDE DEF c, b
    <3> QED
      BY <2>1, <3>1, BitOfRemainder
  <2>3. s(low) <= s(high)
    BY <1>1, <1>3, RemaindersOrdered
  <2>4. ~ (low \in One(b) <=> high \in One(b))
    <3>1. low \div 2^b # high \div 2^b /\ low \div 2^(b + 1) = high \div 2^(b + 1)
      BY <1>1, <2>1
    <3>2. ~ (BitSet(low, b) <=> BitSet(high, b))
      BY <1>3, <2>1, <3>1, SameBits
    <3> QED
      BY <3>2 DEF One
  <2>5. low \notin One(b) /\ high \in One(b)
    <3> HIDE DEF r, s, d, b
    <3> QED
      BY <2>1, <2>2, <2>3, <2>4
  <2>6. /\ s(low) = r(low) /\ s(high) = r(high) + d
        /\ r(low) \in Nat /\ r(low) < d /\ r(high) \in Nat /\ r(high) < d
    BY <2>2, <2>5
  <2>7. s(high) <= high /\ s(low) <= low
    BY <1>3, RemainderAtMost
  <2>8. r(low) \in Byte /\ r(high) \in Byte /\ r(high) + 1 \in Byte
    <3>1. r(low) <= low /\ r(high) <= high /\ r(high) + 1 <= high /\ r(high) + 1 \in Nat
      <4> HIDE DEF r, s, d, b
      <4> QED
        BY <1>3, <2>1, <2>6, <2>7
    <3> QED
      BY <2>6, <3>1, SmallerByte
  <2>9. LERange(b, r(high)) = {v \in Byte : r(v) <= r(high)}
    <3>1. r(high) \in 0..(2^b - 1)
      <4>1. r(high) \in 0..(d - 1)
        <5> HIDE DEF r, d
        <5> QED
          BY <2>1, <2>6
      <4> QED
        BY <4>1
    <3> QED
      BY <2>1, <2>8, <3>1, LERangeIs
  <2>10. GERange[b][r(low)] = {v \in Byte : r(v) >= r(low)}
    <3>1. r(low) \in 0..(2^b - 1)
      <4>1. r(low) \in 0..(d - 1)
        <5> HIDE DEF r, d
        <5> QED
          BY <2>1, <2>6
      <4> QED
        BY <4>1
    <3>2. r(r(low)) = r(low)
      BY <2>1, <3>1, Below
    <3> QED
      BY <2>1, <2>8, <3>2, GERangeIs DEF AtLeast
  <2>11. Between(low, high) = BitPattern(low, count)
             \cap Selection(One(b), LERange(b, r(high)), GERange[b][r(low)])
    BY <1>2, <1>7
  <2> HIDE DEF r, s, d, b
  <2>12. ASSUME NEW v \in Byte
         PROVE  (s(low) <= s(v) /\ s(v) <= s(high))
                    <=> v \in Selection(One(b), LERange(b, r(high)), GERange[b][r(low)])
    <3>1. CASE v \in One(b)
      <4>1. (s(low) <= s(v) /\ s(v) <= s(high)) <=> r(v) <= r(high)
        BY <2>1, <2>2, <2>6, <3>1
      <4> QED
        BY <2>9, <2>10, <3>1, <4>1 DEF Selection
    <3>2. CASE v \notin One(b)
      <4>1. (s(low) <= s(v) /\ s(v) <= s(high)) <=> r(v) >= r(low)
        BY <2>1, <2>2, <2>6, <3>2
      <4> QED
        BY <2>9, <2>10, <3>2, <4>1 DEF Selection
    <3> QED
      BY <3>1, <3>2
  <2>13. \A v \in Byte : (low <= v /\ v <= high)
                             <=> (v \div c = low \div c /\ s(low) <= s(v) /\ s(v) <= s(high))
    BY <1>5 DEF s
  <2> HIDE DEF c
  <2>14. BitPattern(low, count) = {v \in Byte : v \div c = low \div c}
    BY <1>4
  <2> QED
    BY <2>11, <2>12, <2>13, <2>14
<1> QED
  BY <1>6, <1>7

(***************************************************************************)
(* Signed characters.                                                      *)
(***************************************************************************)

\* The highest bit of a byte is its sign.
LEMMA Signs ==
    ASSUME NEW v \in Byte
    PROVE  LET half == 2^(EncodingBits - 1)
           IN  /\ half \in Nat \ {0} /\ 2^EncodingBits = 2 * half
               /\ v \in Nat /\ v < 2 * half
               /\ BitSet(v, EncodingBits - 1) <=> v >= half
               /\ BitSet(v, EncodingBits - 1) => Signed(v) = v - 2 * half
               /\ ~ BitSet(v, EncodingBits - 1) => Signed(v) = v
<1> DEFINE b == EncodingBits - 1
           half == 2^b
           r == v % half
<1>1. b \in Nat /\ b + 1 = EncodingBits /\ v \in Nat
  BY ByteBounds
<1>2. half \in Nat \ {0} /\ 2^EncodingBits = 2 * half
  <2>1. half \in Nat \ {0} /\ 2^(b + 1) = 2 * half
    BY <1>1, Powers
  <2> QED
    BY <1>1, <2>1
<1>3. v % 2^(b + 1) = v
  BY <1>1, ByteQuotient
<1>4. /\ r \in 0..(half - 1)
      /\ BitSet(v, b) => v = r + half
      /\ ~ BitSet(v, b) => v = r
  BY <1>1, <1>3, Bits
<1>5. Signed(v) = IF BitSet(v, b) THEN v - 2 * half ELSE v
  BY <1>2 DEF Signed
<1> HIDE DEF half, r
<1>6. /\ v < 2 * half
      /\ BitSet(v, b) <=> v >= half
  BY <1>2, <1>4
<1>7. /\ half \in Nat \ {0} /\ 2^EncodingBits = 2 * half
      /\ v \in Nat /\ v < 2 * half
      /\ BitSet(v, b) <=> v >= half
      /\ BitSet(v, b) => Signed(v) = v - 2 * half
      /\ ~ BitSet(v, b) => Signed(v) = v
  BY <1>1, <1>2, <1>5, <1>6
<1> QED
  BY <1>7 DEF half

\* Bounds that have a bit in common share their sign, which is then that of
\* the characters between them.
LEMMA SameSign ==
    ASSUME NEW range \in Byte \X Byte, ~ NoCommonBit(range)
    PROVE  BitSet(range[1], EncodingBits - 1) <=> BitSet(range[2], EncodingBits - 1)
<1> DEFINE low == range[1]
           high == range[2]
           c == DifferingBits(low, high)
           b == EncodingBits - 1
<1>1. low \in Byte /\ high \in Byte /\ low \in Nat /\ high \in Nat
  BY ByteBounds
<1>2. c \in 0..EncodingBits /\ low \div 2^c = high \div 2^c /\ c # EncodingBits
  BY <1>1, DifferingBitsIs DEF NoCommonBit
<1>3. c \in Nat /\ b \in Nat /\ c <= b
  <2> HIDE DEF c
  <2> QED
    BY <1>2, ByteBounds
<1> HIDE DEF low, high, c, b
<1>4. low \div 2^b = high \div 2^b
  BY <1>1, <1>2, <1>3, AgreeAbove
<1> QED
  BY <1>4 DEF BitSet, low, high, b

\* Bounds that have none differ in sign.
LEMMA DifferentSigns ==
    ASSUME NEW range \in Byte \X Byte, NoCommonBit(range)
    PROVE  Signed(range[1]) < 0 \/ Signed(range[2]) < 0
<1> DEFINE low == range[1]
           high == range[2]
           b == EncodingBits - 1
           half == 2^b
<1>1. low \in Byte /\ high \in Byte /\ low \in Nat /\ high \in Nat
  BY ByteBounds
<1>2. EncodingBits = DifferingBits(low, high)
  BY DEF NoCommonBit
<1>3. \A d \in 0..(EncodingBits - 1) : low \div 2^d # high \div 2^d
  BY <1>1, <1>2, DifferingBitsIs
<1>4. b \in Nat /\ b \in 0..(EncodingBits - 1) /\ b + 1 = EncodingBits
  BY ByteBounds
<1>5. low \div 2^b # high \div 2^b
  BY <1>3, <1>4
<1>6. low \div 2^(b + 1) = high \div 2^(b + 1)
  BY <1>1, <1>4, ByteQuotient
<1>7. BitSet(low, b) \/ BitSet(high, b)
  BY <1>1, <1>4, <1>5, <1>6, SameBits
<1>8. /\ half \in Nat /\ low < 2 * half /\ high < 2 * half
      /\ BitSet(low, b) => Signed(low) = low - 2 * half
      /\ BitSet(high, b) => Signed(high) = high - 2 * half
  BY <1>1, Signs
<1> HIDE DEF low, high, b, half
<1>9. Signed(low) < 0 \/ Signed(high) < 0
  BY <1>1, <1>7, <1>8
<1> QED
  BY <1>9 DEF low, high

\* A range that goes upwards is compiled to the characters it accepts.
LEMMA SingleOrRangeIs ==
    ASSUME NEW range \in Byte \X Byte, ~ NoCommonBit(range),
           Signed(range[1]) <= Signed(range[2])
    PROVE  SingleOrRange(range) = {c \in Byte : Within(c, range)}
<1> DEFINE low == range[1]
           high == range[2]
           b == EncodingBits - 1
           half == 2^b
<1>1. low \in Byte /\ high \in Byte /\ low \in Nat /\ high \in Nat
  BY ByteBounds
<1>2. BitSet(low, b) <=> BitSet(high, b)
  BY SameSign
<1>3. \A v \in Byte : /\ half \in Nat \ {0} /\ v \in Nat /\ v < 2 * half
                      /\ BitSet(v, b) <=> v >= half
                      /\ BitSet(v, b) => Signed(v) = v - 2 * half
                      /\ ~ BitSet(v, b) => Signed(v) = v
  BY Signs
<1>4. \A c \in Byte : Within(c, range) <=> Signed(low) <= Signed(c) /\ Signed(c) <= Signed(high)
  BY DEF Within
<1>5. SingleOrRange(range) = IF low # high THEN Between(low, high) ELSE BitPattern(low, 0)
  BY DEF SingleOrRange
<1>6. Signed(low) <= Signed(high)
  OBVIOUS
<1> HIDE DEF low, high, b, half
<1>7. low <= high
  BY <1>1, <1>2, <1>3, <1>6
<1>8. \A v \in Byte : Within(v, range) <=> low <= v /\ v <= high
  <2> TAKE v \in Byte
  <2>1. Within(v, range) <=> Signed(low) <= Signed(v) /\ Signed(v) <= Signed(high)
    BY <1>4
  <2>2. /\ v \in Nat /\ v < 2 * half /\ half \in Nat
        /\ BitSet(v, b) <=> v >= half
        /\ BitSet(v, b) => Signed(v) = v - 2 * half
        /\ ~ BitSet(v, b) => Signed(v) = v
    BY <1>3
  <2>3. /\ low < 2 * half
        /\ BitSet(low, b) <=> low >= half
        /\ BitSet(low, b) => Signed(low) = low - 2 * half
        /\ ~ BitSet(low, b) => Signed(low) = low
    BY <1>1, <1>3
  <2>4. /\ high < 2 * half
        /\ BitSet(high, b) <=> high >= half
        /\ BitSet(high, b) => Signed(high) = high - 2 * half
        /\ ~ BitSet(high, b) => Signed(high) = high
    BY <1>1, <1>3
  <2> QED
    BY <1>1, <1>2, <2>1, <2>2, <2>3, <2>4
<1>9. CASE low # high
  BY <1>1, <1>5, <1>7, <1>8, <1>9, BetweenIs
<1>10. CASE low = high
  <2>1. BitPattern(low, 0) = {v \in Byte : v \div 2^0 = low \div 2^0}
    <3>1. 0 \in 0..EncodingBits
      BY ByteBounds
    <3> QED
      BY <1>1, <3>1, BitPatternIs
  <2>2. \A v \in Byte : v \div 2^0 = v
    BY ByteBounds, PowerOfZero
  <2>3. \A v \in Byte : v \div 2^0 = low \div 2^0 <=> low <= v /\ v <= high
    BY <1>1, <1>10, <2>2, ByteBounds
  <2> QED
    BY <1>5, <1>8, <1>10, <2>1, <2>3
<1> QED
  BY <1>9, <1>10

(***************************************************************************)
(* The loop.                                                               *)
(***************************************************************************)

\* The place reached in the pattern, and what has been compiled so far.
Place ==
    /\ cc_list \in Patterns
    /\ i \in Nat \ {0} /\ i <= Len(cc_list) + 1
    /\ n \in Nat
    /\ i <= Len(cc_list) => n <= Len(cc_list[i])
    /\ i > Len(cc_list) => n = 0
    /\ meaning \in SUBSET Byte
    /\ classes \in Seq(SUBSET Byte) /\ Len(classes) = i - 1

\* A compiler that stops does so at a range it cannot compile.
Stopped ==
    pc = "aborted" => i <= Len(cc_list) /\ n < Len(cc_list[i]) /\ NoCommonBit(NextOne)

ClassInv == Place /\ Stopped /\ CompiledIsMatch /\ ClassesAreMatch

LEMMA PatternParts ==
    ASSUME NEW list \in Patterns
    PROVE  /\ Len(list) \in Nat
           /\ \A k \in 1..Len(list) : /\ list[k] \in Seq(Byte \X Byte)
                                      /\ list[k] # <<>> /\ Len(list[k]) \in Nat
                                      /\ Len(list[k]) > 0
<1> DEFINE R == Byte \X Byte
           C == Seq(R) \ {<<>>}
<1>1. list \in Seq(C)
  BY PatternsAssumption
<1> HIDE DEF C, R
<1>2. Len(list) \in Nat /\ \A k \in 1..Len(list) : list[k] \in C
  BY <1>1
<1>3. \A s \in C : s \in Seq(R) /\ s # <<>> /\ Len(s) \in Nat /\ Len(s) > 0
  BY DEF C
<1> QED
  BY <1>2, <1>3 DEF R

\* What the first ranges of a list accept.
LEMMA AcceptedPrefix ==
    ASSUME NEW s \in Seq(Byte \X Byte), NEW m \in 0..Len(s)
    PROVE  /\ Accepted(SubSeq(s, 1, m)) = {c \in Byte : \E k \in 1..m : Within(c, s[k])}
           /\ Ascending(SubSeq(s, 1, m))
                  <=> \A k \in 1..m : Signed(s[k][1]) <= Signed(s[k][2])
<1>1. Len(SubSeq(s, 1, m)) = m /\ \A k \in 1..m : SubSeq(s, 1, m)[k] = s[k]
  OBVIOUS
<1> QED
  BY <1>1, Zenon DEF Accepted, Ascending

\* What a range is compiled to is a set of bytes, whatever its bounds are.
LEMMA SingleOrRangeInByte ==
    ASSUME NEW range
    PROVE  SingleOrRange(range) \subseteq Byte
<1>1. \A p, c : BitPattern(p, c) \subseteq Byte
  BY DEF BitPattern
<1>2. \A low, high : Between(low, high) \subseteq Byte
  BY <1>1 DEF Between
<1> QED
  BY <1>1, <1>2 DEF SingleOrRange

LEMMA ClassInvInit == MeaningInit => ClassInv
<1> SUFFICES ASSUME MeaningInit PROVE ClassInv
  OBVIOUS
<1>1. cc_list \in Patterns /\ i = 1 /\ n = 0 /\ meaning = Byte /\ classes = <<>> /\ pc = "compile"
  BY DEF MeaningInit
<1>2. Len(cc_list) \in Nat /\ \A k \in 1..Len(cc_list) : Len(cc_list[k]) \in Nat
  BY <1>1, PatternParts
<1>3. classes \in Seq(SUBSET Byte) /\ Len(classes) = 0 /\ i - 1 = 0
  BY <1>1
<1>4. Place
  <2>1. i \in Nat \ {0} /\ i <= Len(cc_list) + 1 /\ n \in Nat
    BY <1>1, <1>2
  <2>2. i <= Len(cc_list) => n <= Len(cc_list[i])
    BY <1>1, <1>2
  <2>3. meaning \in SUBSET Byte
    BY <1>1
  <2> QED
    BY <1>1, <1>3, <2>1, <2>2, <2>3 DEF Place
<1>5. Stopped
  BY <1>1 DEF Stopped
<1>6. CompiledIsMatch
  BY <1>1 DEF CompiledIsMatch
<1>7. ClassesAreMatch
  BY <1>3 DEF ClassesAreMatch
<1> QED
  BY <1>4, <1>5, <1>6, <1>7 DEF ClassInv

\* One more range of a class.
LEMMA ClassInvCompileRange == ClassInv /\ CompileRange => ClassInv'
<1> SUFFICES ASSUME ClassInv, CompileRange PROVE ClassInv'
  OBVIOUS
<1> DEFINE s == cc_list[i]
           m == n + 1
           range == s[m]
<1>1. /\ pc = "compile" /\ i <= Len(cc_list) /\ n < Len(s) /\ ~ NoCommonBit(range)
      /\ meaning' = IF n = 0 THEN SingleOrRange(range) ELSE meaning \cup SingleOrRange(range)
      /\ n' = m /\ cc_list' = cc_list /\ i' = i /\ classes' = classes /\ pc' = pc
  BY DEF CompileRange, InClass, NextOne
<1>2. Place /\ CompiledIsMatch /\ ClassesAreMatch
  BY DEF ClassInv
<1>3. /\ cc_list \in Patterns /\ i \in Nat \ {0} /\ n \in Nat /\ Len(cc_list) \in Nat
      /\ i \in 1..Len(cc_list) /\ s \in Seq(Byte \X Byte) /\ Len(s) \in Nat
  <2>1. cc_list \in Patterns /\ i \in Nat \ {0} /\ n \in Nat
    BY <1>2 DEF Place
  <2>2. i \in 1..Len(cc_list) /\ Len(cc_list) \in Nat
    BY <1>1, <2>1, PatternParts
  <2> QED
    BY <2>1, <2>2, PatternParts
<1>4. m \in 0..Len(s) /\ n \in 0..Len(s) /\ m \in 1..Len(s) /\ range \in Byte \X Byte
  <2>1. m \in 0..Len(s) /\ n \in 0..Len(s) /\ m \in 1..Len(s)
    BY <1>1, <1>3
  <2> QED
    BY <1>3, <2>1
<1>5. ASSUME Ascending(SubSeq(s, 1, m))
      PROVE  meaning' = Accepted(SubSeq(s, 1, m))
  <2>1. \A k \in 1..m : Signed(s[k][1]) <= Signed(s[k][2])
    BY <1>3, <1>4, <1>5, AcceptedPrefix
  <2>2. m \in 1..m /\ 1..m = (1..n) \cup {m} /\ \A k \in 1..n : k \in 1..m
    BY <1>3
  <2>3. SingleOrRange(range) = {c \in Byte : Within(c, range)}
    BY <1>1, <1>4, <2>1, <2>2, SingleOrRangeIs
  <2>4. Accepted(SubSeq(s, 1, m)) = {c \in Byte : \E k \in 1..m : Within(c, s[k])}
    BY <1>3, <1>4, AcceptedPrefix
  <2> HIDE DEF m
  <2>5. CASE n = 0
    <3>1. 1..m = {m}
      BY <2>2, <2>5
    <3>2. meaning' = SingleOrRange(range)
      BY <1>1, <2>5
    <3> QED
      BY <2>3, <2>4, <3>1, <3>2
  <2>6. CASE n # 0
    <3>1. Ascending(SubSeq(s, 1, n)) /\ Accepted(SubSeq(s, 1, n))
                                            = {c \in Byte : \E k \in 1..n : Within(c, s[k])}
      BY <1>3, <1>4, <2>1, <2>2, AcceptedPrefix
    <3>2. n > 0
      BY <1>3, <2>6
    <3>3. meaning = Accepted(SubSeq(s, 1, n))
      BY <1>2, <3>1, <3>2 DEF CompiledIsMatch
    <3>4. meaning' = meaning \cup SingleOrRange(range)
      BY <1>1, <2>6
    <3> QED
      BY <2>2, <2>3, <2>4, <3>1, <3>3, <3>4
  <2> QED
    BY <2>5, <2>6
<1>6. Place'
  <2>1. meaning' \in SUBSET Byte
    BY <1>1, <1>2, SingleOrRangeInByte DEF Place
  <2>2. n' \in Nat /\ n' <= Len(s) /\ i' <= Len(cc_list')
    BY <1>1, <1>3, <1>4
  <2>3. cc_list'[i'] = s
    BY <1>1
  <2>4. ~ (i' > Len(cc_list'))
    BY <1>1, <1>3
  <2> HIDE DEF s, m
  <2> QED
    BY <1>1, <1>2, <2>1, <2>2, <2>3, <2>4 DEF Place
<1>7. Stopped'
  BY <1>1 DEF Stopped
<1>8. CompiledIsMatch'
  BY <1>1, <1>5 DEF CompiledIsMatch
<1>9. ClassesAreMatch'
  BY <1>1, <1>2 DEF ClassesAreMatch
<1> QED
  BY <1>6, <1>7, <1>8, <1>9 DEF ClassInv

\* A class is complete.
LEMMA ClassInvFinishClass == ClassInv /\ FinishClass => ClassInv'
<1> SUFFICES ASSUME ClassInv, FinishClass PROVE ClassInv'
  OBVIOUS
<1> DEFINE s == cc_list[i]
<1>1. /\ pc = "compile" /\ i <= Len(cc_list) /\ n = Len(s)
      /\ classes' = Append(classes, meaning) /\ i' = i + 1 /\ n' = 0
      /\ cc_list' = cc_list /\ meaning' = meaning /\ pc' = pc
  BY DEF FinishClass
<1>2. Place /\ CompiledIsMatch /\ ClassesAreMatch
  BY DEF ClassInv
<1>3. /\ cc_list \in Patterns /\ i \in Nat \ {0} /\ meaning \in SUBSET Byte
      /\ classes \in Seq(SUBSET Byte) /\ Len(classes) = i - 1
  BY <1>2 DEF Place
<1>4. i \in 1..Len(cc_list) /\ Len(cc_list) \in Nat
  BY <1>1, <1>3, PatternParts
<1>5. s \in Seq(Byte \X Byte) /\ Len(s) \in Nat /\ Len(s) > 0
  BY <1>3, <1>4, PatternParts
<1>6. SubSeq(s, 1, Len(s)) = s
  BY <1>5
<1>7. Ascending(s) => meaning = Accepted(s)
  BY <1>1, <1>2, <1>5, <1>6 DEF CompiledIsMatch
<1>8. /\ classes' \in Seq(SUBSET Byte) /\ Len(classes') = i
      /\ classes'[i] = meaning
      /\ \A k \in 1..(i - 1) : classes'[k] = classes[k]
  BY <1>1, <1>3
<1>9. Place'
  <2>1. i' \in Nat \ {0} /\ i' <= Len(cc_list) + 1 /\ i = i' - 1
    BY <1>1, <1>3, <1>4
  <2>2. i' <= Len(cc_list) => Len(cc_list[i']) >= 0
    <3>1. i' <= Len(cc_list) => i' \in 1..Len(cc_list)
      BY <1>4, <2>1
    <3> QED
      BY <1>3, <3>1, PatternParts
  <2> QED
    BY <1>1, <1>3, <1>8, <2>1, <2>2 DEF Place
<1>10. Stopped'
  BY <1>1 DEF Stopped
<1>11. CompiledIsMatch'
  BY <1>1 DEF CompiledIsMatch
<1>12. ClassesAreMatch'
  <2>1. ASSUME NEW k \in 1..Len(classes'), Ascending(cc_list[k])
        PROVE  classes'[k] = Accepted(cc_list[k])
    <3>1. CASE k = i
      BY <1>7, <1>8, <2>1, <3>1
    <3>2. CASE k # i
      <4>1. k \in 1..(i - 1) /\ k \in 1..Len(classes)
        BY <1>3, <1>8, <3>2
      <4> QED
        BY <1>2, <1>8, <2>1, <4>1 DEF ClassesAreMatch
    <3> QED
      BY <3>1, <3>2
  <2> QED
    BY <1>1, <2>1 DEF ClassesAreMatch
<1> QED
  BY <1>9, <1>10, <1>11, <1>12 DEF ClassInv

\* The other steps leave what is compiled as it is.
LEMMA ClassInvOther ==
    ClassInv /\ (Abort \/ Finish \/ MeaningTerminated \/ UNCHANGED meaningVars) => ClassInv'
<1> SUFFICES ASSUME ClassInv, Abort \/ Finish \/ MeaningTerminated \/ UNCHANGED meaningVars
             PROVE  ClassInv'
  OBVIOUS
<1>1. /\ cc_list' = cc_list /\ i' = i /\ n' = n /\ meaning' = meaning /\ classes' = classes
      /\ pc' = "aborted" => \/ pc = "aborted"
                            \/ i <= Len(cc_list) /\ n < Len(cc_list[i]) /\ NoCommonBit(NextOne)
  BY DEF Abort, Finish, MeaningTerminated, meaningVars, InClass
<1>2. Place /\ Stopped /\ CompiledIsMatch /\ ClassesAreMatch
  BY DEF ClassInv
<1>3. Place'
  BY <1>1, <1>2 DEF Place
<1>4. Stopped'
  BY <1>1, <1>2 DEF Stopped, NextOne
<1>5. CompiledIsMatch'
  BY <1>1, <1>2 DEF CompiledIsMatch
<1>6. ClassesAreMatch'
  BY <1>1, <1>2 DEF ClassesAreMatch
<1> QED
  BY <1>3, <1>4, <1>5, <1>6 DEF ClassInv

\* The inductive invariant holds throughout.
THEOREM ClassInvariant == MeaningSpec => []ClassInv
<1>1. ClassInv /\ [MeaningNext]_meaningVars => ClassInv'
  BY ClassInvCompileRange, ClassInvFinishClass, ClassInvOther DEF MeaningNext
<1> QED
  BY <1>1, ClassInvInit, PTL DEF MeaningSpec

\* For bytes of any number of bits and for every pattern: what the ranges of a
\* class are compiled to, with the bounds split into bits as CCCompiler does,
\* is what CC::match accepts, if the ranges go upwards.
THEOREM ClassCompiledIsMatch == MeaningSpec => []CompiledIsMatch
  BY ClassInvariant, PTL DEF ClassInv

\* And so is the class word of every item of the pattern.
THEOREM ClassWordsAreMatch == MeaningSpec => []ClassesAreMatch
  BY ClassInvariant, PTL DEF ClassInv

\* The compiler stops only at a range one of whose bounds is a negative char:
\* no pattern of ASCII characters has one.
THEOREM ClassAsciiNeverAborts == MeaningSpec => []AsciiNeverAborts
<1>1. ClassInv => AsciiNeverAborts
  <2> SUFFICES ASSUME ClassInv, pc = "aborted"
               PROVE  Signed(NextOne[1]) < 0 \/ Signed(NextOne[2]) < 0
    BY DEF AsciiNeverAborts
  <2>1. /\ cc_list \in Patterns /\ i \in Nat \ {0} /\ n \in Nat
        /\ i <= Len(cc_list) /\ n < Len(cc_list[i]) /\ NoCommonBit(NextOne)
    BY DEF ClassInv, Place, Stopped
  <2>2. i \in 1..Len(cc_list)
    BY <2>1, PatternParts
  <2>3. cc_list[i] \in Seq(Byte \X Byte) /\ Len(cc_list[i]) \in Nat
    BY <2>1, <2>2, PatternParts
  <2>4. n + 1 \in 1..Len(cc_list[i])
    BY <2>1, <2>3
  <2>5. NextOne \in Byte \X Byte
    BY <2>3, <2>4 DEF NextOne
  <2> QED
    BY <2>1, <2>5, DifferentSigns
<1> QED
  BY <1>1, ClassInvariant, PTL
================================================================================
