---------------------------- MODULE BenchmarkProofs ----------------------------
(***************************************************************************)
(* The four matchers of the benchmark, on every input of whole blocks:     *)
(* std::regex and the automaton count the same matches, and the scanners   *)
(* return them all but the one that ends with the input.                   *)
(***************************************************************************)
EXTENDS Benchmark, ParabixProofs

(***************************************************************************)
(* The matches of the pattern.                                             *)
(***************************************************************************)

\* The matches in the input, as pairs of their first position and the one
\* after them.
Matches == {m \in (0..input_size) \X (0..input_size) : RegexMatch(m[1], m[2])}

\* Those that begin at p or later, and those that end before p.
Later(p) == {m \in Matches : m[1] >= p}
Earlier(p) == {m \in Matches : m[2] <= p}

\* A search that begins at p finds what begins at p or later.
LEMMA SearchFrom ==
    ASSUME input_size \in Nat, NEW p \in 0..input_size
    PROVE  {m \in (p..input_size) \X (p..input_size) : RegexMatch(m[1], m[2])} = Later(p)
<1> DEFINE found == {m \in (p..input_size) \X (p..input_size) : RegexMatch(m[1], m[2])}
<1>1. found \subseteq Later(p)
  BY DEF Later, Matches
<1>2. ASSUME NEW m \in Later(p)
      PROVE  m \in found
  <2>1. /\ m = <<m[1], m[2]>> /\ m[1] \in 0..input_size /\ m[2] \in 0..input_size
        /\ m[1] >= p /\ RegexMatch(m[1], m[2])
    BY DEF Later, Matches
  <2>2. m[1] \in p..input_size /\ m[2] \in p..input_size
    BY <2>1 DEF RegexMatch
  <2> QED
    BY <2>1, <2>2
<1> QED
  BY <1>1, <1>2

LEMMA MatchesFinite ==
    ASSUME input_size \in Nat
    PROVE  /\ IsFiniteSet(Matches)
           /\ \A S \in SUBSET Matches : IsFiniteSet(S) /\ Cardinality(S) \in Nat
<1>1. IsFiniteSet((0..input_size) \X (0..input_size))
  <2> DEFINE D == 0..input_size
  <2>1. IsFiniteSet(D)
    BY FS_Interval
  <2> HIDE DEF D
  <2>2. IsFiniteSet(D \X D)
    BY <2>1, FS_Product
  <2> QED
    BY <2>2 DEF D
<1>2. Matches \in SUBSET ((0..input_size) \X (0..input_size))
  BY DEF Matches
<1>3. IsFiniteSet(Matches)
  BY <1>1, <1>2, FS_Subset
<1> QED
  BY <1>3, FS_Subset, FS_CardinalityType

LEMMA MatchParts ==
    ASSUME input_size \in Nat, NEW m \in Matches
    PROVE  /\ m = <<m[1], m[2]>> /\ m[1] \in 0..input_size /\ m[2] \in 0..input_size
           /\ m[1] + 2 <= m[2]
           /\ mem[m[1]] \in Letter /\ mem[m[2] - 1] \in Last
           /\ \A q \in (m[1] + 1)..(m[2] - 2) : mem[q] \in Digit
  BY DEF Matches, RegexMatch

\* The classes have no byte in common, so matches do not overlap: one that
\* begins later begins where the other has ended, and two that begin or end
\* together are one.
LEMMA MatchesApart ==
    ASSUME input_size \in Nat, NEW m \in Matches, NEW o \in Matches
    PROVE  /\ m[1] = o[1] => m = o
           /\ m[2] = o[2] => m = o
           /\ m[1] < o[1] => m[2] <= o[1]
<1> DEFINE s == m[1]
           e == m[2]
           t == o[1]
           f == o[2]
<1>1. /\ m = <<s, e>> /\ s \in 0..input_size /\ e \in 0..input_size /\ s + 2 <= e
      /\ mem[s] \in Letter /\ mem[e - 1] \in Last
      /\ \A q \in (s + 1)..(e - 2) : mem[q] \in Digit
  BY MatchParts
<1>2. /\ o = <<t, f>> /\ t \in 0..input_size /\ f \in 0..input_size /\ t + 2 <= f
      /\ mem[t] \in Letter /\ mem[f - 1] \in Last
      /\ \A q \in (t + 1)..(f - 2) : mem[q] \in Digit
  BY MatchParts
<1> HIDE DEF s, e, t, f
<1>3. s = t => e = f
  <2>1. ~ (s = t /\ e < f)
    <3> SUFFICES ASSUME s = t, e < f PROVE FALSE
      OBVIOUS
    <3>1. e - 1 \in (t + 1)..(f - 2)
      BY <1>1, <1>2
    <3> QED
      BY <1>1, <1>2, <3>1, DisjointAssumption
  <2>2. ~ (s = t /\ f < e)
    <3> SUFFICES ASSUME s = t, f < e PROVE FALSE
      OBVIOUS
    <3>1. f - 1 \in (s + 1)..(e - 2)
      BY <1>1, <1>2
    <3> QED
      BY <1>1, <1>2, <3>1, DisjointAssumption
  <2> QED
    BY <1>1, <1>2, <2>1, <2>2
<1>4. e = f => s = t
  <2>1. ~ (e = f /\ s < t)
    <3> SUFFICES ASSUME e = f, s < t PROVE FALSE
      OBVIOUS
    <3>1. t \in (s + 1)..(e - 2)
      BY <1>1, <1>2
    <3> QED
      BY <1>1, <1>2, <3>1, DisjointAssumption
  <2>2. ~ (e = f /\ t < s)
    <3> SUFFICES ASSUME e = f, t < s PROVE FALSE
      OBVIOUS
    <3>1. s \in (t + 1)..(f - 2)
      BY <1>1, <1>2
    <3> QED
      BY <1>1, <1>2, <3>1, DisjointAssumption
  <2> QED
    BY <1>1, <1>2, <2>1, <2>2
<1>5. s < t => e <= t
  <2> SUFFICES ASSUME s < t, t < e PROVE FALSE
    BY <1>1, <1>2
  <2>1. t = e - 1 \/ t \in (s + 1)..(e - 2)
    BY <1>1, <1>2
  <2> QED
    BY <1>1, <1>2, <2>1, DisjointAssumption
<1> QED
  BY <1>1, <1>2, <1>3, <1>4, <1>5 DEF s, e, t, f

(***************************************************************************)
(* std::regex.                                                             *)
(***************************************************************************)

\* The leftmost match, and those that begin after its end, are all there is
\* from p on.
LEMMA FirstMatch ==
    ASSUME input_size \in Nat, NEW p \in 0..input_size, Later(p) # {},
           NEW first, first = CHOOSE m \in Later(p) : \A o \in Later(p) : m[1] <= o[1]
    PROVE  /\ first[2] \in 0..input_size /\ first[2] > p
           /\ Cardinality(Later(p)) = 1 + Cardinality(Later(first[2]))
<1>1. \E m \in Later(p) : \A o \in Later(p) : m[1] <= o[1]
  <2> DEFINE S == {m[1] : m \in Later(p)}
  <2>1. S \in SUBSET Nat /\ S # {}
    <3>1. \A m \in Later(p) : m[1] \in Nat
      BY MatchParts DEF Later
    <3>2. PICK m : m \in Later(p)
      OBVIOUS
    <3>3. m[1] \in S
      BY <3>2
    <3> QED
      BY <3>1, <3>3
  <2>2. PICK x \in S : \A y \in S : x <= y
    <3> HIDE DEF S
    <3> QED
      BY <2>1, LeastNumber
  <2> QED
    BY <2>2
<1>2. first \in Later(p) /\ \A o \in Later(p) : first[1] <= o[1]
  BY <1>1
<1>3. first \in Matches /\ first[1] >= p
  BY <1>2 DEF Later
<1>4. first[1] \in 0..input_size /\ first[2] \in 0..input_size /\ first[1] + 2 <= first[2]
  BY <1>3, MatchParts
<1>5. first[2] > p
  BY <1>3, <1>4
<1>6. Later(p) = Later(first[2]) \cup {first}
  <2>1. ASSUME NEW m \in Later(p), m # first
        PROVE  m \in Later(first[2])
    <3>1. m \in Matches /\ m[1] \in 0..input_size /\ first[1] <= m[1]
      BY <1>2, MatchParts DEF Later
    <3>2. first[1] < m[1]
      BY <1>3, <1>4, <2>1, <3>1, MatchesApart
    <3>3. first[2] <= m[1]
      BY <1>3, <3>1, <3>2, MatchesApart
    <3> QED
      BY <1>4, <3>1, <3>3 DEF Later
  <2>2. ASSUME NEW m \in Later(first[2])
        PROVE  m \in Later(p)
    <3>1. m \in Matches /\ m[1] >= first[2] /\ m[1] \in 0..input_size
      BY <2>2, MatchParts DEF Later
    <3>2. m[1] >= p
      BY <1>4, <1>5, <3>1
    <3> QED
      BY <3>1, <3>2 DEF Later
  <2> QED
    BY <1>2, <2>1, <2>2
<1>7. first \notin Later(first[2])
  BY <1>4 DEF Later
<1>8. IsFiniteSet(Later(first[2])) /\ Cardinality(Later(first[2])) \in Nat
  BY MatchesFinite DEF Later
<1>9. Cardinality(Later(first[2]) \cup {first}) = Cardinality(Later(first[2])) + 1
  BY <1>7, <1>8, FS_AddElement
<1> QED
  <2> DEFINE later == Cardinality(Later(first[2]))
  <2>1. Cardinality(Later(p)) = later + 1 /\ later \in Nat
    BY <1>6, <1>8, <1>9
  <2> HIDE DEF later
  <2>2. Cardinality(Later(p)) = 1 + later
    BY <2>1
  <2> QED
    BY <1>4, <1>5, <2>2 DEF later

\* The search counts every match: each search ends with the leftmost one that
\* is left, and no match is lost behind it.
LEMMA RegexCountsMatches ==
    ASSUME input_size \in Nat
    PROVE  RegexCount = Cardinality(Matches)
<1> DEFINE n == input_size
           Found(p) == {m \in (p..input_size) \X (p..input_size) : RegexMatch(m[1], m[2])}
           First(p) == CHOOSE m \in Found(p) : \A o \in Found(p) : m[1] <= o[1]
           Count(f, p) == IF Found(p) = {} THEN 0 ELSE 1 + f[First(p)[2]]
           Runs(f) == f = [p \in 0..input_size |-> Count(f, p)]
           later == [p \in 0..input_size |-> Cardinality(Later(p))]
           from == CHOOSE f : Runs(f)
<1>1. ASSUME NEW p \in 0..n
      PROVE  /\ Found(p) = Later(p)
             /\ Later(p) = {} => Cardinality(Later(p)) = 0
             /\ Later(p) # {} =>
                    /\ First(p)[2] \in 0..n /\ First(p)[2] > p
                    /\ Cardinality(Later(p)) = 1 + Cardinality(Later(First(p)[2]))
  <2>1. Found(p) = Later(p)
    BY SearchFrom
  <2>2. First(p) = CHOOSE m \in Later(p) : \A o \in Later(p) : m[1] <= o[1]
    BY <2>1
  <2>3. Later(p) = {} => Cardinality(Later(p)) = 0
    BY FS_EmptySet
  <2> HIDE DEF Found, First
  <2> QED
    BY <2>1, <2>2, <2>3, FirstMatch
<1> HIDE DEF Found, First
<1>2. ASSUME NEW p \in 0..n
      PROVE  later[p] = Count(later, p)
  BY <1>1
<1>3. Runs(later)
  <2> SUFFICES later = [p \in 0..n |-> Count(later, p)]
    OBVIOUS
  <2> HIDE DEF Count
  <2> QED
    BY <1>2
<1>4. Runs(from)
  <2> HIDE DEF Runs
  <2> QED
    BY <1>3
<1>5. RegexCount = from[0]
  BY DEF RegexCount, Found, First
<1> HIDE DEF from
<1>6. ASSUME NEW p \in 0..n
      PROVE  from[p] = Count(from, p)
  <2> HIDE DEF Count
  <2> QED
    BY <1>4
\* By the distance to the end.
<1> DEFINE S == {d \in Nat : \A p \in 0..n : n - p <= d => from[p] = later[p]}
<1>7. ASSUME NEW p \in 0..n, \A q \in 0..n : q > p => from[q] = later[q]
      PROVE  from[p] = later[p]
  <2>1. Count(from, p) = Count(later, p)
    BY <1>1, <1>7
  <2> HIDE DEF Count, later
  <2> QED
    BY <1>2, <1>6, <2>1
<1> HIDE DEF later
<1>8. 0 \in S
  <2>1. \A p \in 0..n : n - p <= 0 => \A q \in 0..n : ~ (q > p)
    OBVIOUS
  <2> QED
    BY <1>7, <2>1
<1>9. ASSUME NEW d \in Nat, d \in S
      PROVE  d + 1 \in S
  <2>1. ASSUME NEW p \in 0..n, n - p <= d + 1
        PROVE  from[p] = later[p]
    <3>1. \A q \in 0..n : q > p => n - q <= d
      BY <2>1
    <3>2. \A q \in 0..n : q > p => from[q] = later[q]
      BY <1>9, <3>1
    <3> QED
      BY <1>7, <3>2
  <2> QED
    BY <2>1
<1>10. Nat \subseteq S
  <2> HIDE DEF S
  <2> QED
    BY <1>8, <1>9, SetOfNat
<1>11. from[0] = later[0]
  <2>1. n \in S /\ 0 \in 0..n /\ n - 0 <= n
    BY <1>10
  <2> QED
    BY <2>1
<1>12. Later(0) = Matches
  BY MatchParts DEF Later
<1> QED
  BY <1>5, <1>11, <1>12 DEF later

(***************************************************************************)
(* The automaton.                                                          *)
(***************************************************************************)

\* A letter with only digits after it, up to p: a match may end with the next
\* byte.
Begun(p) == \E s \in 0..(p - 1) : mem[s] \in Letter /\ \A q \in (s + 1)..(p - 1) : mem[q] \in Digit

\* One more byte: it begins a match, continues one, or leaves none.
LEMMA BegunStep ==
    ASSUME NEW p \in Nat
    PROVE  Begun(p + 1) <=> mem[p] \in Letter \/ (Begun(p) /\ mem[p] \in Digit)
<1>1. ASSUME Begun(p + 1)
      PROVE  mem[p] \in Letter \/ (Begun(p) /\ mem[p] \in Digit)
  <2>1. PICK s \in 0..p : mem[s] \in Letter /\ \A q \in (s + 1)..p : mem[q] \in Digit
    BY <1>1 DEF Begun
  <2>2. CASE s # p
    <3>1. s \in 0..(p - 1) /\ p \in (s + 1)..p /\ (s + 1)..(p - 1) \subseteq (s + 1)..p
      BY <2>2
    <3> QED
      BY <2>1, <3>1 DEF Begun
  <2> QED
    BY <2>1, <2>2
<1>2. ASSUME mem[p] \in Letter
      PROVE  Begun(p + 1)
  BY <1>2 DEF Begun
<1>3. ASSUME Begun(p), mem[p] \in Digit
      PROVE  Begun(p + 1)
  <2>1. PICK s \in 0..(p - 1) :
            mem[s] \in Letter /\ \A q \in (s + 1)..(p - 1) : mem[q] \in Digit
    BY <1>3 DEF Begun
  <2>2. s \in 0..p /\ \A q \in (s + 1)..p : q = p \/ q \in (s + 1)..(p - 1)
    OBVIOUS
  <2> QED
    BY <1>3, <2>1, <2>2 DEF Begun
<1> QED
  BY <1>1, <1>2, <1>3

\* A match ends with the byte p exactly when one was begun and this is its
\* last byte.
LEMMA MatchEndsAt ==
    ASSUME input_size \in Nat, NEW p \in 0..(input_size - 1)
    PROVE  (\E s \in 0..input_size : RegexMatch(s, p + 1)) <=> Begun(p) /\ mem[p] \in Last
<1>1. (p + 1) - 1 = p /\ (p + 1) - 2 = p - 1
  OBVIOUS
<1>2. \A s \in 0..input_size : s + 2 <= p + 1 <=> s \in 0..(p - 1)
  OBVIOUS
<1>3. \A s \in 0..(p - 1) : s \in 0..input_size
  OBVIOUS
<1> QED
  BY <1>1, <1>2, <1>3 DEF RegexMatch, Begun

\* At most one match ends with each byte.
LEMMA EarlierStep ==
    ASSUME input_size \in Nat, NEW p \in 0..(input_size - 1)
    PROVE  /\ Cardinality(Earlier(p)) \in Nat
           /\ Cardinality(Earlier(p + 1)) =
                  Cardinality(Earlier(p)) +
                      (IF \E s \in 0..input_size : RegexMatch(s, p + 1) THEN 1 ELSE 0)
<1>1. IsFiniteSet(Earlier(p)) /\ Cardinality(Earlier(p)) \in Nat
  BY MatchesFinite DEF Earlier
<1>2. CASE \E s \in 0..input_size : RegexMatch(s, p + 1)
  <2>1. PICK s \in 0..input_size : RegexMatch(s, p + 1)
    BY <1>2
  <2> DEFINE new == <<s, p + 1>>
  <2>2. new \in Matches /\ new[2] = p + 1
    BY <2>1 DEF Matches
  <2> HIDE DEF new
  <2>3. ASSUME NEW m \in Earlier(p + 1), m # new
        PROVE  m \in Earlier(p)
    <3>1. m \in Matches /\ m[2] \in 0..input_size /\ m[2] <= p + 1
      BY <2>3, MatchParts DEF Earlier
    <3>2. m[2] # p + 1
      BY <2>2, <2>3, <3>1, MatchesApart
    <3> QED
      BY <3>1, <3>2 DEF Earlier
  <2>4. ASSUME NEW m \in Earlier(p)
        PROVE  m \in Earlier(p + 1)
    <3>1. m \in Matches /\ m[2] \in 0..input_size /\ m[2] <= p
      BY <2>4, MatchParts DEF Earlier
    <3> QED
      BY <3>1 DEF Earlier
  <2>5. new \in Earlier(p + 1) /\ new \notin Earlier(p)
    BY <2>2 DEF Earlier
  <2>6. Earlier(p + 1) = Earlier(p) \cup {new}
    BY <2>3, <2>4, <2>5
  <2> QED
    BY <1>1, <1>2, <2>5, <2>6, FS_AddElement
<1>3. CASE ~ \E s \in 0..input_size : RegexMatch(s, p + 1)
  <2>1. ASSUME NEW m \in Matches
        PROVE  m[2] <= p + 1 <=> m[2] <= p
    <3>1. m[1] \in 0..input_size /\ m[2] \in 0..input_size /\ RegexMatch(m[1], m[2])
      BY MatchParts DEF Matches
    <3>2. m[2] # p + 1
      BY <1>3, <3>1
    <3> QED
      BY <3>1, <3>2
  <2>2. Earlier(p + 1) = Earlier(p)
    BY <2>1 DEF Earlier
  <2> QED
    BY <1>1, <1>3, <2>2
<1> QED
  BY <1>1, <1>2, <1>3

\* The state the automaton is in after p bytes, and what it has counted.
State(p) == IF Begun(p) THEN (IF mem[p - 1] \in Letter THEN 1 ELSE 2) ELSE 0

\* Its next state is 3 exactly when a match ends with the byte.
LEMMA NextStateStep ==
    ASSUME NEW p \in Nat
    PROVE  /\ State(p) \in 0..2
           /\ LET state == NextState(State(p), mem[p])
              IN  /\ state = 3 <=> Begun(p) /\ mem[p] \in Last
                  /\ state = 3 => State(p + 1) = 0
                  /\ state # 3 => State(p + 1) = state
<1> DEFINE b == mem[p]
           letter == b \in Letter
           digit == b \in Digit
           last == b \in Last
           now == State(p)
           state == NextState(now, b)
<1>1. ~ (letter /\ digit) /\ ~ (letter /\ last) /\ ~ (digit /\ last)
  BY DisjointAssumption
<1>2. now \in 0..2 /\ (now \in 1..2 <=> Begun(p))
  BY DEF State
<1>3. (p + 1) - 1 = p
  OBVIOUS
<1>4. State(p + 1) = IF letter \/ (Begun(p) /\ digit) THEN (IF letter THEN 1 ELSE 2) ELSE 0
  BY <1>3, BegunStep DEF State
<1>5. state = IF letter THEN 1
              ELSE IF digit /\ now \in 1..2 THEN 2
              ELSE IF last /\ now \in 1..2 THEN 3 ELSE 0
  <2> HIDE DEF now, b
  <2>1. CASE letter
    <3>1. ~ digit /\ ~ last
      BY <1>1, <2>1
    <3> QED
      BY <1>2, <2>1, <3>1 DEF NextState
  <2>2. CASE ~ letter /\ digit
    <3>1. ~ last
      BY <1>1, <2>2
    <3> QED
      BY <1>2, <2>2, <3>1 DEF NextState
  <2>3. CASE ~ letter /\ ~ digit
    BY <1>2, <2>3 DEF NextState
  <2> QED
    BY <2>1, <2>2, <2>3
<1> HIDE DEF now, b, letter, digit, last, state
<1>6. /\ state = 3 <=> Begun(p) /\ last
      /\ state = 3 => State(p + 1) = 0
      /\ state # 3 => State(p + 1) = state
  BY <1>1, <1>2, <1>4, <1>5
<1> QED
  BY <1>2, <1>6 DEF now, b, last, state

\* The automaton counts every match: after p bytes, those that have ended.
LEMMA DfaCountsMatches ==
    ASSUME input_size \in Nat
    PROVE  DfaCount = Cardinality(Matches)
<1> DEFINE n == input_size
           Next(s, c, b) == IF NextState(s, b) = 3
                            THEN [state |-> 0, matched |-> c + 1]
                            ELSE [state |-> NextState(s, b), matched |-> c]
           After(f, p) == IF p = 0 THEN [state |-> 0, matched |-> 0]
                          ELSE Next(f[p - 1].state, f[p - 1].matched, mem[p - 1])
           Runs(f) == f = [p \in 0..input_size |-> After(f, p)]
           Ended(p) == [state |-> State(p), matched |-> Cardinality(Earlier(p))]
           ended == [p \in 0..input_size |-> Ended(p)]
           after == CHOOSE f : Runs(f)
<1>1. Ended(0) = [state |-> 0, matched |-> 0]
  <2>1. State(0) = 0
    BY DEF State, Begun
  <2>2. ~ \E m \in Earlier(0) : TRUE
    BY MatchParts DEF Earlier
  <2>3. Cardinality(Earlier(0)) = 0
    BY <2>2, FS_EmptySet
  <2> QED
    BY <2>1, <2>3
<1>2. ASSUME NEW p \in 0..(n - 1)
      PROVE  Ended(p + 1) = Next(Ended(p).state, Ended(p).matched, mem[p])
  <2> DEFINE ends == \E s \in 0..input_size : RegexMatch(s, p + 1)
             c == Cardinality(Earlier(p))
             d == Cardinality(Earlier(p + 1))
             state == NextState(State(p), mem[p])
  <2>1. c \in Nat /\ d = c + (IF ends THEN 1 ELSE 0)
    BY EarlierStep
  <2>2. /\ state = 3 <=> ends
        /\ state = 3 => State(p + 1) = 0
        /\ state # 3 => State(p + 1) = state
    BY MatchEndsAt, NextStateStep
  <2>3. Next(Ended(p).state, Ended(p).matched, mem[p]) =
            IF state = 3 THEN [state |-> 0, matched |-> c + 1] ELSE [state |-> state, matched |-> c]
    OBVIOUS
  <2>4. Ended(p + 1) = [state |-> State(p + 1), matched |-> d]
    OBVIOUS
  <2> HIDE DEF ends, c, d, state, Next, Ended
  <2> QED
    BY <2>1, <2>2, <2>3, <2>4
<1> HIDE DEF Ended, Next
<1>3. ASSUME NEW p \in 0..n
      PROVE  ended[p] = After(ended, p)
  <2>1. CASE p = 0
    BY <1>1, <2>1
  <2>2. CASE p # 0
    <3>1. p - 1 \in 0..(n - 1) /\ (p - 1) + 1 = p /\ p - 1 \in 0..n
      BY <2>2
    <3>2. Ended((p - 1) + 1) = Next(Ended(p - 1).state, Ended(p - 1).matched, mem[p - 1])
      BY <1>2, <3>1
    <3>3. ended[p - 1] = Ended(p - 1) /\ ended[p] = Ended(p)
      BY <3>1
    <3> QED
      BY <2>2, <3>1, <3>2, <3>3
  <2> QED
    BY <2>1, <2>2
<1>4. Runs(ended)
  <2> SUFFICES ended = [p \in 0..n |-> After(ended, p)]
    OBVIOUS
  <2> HIDE DEF After
  <2> QED
    BY <1>3
<1>5. Runs(after)
  <2> HIDE DEF Runs
  <2> QED
    BY <1>4
<1>6. DfaCount = after[n].matched
  BY DEF DfaCount, Next
<1> HIDE DEF after
<1>7. ASSUME NEW p \in 0..n
      PROVE  after[p] = After(after, p)
  <2> HIDE DEF After
  <2> QED
    BY <1>5
<1> DEFINE S == {p \in Nat : p <= n => after[p] = ended[p]}
<1> HIDE DEF ended
<1>8. 0 \in S
  <2>1. after[0] = After(after, 0) /\ ended[0] = After(ended, 0)
    BY <1>3, <1>7
  <2>2. After(after, 0) = After(ended, 0)
    OBVIOUS
  <2> QED
    BY <2>1, <2>2
<1>9. ASSUME NEW p \in Nat, p \in S
      PROVE  p + 1 \in S
  <2>1. ASSUME p + 1 <= n
        PROVE  after[p + 1] = ended[p + 1]
    <3>1. p + 1 \in 0..n /\ (p + 1) - 1 = p /\ p + 1 # 0 /\ after[p] = ended[p]
      BY <1>9, <2>1
    <3>2. After(after, p + 1) = After(ended, p + 1)
      BY <3>1
    <3> HIDE DEF After
    <3> QED
      BY <1>3, <1>7, <3>1, <3>2
  <2> QED
    BY <2>1
<1>10. Nat \subseteq S
  <2> HIDE DEF S
  <2> QED
    BY <1>8, <1>9, SetOfNat
<1>11. after[n] = ended[n]
  BY <1>10
<1>12. Earlier(n) = Matches
  BY MatchParts DEF Earlier
<1>13. ended[n].matched = Cardinality(Earlier(n))
  BY DEF ended, Ended
<1> QED
  BY <1>6, <1>11, <1>12, <1>13

(***************************************************************************)
(* The scanners.                                                           *)
(***************************************************************************)

PatternList == [k \in 0..2 |-> Pattern[k + 1]]

\* What the scanners mean by an end of the pattern is an end of a match.
LEMMA PatternEnd ==
    ASSUME input_size \in Nat, NEW p \in 0..input_size
    PROVE  MatchEnd(PatternList, mem, 3, p) <=> \E s \in 0..input_size : RegexMatch(s, p)
<1> DEFINE list == PatternList
<1>1. /\ list[0].class = Letter /\ list[0].star = FALSE
      /\ list[1].class = Digit /\ list[1].star = TRUE
      /\ list[2].class = Last /\ list[2].star = FALSE
  BY DEF PatternList, Pattern
<1> HIDE DEF list
<1>2. ASSUME MatchEnd(list, mem, 3, p)
      PROVE  \E s \in 0..input_size : RegexMatch(s, p)
  <2>1. PICK cut \in [0..3 -> 0..p] : Covers(list, mem, 3, p, cut)
    BY <1>2 DEF MatchEnd
  <2>2. /\ Segment(list[0], mem, cut[0], cut[0 + 1])
        /\ Segment(list[1], mem, cut[1], cut[1 + 1])
        /\ Segment(list[2], mem, cut[2], cut[2 + 1])
        /\ cut[3] = p
    BY <2>1 DEF Covers
  <2>3. cut[0] \in 0..p /\ cut[1] \in 0..p /\ cut[2] \in 0..p
    OBVIOUS
  <2>4. /\ cut[1] = cut[0] + 1 /\ mem[cut[0]] \in Letter
        /\ cut[1] <= cut[2] /\ \A q \in cut[1]..(cut[2] - 1) : mem[q] \in Digit
        /\ p = cut[2] + 1 /\ mem[cut[2]] \in Last
    BY <1>1, <2>2 DEF Segment
  <2>5. cut[2] = p - 1 /\ cut[2] - 1 = p - 2 /\ cut[0] + 2 <= p
    BY <2>3, <2>4
  <2>6. RegexMatch(cut[0], p)
    BY <2>4, <2>5 DEF RegexMatch
  <2>7. cut[0] \in 0..input_size
    BY <2>3
  <2> QED
    BY <2>6, <2>7
<1>3. ASSUME NEW s \in 0..input_size, RegexMatch(s, p)
      PROVE  MatchEnd(list, mem, 3, p)
  <2> DEFINE cut == [k \in 0..3 |-> IF k = 0 THEN s ELSE IF k = 1 THEN s + 1
                                    ELSE IF k = 2 THEN p - 1 ELSE p]
  <2>1. /\ s + 2 <= p /\ mem[s] \in Letter /\ mem[p - 1] \in Last
        /\ \A q \in (s + 1)..(p - 2) : mem[q] \in Digit
    BY <1>3 DEF RegexMatch
  <2>2. /\ cut[0] = s /\ cut[1] = s + 1 /\ cut[2] = p - 1 /\ cut[3] = p
        /\ cut \in [0..3 -> 0..p]
    BY <2>1
  <2> HIDE DEF cut
  <2>3. \A k \in 0..3 : \A l \in k..3 : cut[k] <= cut[l]
    BY <2>1, <2>2
  <2>4. /\ Segment(list[0], mem, cut[0], cut[1])
        /\ Segment(list[1], mem, cut[1], cut[2])
        /\ Segment(list[2], mem, cut[2], cut[3])
    <3>1. (p - 1) - 1 = p - 2 /\ p = (p - 1) + 1 /\ s + 1 <= p - 1
      BY <2>1
    <3> QED
      BY <1>1, <2>1, <2>2, <3>1 DEF Segment
  <2>5. \A k \in 0..(3 - 1) : Segment(list[k], mem, cut[k], cut[k + 1])
    <3>1. 0 + 1 = 1 /\ 1 + 1 = 2 /\ 2 + 1 = 3 /\ 0..(3 - 1) = {0, 1, 2}
      OBVIOUS
    <3> QED
      BY <2>4, <3>1
  <2> QED
    BY <2>2, <2>3, <2>5 DEF MatchEnd, Covers
<1> QED
  BY <1>2, <1>3 DEF list

\* Before the end of the input there is an end for each match, but for the
\* match that ends with the input.
LEMMA EndsBeforeEnd ==
    ASSUME input_size \in Nat
    PROVE  Cardinality(MatchEnds(PatternList, 3, mem, 0, input_size - 1)) =
               Cardinality(Matches) - (IF MatchAtEnd THEN 1 ELSE 0)
<1> DEFINE n == input_size
           ends == MatchEnds(PatternList, 3, mem, 0, n - 1)
           early == Earlier(n - 1)
           end == [m \in early |-> m[2]]
<1>1. CASE n = 0
  <2>1. ends = {}
    BY <1>1 DEF MatchEnds
  <2>2. Matches = {} /\ MatchAtEnd = FALSE
    BY <1>1 DEF Matches, MatchAtEnd, RegexMatch
  <2> QED
    BY <2>1, <2>2, FS_EmptySet
<1>2. CASE n # 0
  <2>1. n - 1 \in 0..(n - 1) /\ n - 1 \in Nat /\ (n - 1) + 1 = n
    BY <1>2
  <2>2. \A p \in 0..(n - 1) : p \in ends <=> \E s \in 0..input_size : RegexMatch(s, p)
    BY PatternEnd DEF MatchEnds
  <2>3. \A m \in early : m \in Matches /\ m[1] \in 0..n /\ m[2] \in 0..(n - 1) /\ RegexMatch(m[1], m[2])
    <3> SUFFICES ASSUME NEW m \in early
                 PROVE  m \in Matches /\ m[1] \in 0..n /\ m[2] \in 0..(n - 1) /\ RegexMatch(m[1], m[2])
      OBVIOUS
    <3>1. m \in Matches /\ m[2] <= n - 1
      BY DEF Earlier
    <3>2. m[1] \in 0..n /\ m[2] \in 0..n /\ RegexMatch(m[1], m[2])
      BY <3>1 DEF Matches
    <3> QED
      BY <2>1, <3>1, <3>2
  <2>4. end \in [early -> ends]
    BY <2>2, <2>3
  <2>5. \A m, o \in early : end[m] = end[o] => m = o
    BY <2>3, MatchesApart
  <2>6. \A p \in ends : \E m \in early : end[m] = p
    <3> SUFFICES ASSUME NEW p \in ends
                 PROVE  \E m \in early : end[m] = p
      OBVIOUS
    <3>1. p \in 0..(n - 1)
      BY DEF MatchEnds
    <3>2. PICK s \in 0..input_size : RegexMatch(s, p)
      BY <2>2, <3>1
    <3> DEFINE m == <<s, p>>
    <3>3. m \in Matches /\ m[2] = p
      BY <3>1, <3>2 DEF Matches
    <3> HIDE DEF m
    <3>4. m \in early
      BY <3>1, <3>3 DEF Earlier
    <3> QED
      BY <3>3, <3>4
  <2>7. Cardinality(early) = Cardinality(ends)
    <3>1. IsFiniteSet(early)
      BY MatchesFinite DEF Earlier
    <3> HIDE DEF ends, early, end
    <3>2. end \in Bijection(early, ends)
      BY <2>4, <2>5, <2>6 DEF Bijection, Injection, IsInjective, Surjection
    <3> QED
      BY <3>1, <3>2, FS_Bijection DEF ExistsBijection
  <2>8. /\ Cardinality(early) \in Nat
        /\ Cardinality(Earlier(n)) = Cardinality(early) + (IF MatchAtEnd THEN 1 ELSE 0)
    BY <2>1, EarlierStep DEF MatchAtEnd
  <2>9. Earlier(n) = Matches
    BY MatchParts DEF Earlier
  <2> DEFINE all == Cardinality(Matches)
             before == Cardinality(early)
             missed == IF MatchAtEnd THEN 1 ELSE 0
  <2>10. before \in Nat /\ all = before + missed /\ missed \in Nat
    BY <2>8, <2>9
  <2> HIDE DEF all, before, missed, early, ends
  <2>11. before = all - missed
    BY <2>10
  <2> QED
    BY <2>7, <2>11 DEF all, before, missed, ends
<1> QED
  BY <1>1, <1>2

(***************************************************************************)
(* The program.                                                            *)
(***************************************************************************)

\* What the l-th algorithm returns.
Expected(l) ==
    IF l <= 2 THEN Cardinality(Matches)
    ELSE Cardinality(MatchEnds(PatternList, 3, mem, 0, input_size - 1))

\* What the algorithms before the current one have returned.
ResultsExact == \A l \in 1..(j - 1) : results[l] = Expected(l)

\* The scanner that is running finds what it has been called with.
ScannerRuns ==
    control = "call" =>
        /\ j \in 3..4
        /\ j = 3 => CppInv /\ BlockOffset
        /\ j = 4 => LlvmInv /\ LlvmOffset

\* The inductive invariant.
BenchInv ==
    /\ BenchTypeOK
    /\ cc_size = 3
    /\ cc_list = PatternList
    /\ input_size % BlockSize = 0
    /\ ScannerRuns
    /\ ResultsExact

LEMMA ExpectedIsNat ==
    ASSUME input_size \in Nat, NEW l \in Nat
    PROVE  Expected(l) \in Nat
<1>1. Cardinality(Matches) \in Nat
  BY MatchesFinite, FS_CardinalityType
<1>2. Cardinality(MatchEnds(PatternList, 3, mem, 0, input_size - 1)) \in Nat
  <2> DEFINE D == 0..(input_size - 1)
             ends == MatchEnds(PatternList, 3, mem, 0, input_size - 1)
  <2>1. IsFiniteSet(D) /\ ends \in SUBSET D
    BY FS_Interval DEF MatchEnds
  <2> HIDE DEF D, ends
  <2>2. Cardinality(ends) \in Nat
    BY <2>1, FS_Subset, FS_CardinalityType
  <2> QED
    BY <2>2 DEF ends
<1> QED
  BY <1>1, <1>2 DEF Expected

\* Nothing writes to the pattern or to the input.
LEMMA ArgumentsKept ==
    ASSUME [BenchNext]_benchVars
    PROVE  /\ UNCHANGED arguments
           /\ \A l : Expected(l)' = Expected(l)
<1>1. UNCHANGED arguments
  <2>1. CASE CppStep
    BY <2>1 DEF CppStep, EnterBlock, AbortEmptyPattern, AbortOverread, MatchStar, Advance,
                CountBlock, Return
  <2>2. CASE LlvmStep
    BY <2>2 DEF LlvmStep, Compile, CompileThrows, CallRun, RunThrows, RunFragment, Shared,
                AbortOverread, CountBlock, Return
  <2>3. CASE UNCHANGED llvmVars
    BY <2>3 DEF llvmVars, vars
  <2>4. CASE Call
    BY <2>4 DEF Call
  <2> QED
    BY <2>1, <2>2, <2>3, <2>4
       DEF BenchNext, benchVars, StdRegex, Dfa, Scan, Returned, Terminate, Compare, Exited
<1> QED
  BY <1>1 DEF arguments, Expected, Matches, RegexMatch, MatchEnds, MatchEnd, Covers, Segment

\* A call finds its locals fresh.
LEMMA InitInvariants ==
    Init /\ pc \in {"compile", "block"} /\ runFnPtr = FALSE =>
        CppInv /\ BlockOffset /\ LlvmInv /\ LlvmOffset
<1> SUFFICES ASSUME Init, pc \in {"compile", "block"}, runFnPtr = FALSE
             PROVE  CppInv /\ BlockOffset /\ LlvmInv /\ LlvmOffset
  OBVIOUS
<1>1. ScanInv /\ BlockOffset
  BY InitScan, InitOffset
<1>2. BlockLoaded /\ EmptyUnmarked /\ i = 0 /\ pc # "item"
  BY DEF BlockLoaded, EmptyUnmarked, Init
<1> QED
  BY <1>1, <1>2 DEF CppInv, LlvmInv, LlvmOffset

LEMMA FreshCall ==
    (Init /\ pc \in {"compile", "block"} /\ runFnPtr = FALSE)' =>
        (CppInv /\ BlockOffset /\ LlvmInv /\ LlvmOffset)'
  BY InitInvariants, PTL

LEMMA BenchInitial == BenchInit => BenchInv
<1> SUFFICES ASSUME BenchInit PROVE BenchInv
  OBVIOUS
<1> USE DEF BenchInit
<1>1. cc_size = 3 /\ cc_list = PatternList
  BY DEF PatternList
<1>2. TypeOK
  BY <1>1 DEF Init, TypeOK, Arguments, Word
<1>3. BenchTypeOK
  <2>1. results \in Seq(Nat) /\ Len(results) = 0
    OBVIOUS
  <2>2. j \in 1..5 /\ j - 1 = 0
    OBVIOUS
  <2>3. runFnPtr = FALSE
    OBVIOUS
  <2>4. control \in {"main", "call", "terminated", "agreed", "differ"}
    OBVIOUS
  <2> HIDE DEF BenchInit
  <2> QED
    BY <1>2, <2>1, <2>2, <2>3, <2>4 DEF BenchTypeOK
<1>4. ResultsExact /\ ScannerRuns
  BY DEF ResultsExact, ScannerRuns
<1> QED
  BY <1>1, <1>3, <1>4 DEF BenchInv

\* An algorithm that returns what is expected of it keeps the results exact.
LEMMA AppendResult ==
    ASSUME BenchInv, [BenchNext]_benchVars, j \in 1..4,
           results' = Append(results, Expected(j)), j' = j + 1
    PROVE  /\ results' \in Seq(Nat) /\ Len(results') = j' - 1
           /\ ResultsExact'
<1> DEFINE E(l) == Expected(l)
<1>1. results \in Seq(Nat) /\ Len(results) = j - 1 /\ \A l \in 1..(j - 1) : results[l] = E(l)
  BY DEF BenchInv, BenchTypeOK, ResultsExact
<1>2. E(j) \in Nat
  BY ExpectedIsNat DEF BenchInv, BenchTypeOK, TypeOK, Arguments
<1>3. \A l : Expected(l)' = E(l)
  BY ArgumentsKept
<1> HIDE DEF E
<1>4. results' = Append(results, E(j))
  BY DEF E
<1>5. /\ results' \in Seq(Nat) /\ Len(results') = j' - 1
      /\ \A l \in 1..(j' - 1) : results'[l] = E(l)
  BY <1>1, <1>2, <1>4
<1> QED
  BY <1>3, <1>5 DEF ResultsExact

\* The results stay exact while none is added.
LEMMA SameResults ==
    ASSUME BenchInv, [BenchNext]_benchVars, UNCHANGED <<j, results>>
    PROVE  /\ results' \in Seq(Nat) /\ Len(results') = j' - 1
           /\ j' \in 1..5
           /\ ResultsExact'
<1>1. \A l : Expected(l)' = Expected(l)
  BY ArgumentsKept
<1> QED
  BY <1>1 DEF BenchInv, BenchTypeOK, ResultsExact

\* The types of what a scanner keeps, when it does not run.
LEMMA SameFrame ==
    ASSUME BenchInv, UNCHANGED llvmVars
    PROVE  TypeOK' /\ runFnPtr' \in BOOLEAN
  BY DEF BenchInv, BenchTypeOK, TypeOK, Arguments, llvmVars, vars, arguments, words

LEMMA SameArguments ==
    ASSUME BenchInv, [BenchNext]_benchVars
    PROVE  /\ cc_size' = 3
           /\ cc_list' = PatternList
           /\ input_size' % BlockSize = 0
  BY ArgumentsKept DEF BenchInv, arguments, PatternList, Pattern

LEMMA MatcherKeeps == BenchInv /\ (StdRegex \/ Dfa) => BenchInv'
<1> SUFFICES ASSUME BenchInv, StdRegex \/ Dfa PROVE BenchInv'
  OBVIOUS
<1>1. [BenchNext]_benchVars
  BY DEF BenchNext
<1>2. input_size \in Nat
  BY DEF BenchInv, BenchTypeOK, TypeOK, Arguments
<1>3. /\ j \in 1..2 /\ j' = j + 1 /\ control' = "main" /\ UNCHANGED llvmVars
      /\ results' = Append(results, Expected(j))
  BY <1>2, RegexCountsMatches, DfaCountsMatches DEF StdRegex, Dfa, Expected
<1>4. results' \in Seq(Nat) /\ Len(results') = j' - 1 /\ ResultsExact'
  BY <1>1, <1>3, AppendResult
<1>5. BenchTypeOK'
  BY <1>3, <1>4, SameFrame DEF BenchTypeOK
<1>6. ScannerRuns'
  BY <1>3 DEF ScannerRuns
<1> QED
  BY <1>1, <1>4, <1>5, <1>6, SameArguments DEF BenchInv

LEMMA CallKeeps == BenchInv /\ Call => BenchInv'
<1> SUFFICES ASSUME BenchInv, Call PROVE BenchInv'
  OBVIOUS
<1>1. [BenchNext]_benchVars
  BY DEF BenchNext
<1>2. /\ j \in 3..4 /\ UNCHANGED <<j, results, arguments>>
      /\ control' = "call" /\ runFnPtr' = FALSE /\ pc' \in {"compile", "block"}
  BY DEF Call
<1>3. (CppInv /\ BlockOffset /\ LlvmInv /\ LlvmOffset)'
  <2>1. Arguments'
    BY <1>2 DEF BenchInv, BenchTypeOK, TypeOK, Arguments, arguments
  <2>2. (Init /\ pc \in {"compile", "block"} /\ runFnPtr = FALSE)'
    BY <1>2, <2>1 DEF Init, Call, arguments
  <2> QED
    BY <2>2, FreshCall
<1>4. TypeOK'
  BY <1>3 DEF CppInv, ScanInv
<1>5. results' \in Seq(Nat) /\ Len(results') = j' - 1 /\ j' \in 1..5 /\ ResultsExact'
  BY <1>1, <1>2, SameResults
<1>6. BenchTypeOK'
  BY <1>2, <1>4, <1>5 DEF BenchTypeOK
<1>7. ScannerRuns'
  BY <1>2, <1>3 DEF ScannerRuns
<1> QED
  BY <1>1, <1>5, <1>6, <1>7, SameArguments DEF BenchInv

LEMMA ScanKeeps == BenchInv /\ Scan => BenchInv'
<1> SUFFICES ASSUME BenchInv, Scan PROVE BenchInv'
  OBVIOUS
<1>1. [BenchNext]_benchVars
  BY DEF BenchNext
<1>2. control = "call" /\ control' = "call" /\ UNCHANGED <<j, results>>
  BY DEF Scan
<1>3. /\ TypeOK' /\ runFnPtr' \in BOOLEAN
      /\ ScannerRuns'
  <2>1. CASE j = 3
    <3>1. CppStep /\ UNCHANGED runFnPtr
      BY <2>1 DEF Scan
    <3>2. CppInv' /\ BlockOffset'
      BY <1>2, <2>1, <3>1, CppStepInvariant, CppStepOffset DEF BenchInv, ScannerRuns, CppNext
    <3> QED
      BY <1>2, <2>1, <3>1, <3>2 DEF CppInv, ScanInv, ScannerRuns, BenchInv, BenchTypeOK
  <2>2. CASE j = 4
    <3>1. LlvmStep
      BY <2>2 DEF Scan
    <3>2. LlvmInv' /\ LlvmOffset'
      BY <1>2, <2>2, <3>1, LlvmStepInvariant, LlvmStepOffset
         DEF BenchInv, ScannerRuns, LlvmNext
    <3>3. runFnPtr' \in BOOLEAN
      BY <3>1 DEF LlvmStep, Compile, CompileThrows, CallRun, RunThrows, RunFragment, Shared,
                  BenchInv, BenchTypeOK
    <3> QED
      BY <1>2, <2>2, <3>2, <3>3 DEF LlvmInv, ScanInv, ScannerRuns
  <2> QED
    BY <2>1, <2>2 DEF Scan
<1>4. results' \in Seq(Nat) /\ Len(results') = j' - 1 /\ j' \in 1..5 /\ ResultsExact'
  BY <1>1, <1>2, SameResults
<1>5. BenchTypeOK'
  BY <1>2, <1>3, <1>4 DEF BenchTypeOK
<1> QED
  BY <1>1, <1>3, <1>4, <1>5, SameArguments DEF BenchInv

\* A scanner returns what is expected of it.
LEMMA ReturnedKeeps == BenchInv /\ Returned => BenchInv'
<1> SUFFICES ASSUME BenchInv, Returned PROVE BenchInv'
  OBVIOUS
<1>1. [BenchNext]_benchVars
  BY DEF BenchNext
<1>2. /\ j \in 3..4 /\ pc = "done" /\ j' = j + 1 /\ control' = "main" /\ UNCHANGED llvmVars
      /\ results' = Append(results, matched)
  BY DEF Returned, BenchInv, ScannerRuns
<1>3. TypeOK /\ BlockOffset /\ CountExact
  BY <1>2 DEF Returned, BenchInv, ScannerRuns, CppInv, LlvmInv, LlvmOffset, ScanInv
<1>4. cc_size = 3 /\ cc_list = PatternList /\ ~ cc_list[0].star
  BY DEF BenchInv, PatternList, Pattern
<1>5. matched = Cardinality(MatchEnds(cc_list, cc_size, mem, 0, input_size - 1))
  <2>1. cc_size > 0 /\ input_size % BlockSize = 0
    BY <1>4 DEF BenchInv
  <2> QED
    BY <1>2, <1>3, <1>4, <2>1, ResultExact
<1>6. matched = Expected(j)
  BY <1>2, <1>4, <1>5 DEF Expected
<1>7. results' \in Seq(Nat) /\ Len(results') = j' - 1 /\ ResultsExact'
  BY <1>1, <1>2, <1>6, AppendResult
<1>8. BenchTypeOK'
  BY <1>2, <1>7, SameFrame DEF BenchTypeOK
<1>9. ScannerRuns'
  BY <1>2 DEF ScannerRuns
<1> QED
  BY <1>1, <1>7, <1>8, <1>9, SameArguments DEF BenchInv

LEMMA EndKeeps == BenchInv /\ (Terminate \/ Compare \/ Exited \/ UNCHANGED benchVars) => BenchInv'
<1> SUFFICES ASSUME BenchInv, Terminate \/ Compare \/ Exited \/ UNCHANGED benchVars
             PROVE  BenchInv'
  OBVIOUS
<1>1. [BenchNext]_benchVars
  BY DEF BenchNext
<1>2. /\ UNCHANGED <<llvmVars, j, results>>
      /\ control' \in {"terminated", "agreed", "differ"} \/ control' = control
  BY DEF Terminate, Compare, Exited, benchVars
<1>3. results' \in Seq(Nat) /\ Len(results') = j' - 1 /\ j' \in 1..5 /\ ResultsExact'
  BY <1>1, <1>2, SameResults
<1>4. BenchTypeOK'
  BY <1>2, <1>3, SameFrame DEF BenchTypeOK, BenchInv
<1>5. ScannerRuns'
  <2>1. CASE control' # "call"
    BY <2>1 DEF ScannerRuns
  <2>2. CASE control' = "call"
    <3>1. control = "call" /\ j' = j /\ UNCHANGED vars /\ UNCHANGED llvmVars
      BY <1>2, <2>2 DEF llvmVars
    <3>2. j = 3 => CppInv' /\ BlockOffset'
      BY <3>1, CppStepInvariant, CppStepOffset DEF BenchInv, ScannerRuns
    <3>3. j = 4 => LlvmInv' /\ LlvmOffset'
      BY <3>1, LlvmStepInvariant, LlvmStepOffset DEF BenchInv, ScannerRuns
    <3> QED
      BY <3>1, <3>2, <3>3 DEF BenchInv, ScannerRuns
  <2> QED
    BY <2>1, <2>2
<1> QED
  BY <1>1, <1>3, <1>4, <1>5, SameArguments DEF BenchInv

LEMMA BenchStep == BenchInv /\ [BenchNext]_benchVars => BenchInv'
  BY MatcherKeeps, CallKeeps, ScanKeeps, ReturnedKeeps, EndKeeps DEF BenchNext

\* The four counts are what is expected of them in every state of every run
\* of the benchmark, and each scanner is called on fresh words.
THEOREM BenchmarkInvariant == BenchSpec => []BenchInv
  BY BenchInitial, BenchStep, PTL DEF BenchSpec

\* Every variable of the benchmark always has its type.
THEOREM BenchmarkTypeOK == BenchSpec => []BenchTypeOK
<1>1. BenchInv => BenchTypeOK
  BY DEF BenchInv
<1> QED
  BY <1>1, BenchmarkInvariant, PTL

\* The automaton counts what std::regex counts, on every input.
THEOREM BenchmarkDfaIsRegex == BenchSpec => []DfaIsRegex
<1>1. BenchInv => DfaIsRegex
  BY DEF BenchInv, BenchTypeOK, ResultsExact, Expected, DfaIsRegex
<1> QED
  BY <1>1, BenchmarkInvariant, PTL

\* On whole blocks the scanners return every match but the one that ends with
\* the input.
THEOREM BenchmarkOnlyMatchAtEndMissed == BenchSpec => []OnlyMatchAtEndMissed
<1>1. BenchInv => OnlyMatchAtEndMissed
  <2> SUFFICES ASSUME BenchInv, NEW l \in 3..Len(results)
               PROVE  results[l] = results[1] - (IF MatchAtEnd THEN 1 ELSE 0)
    BY DEF OnlyMatchAtEndMissed
  <2>1. input_size \in Nat /\ Len(results) = j - 1 /\ j \in 1..5
    BY DEF BenchInv, BenchTypeOK, TypeOK, Arguments
  <2>2. 1 \in 1..(j - 1) /\ l \in 1..(j - 1) /\ ~ (l <= 2)
    BY <2>1
  <2>3. results[1] = Expected(1) /\ results[l] = Expected(l)
    BY <2>2 DEF BenchInv, ResultsExact
  <2> QED
    BY <2>1, <2>2, <2>3, EndsBeforeEnd DEF Expected
<1> QED
  BY <1>1, BenchmarkInvariant, PTL
================================================================================
