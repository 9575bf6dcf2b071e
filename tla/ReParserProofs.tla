---------------------------- MODULE ReParserProofs ----------------------------
(***************************************************************************)
(* The parser on every text: the cursor stays in it, the list is the text  *)
(* item by item, and no text of the grammar is refused.                    *)
(***************************************************************************)
EXTENDS ReParser, TLAPS

(***************************************************************************)
(* Texts of the grammar.                                                   *)
(***************************************************************************)

\* The text p..q-1 is one item without its star, or a star.
Unit(p, q) ==
    /\ p <= Len(input)
    /\ \/ input[p] # Open /\ q = p + 1
       \/ \E e \in p..Len(input) : Bracketed(p, e) /\ q = e + 1

\* From p to its end, the text is units, the n of which begin at the cuts.
UnitsTo(n, p, cut) ==
    /\ cut[0] = p
    /\ cut[n] = Len(input) + 1
    /\ \A k \in 0..(n - 1) : Unit(cut[k], cut[k + 1])

Units(p) == \E n \in Nat : \E cut \in [0..n -> 1..(Len(input) + 1)] : UnitsTo(n, p, cut)

\* What the grammar asks of a text from p on, when Rest says it of the
\* positions after p.
Grammar(Rest, p) ==
    \/ p > Len(input)
    \/ input[p] # Open /\ Rest[p + 1]
    \/ \E q \in p..Len(input) : Bracketed(p, q) /\ Rest[q + 1]

\* A text is units exactly when it begins with one and the rest is units.
LEMMA UnitsStep ==
    ASSUME Len(input) \in Nat, NEW p \in 1..(Len(input) + 1)
    PROVE  Units(p) <=> \/ p > Len(input)
                        \/ \E q \in 1..(Len(input) + 1) : Unit(p, q) /\ Units(q)
<1> DEFINE End == Len(input) + 1
<1>1. ASSUME p > Len(input)
      PROVE  Units(p)
  <2> DEFINE cut == [k \in 0..0 |-> p]
  <2>1. p = End /\ cut \in [0..0 -> 1..End]
    BY <1>1
  <2>2. UnitsTo(0, p, cut)
    BY <2>1 DEF UnitsTo
  <2> QED
    BY <2>1, <2>2 DEF Units
<1>2. ASSUME NEW q \in 1..End, Unit(p, q), Units(q)
      PROVE  Units(p)
  <2>1. PICK n \in Nat : \E cut \in [0..n -> 1..End] : UnitsTo(n, q, cut)
    BY <1>2 DEF Units
  <2>0. PICK cut \in [0..n -> 1..End] : UnitsTo(n, q, cut)
    BY <2>1
  <2> DEFINE longer == [k \in 0..(n + 1) |-> IF k = 0 THEN p ELSE cut[k - 1]]
  <2>2. /\ longer \in [0..(n + 1) -> 1..End]
        /\ longer[0] = p /\ \A k \in 0..n : longer[k + 1] = cut[k]
    OBVIOUS
  <2> HIDE DEF longer
  <2>3. cut[0] = q /\ cut[n] = End /\ \A k \in 0..(n - 1) : Unit(cut[k], cut[k + 1])
    BY <2>0 DEF UnitsTo
  <2>4. ASSUME NEW k \in 0..n
        PROVE  Unit(longer[k], longer[k + 1])
    <3>1. CASE k = 0
      BY <1>2, <2>2, <2>3, <3>1
    <3>2. CASE k # 0
      <4>1. k - 1 \in 0..(n - 1) /\ (k - 1) + 1 = k /\ k - 1 \in 0..n
        BY <3>2
      <4>2. longer[(k - 1) + 1] = cut[k - 1] /\ longer[k + 1] = cut[k]
        BY <2>2, <4>1
      <4>3. Unit(cut[k - 1], cut[(k - 1) + 1])
        BY <2>3, <4>1
      <4> QED
        BY <4>1, <4>2, <4>3
    <3> QED
      BY <3>1, <3>2
  <2>5. UnitsTo(n + 1, p, longer)
    <3>1. (n + 1) - 1 = n /\ longer[n + 1] = End
      BY <2>2, <2>3
    <3> QED
      BY <2>2, <2>4, <3>1 DEF UnitsTo
  <2> DEFINE m == n + 1
  <2>6. m \in Nat
    OBVIOUS
  <2>7. longer \in [0..m -> 1..(Len(input) + 1)] /\ UnitsTo(m, p, longer)
    BY <2>2, <2>5
  <2> HIDE DEF m
  <2> QED
    BY <2>6, <2>7 DEF Units
<1>3. ASSUME Units(p), p <= Len(input)
      PROVE  \E q \in 1..End : Unit(p, q) /\ Units(q)
  <2>1. PICK n \in Nat : \E cut \in [0..n -> 1..End] : UnitsTo(n, p, cut)
    BY <1>3 DEF Units
  <2>0. PICK cut \in [0..n -> 1..End] : UnitsTo(n, p, cut)
    BY <2>1
  <2>2. cut[0] = p /\ cut[n] = End /\ \A k \in 0..(n - 1) : Unit(cut[k], cut[k + 1])
    BY <2>0 DEF UnitsTo
  <2>3. n > 0
    BY <1>3, <2>2
  <2> DEFINE shorter == [k \in 0..(n - 1) |-> cut[k + 1]]
  <2>4. /\ shorter \in [0..(n - 1) -> 1..End] /\ n - 1 \in Nat
        /\ \A k \in 0..(n - 1) : shorter[k] = cut[k + 1]
    BY <2>3
  <2> HIDE DEF shorter
  <2>5. UnitsTo(n - 1, cut[1], shorter)
    <3>1. shorter[0] = cut[1] /\ shorter[n - 1] = End
      BY <2>2, <2>3, <2>4
    <3>2. ASSUME NEW k \in 0..((n - 1) - 1)
          PROVE  Unit(shorter[k], shorter[k + 1])
      <4>1. k + 1 \in 0..(n - 1) /\ k \in 0..(n - 1)
        OBVIOUS
      <4> QED
        BY <2>2, <2>4, <4>1
    <3> QED
      BY <3>1, <3>2 DEF UnitsTo
  <2>6. Unit(cut[0], cut[0 + 1]) /\ cut[1] \in 1..End
    BY <2>2, <2>3
  <2> DEFINE m == n - 1
  <2>7. m \in Nat
    BY <2>4
  <2>8. shorter \in [0..m -> 1..(Len(input) + 1)] /\ UnitsTo(m, cut[1], shorter)
    BY <2>4, <2>5
  <2> HIDE DEF m
  <2>9. Units(cut[1])
    BY <2>7, <2>8 DEF Units
  <2> QED
    BY <2>2, <2>6, <2>9
<1> QED
  BY <1>1, <1>2, <1>3

\* The grammar's definition has a solution, so it is one.
LEMMA WellFormedFromStep ==
    ASSUME Len(input) \in Nat, NEW p \in 1..(Len(input) + 1)
    PROVE  WellFormedFrom[p] <=> Grammar(WellFormedFrom, p)
<1> DEFINE Runs(f) == f = [s \in 1..(Len(input) + 1) |-> Grammar(f, s)]
           units == [s \in 1..(Len(input) + 1) |-> Units(s)]
<1>1. ASSUME NEW s \in 1..(Len(input) + 1)
      PROVE  units[s] = Grammar(units, s)
  <2>1. units[s] = Units(s) /\ \A q \in 1..(Len(input) + 1) : units[q] = Units(q)
    OBVIOUS
  <2>2. Units(s) <=> \/ s > Len(input)
                     \/ \E q \in 1..(Len(input) + 1) : Unit(s, q) /\ Units(q)
    BY UnitsStep
  <2> HIDE DEF units
  <2>3. (\E q \in 1..(Len(input) + 1) : Unit(s, q) /\ units[q]) <=>
            /\ s <= Len(input)
            /\ \/ input[s] # Open /\ units[s + 1]
               \/ \E q \in s..Len(input) : Bracketed(s, q) /\ units[q + 1]
    <3>1. s <= Len(input) => s + 1 \in 1..(Len(input) + 1)
      OBVIOUS
    <3>2. \A q \in s..Len(input) : q + 1 \in 1..(Len(input) + 1) /\ s <= Len(input)
      OBVIOUS
    <3> QED
      BY <3>1, <3>2 DEF Unit
  <2> DEFINE left == Units(s)
             right == Grammar(units, s)
  <2>4. left <=> right
    BY <2>1, <2>2, <2>3 DEF Grammar
  <2>5. left \in BOOLEAN /\ right \in BOOLEAN
    BY DEF Units, Grammar
  <2>6. units[s] = left
    BY <2>1
  <2> HIDE DEF left, right
  <2>7. left = right
    BY <2>4, <2>5
  <2> QED
    BY <2>6, <2>7 DEF right
<1>2. Runs(units)
  <2> SUFFICES units = [s \in 1..(Len(input) + 1) |-> Grammar(units, s)]
    OBVIOUS
  <2> QED
    BY <1>1
<1>3. WellFormedFrom = CHOOSE f : Runs(f)
  BY DEF WellFormedFrom, Grammar
<1>4. Runs(WellFormedFrom)
  <2> HIDE DEF Runs
  <2> QED
    BY <1>2, <1>3
<1> QED
  BY <1>4

(***************************************************************************)
(* A class between brackets, turn by turn of the loop that reads it: a     *)
(* turn takes the three characters of one range.                           *)
(***************************************************************************)

Turns(p, n) == p + 1 + 3 * n

LEMMA Thirds ==
    ASSUME NEW d \in Nat
    PROVE  /\ d % 3 = 1 <=> \E n \in Nat : d = 3 * n + 1
           /\ d % 3 = 2 <=> \E n \in Nat : d = 3 * n + 2
<1>1. /\ d \div 3 \in Nat /\ d % 3 \in 0..2
      /\ d = 3 * (d \div 3) + (d % 3)
  OBVIOUS
<1>2. \A n \in Nat : (3 * n + 1) % 3 = 1 /\ (3 * n + 2) % 3 = 2
  OBVIOUS
<1> QED
  BY <1>1, <1>2

LEMMA BracketedTurns ==
    ASSUME NEW p \in Nat, NEW q \in Nat
    PROVE  Bracketed(p, q) <=>
               \E n \in Nat \ {0} :
                   /\ q = Turns(p, n) /\ q <= Len(input)
                   /\ input[p] = Open /\ input[q] = Close
                   /\ \A m \in 1..n : input[p + 3 * m - 1] = Dash
                   /\ \A m \in 1..(n - 1) : input[Turns(p, m)] # Close
<1> DEFINE Between == \A m \in (p + 1)..(q - 1) :
                          /\ (m - p) % 3 = 1 => m = p + 1 \/ input[m] # Close
                          /\ (m - p) % 3 = 2 => input[m] = Dash
<1>1. Bracketed(p, q) <=>
          /\ q <= Len(input)
          /\ input[p] = Open /\ input[q] = Close
          /\ q - p >= 4 /\ (q - p) % 3 = 1
          /\ Between
  <2>1. \A m \in (p + 1)..(q - 1) : (m - p) % 3 = 1 => (m - p) % 3 # 2
    OBVIOUS
  <2> QED
    BY <2>1 DEF Bracketed
<1>2. q - p >= 4 /\ (q - p) % 3 = 1 <=> \E n \in Nat \ {0} : q = Turns(p, n)
  <2>1. q - p >= 4 => q - p \in Nat
    OBVIOUS
  <2> QED
    BY <2>1, Thirds DEF Turns
<1>3. ASSUME NEW n \in Nat \ {0}, q = Turns(p, n)
      PROVE  Between <=> /\ \A m \in 1..n : input[p + 3 * m - 1] = Dash
                         /\ \A m \in 1..(n - 1) : input[Turns(p, m)] # Close
  <2>1. ASSUME Between, NEW m \in 1..n
        PROVE  input[p + 3 * m - 1] = Dash
    <3> DEFINE d == 3 * (m - 1) + 2
    <3>1. d \in Nat /\ d % 3 = 2 /\ m - 1 \in Nat
      BY Thirds
    <3>2. p + d \in (p + 1)..(q - 1) /\ (p + d) - p = d /\ p + d = p + 3 * m - 1
      BY <1>3 DEF Turns
    <3> HIDE DEF d
    <3> QED
      BY <2>1, <3>1, <3>2
  <2>2. ASSUME Between, NEW m \in 1..(n - 1)
        PROVE  input[Turns(p, m)] # Close
    <3> DEFINE d == 3 * m + 1
    <3>1. d \in Nat /\ d % 3 = 1
      BY Thirds
    <3>2. p + d \in (p + 1)..(q - 1) /\ (p + d) - p = d /\ p + d = Turns(p, m) /\ p + d # p + 1
      BY <1>3 DEF Turns
    <3> HIDE DEF d
    <3> QED
      BY <2>2, <3>1, <3>2
  <2>3. ASSUME \A m \in 1..n : input[p + 3 * m - 1] = Dash,
               \A m \in 1..(n - 1) : input[Turns(p, m)] # Close,
               NEW x \in (p + 1)..(q - 1)
        PROVE  /\ (x - p) % 3 = 1 => x = p + 1 \/ input[x] # Close
               /\ (x - p) % 3 = 2 => input[x] = Dash
    <3>1. x - p \in Nat
      OBVIOUS
    <3>2. ASSUME (x - p) % 3 = 1, x # p + 1
          PROVE  input[x] # Close
      <4>1. PICK m \in Nat : x - p = 3 * m + 1
        BY <3>1, <3>2, Thirds
      <4>2. m \in 1..(n - 1) /\ x = Turns(p, m)
        BY <1>3, <3>2, <4>1 DEF Turns
      <4> QED
        BY <2>3, <4>2
    <3>3. ASSUME (x - p) % 3 = 2
          PROVE  input[x] = Dash
      <4>1. PICK m \in Nat : x - p = 3 * m + 2
        BY <3>1, <3>3, Thirds
      <4>2. m + 1 \in 1..n /\ x = p + 3 * (m + 1) - 1
        BY <1>3, <4>1 DEF Turns
      <4> QED
        BY <2>3, <4>2
    <3> QED
      BY <3>2, <3>3
  <2> QED
    BY <2>1, <2>2, <2>3
<1> HIDE DEF Between
<1> QED
  BY <1>1, <1>2, <1>3

(***************************************************************************)
(* The inductive invariant.                                                *)
(***************************************************************************)

Bound == Char \cup {NulChar}
Ranges == Seq(Bound \X Bound)
Items == [ranges : Ranges, star : BOOLEAN]

\* The list is the text before p, item by item; and if the text is one of
\* the grammar, so is the rest of it.
Parsed(p) ==
    /\ p \in 1..(Len(input) + 1)
    /\ \E cut \in [0..Len(cc_list) -> 1..(Len(input) + 1)] :
           /\ cut[0] = 1 /\ cut[Len(cc_list)] = p
           /\ \A k \in 1..Len(cc_list) : ItemText(cut[k - 1], cut[k], cc_list[k])
    /\ WellFormedFrom[1] => WellFormedFrom[p]

\* The bracket that begins the class being read, when every turn so far has
\* found its three characters.
Bracket == pos - 1 - 3 * Len(result)

\* The first n turns have read a range each, and the first k of them have not
\* met the end of the class.
Read(p, n, k) ==
    /\ p <= Len(input) /\ input[p] = Open
    /\ \A m \in 1..n :
           input[p + 3 * m - 1] = Dash /\ result[m] = <<input[p + 3 * m - 2], input[p + 3 * m]>>
    /\ \A m \in 1..k : ~ Match(Turns(p, m), Close)

InClass == Parsed(Bracket) /\ Read(Bracket, Len(result), Len(result))

\* A turn has met the end of the text where its last character should be:
\* no class ends there.
OutOfText == pos = Len(input) + 1 /\ ~ WellFormedFrom[1]

ReaderInv ==
    /\ TypeOK
    /\ cc_list \in Seq(Items)
    /\ result \in Ranges
    /\ pc \in {"idle", "parse"} => Parsed(pos)
    /\ pc = "idle" => pos = Len(input) + 1
    /\ pc = "range" => InClass \/ OutOfText
    /\ pc = "closed" =>
           /\ Parsed(Bracket)
           /\ Len(result) > 0 /\ Match(pos, Close)
           /\ Read(Bracket, Len(result), Len(result) - 1)
    /\ pc = "aborted" => ~ WellFormedFrom[1]

LEMMA TextIsSequence ==
    ASSUME TypeOK
    PROVE  input \in Seq(Char) /\ Len(input) \in Nat /\ pos \in 1..(Len(input) + 1)
<1>1. input \in Seq(Char)
  <2>1. CASE input \in Pattern
    BY <2>1, PatternAssumption
  <2>2. CASE input = <<>>
    BY <2>2
  <2> QED
    BY <2>1, <2>2 DEF TypeOK
<1> QED
  BY <1>1 DEF TypeOK

\* What is said of a text stays said of it.
LEMMA SameText ==
    ASSUME input' = input
    PROVE  /\ \A p, q, c : ItemText(p, q, c)' <=> ItemText(p, q, c)
           /\ WellFormedFrom' = WellFormedFrom
  BY DEF ItemText, Bracketed, Match, Eof, WellFormedFrom

\* The text s..e is the item of these ranges, but for its star.
Unstarred(s, e, ranges) ==
    \/ input[s] # Open /\ e = s /\ ranges = << <<input[s], input[s]>> >>
    \/ /\ Bracketed(s, e)
       /\ ranges = [n \in 1..((e - s - 1) \div 3) |->
                        <<input[s + 3 * n - 2], input[s + 3 * n]>>]

\* An item is added with the star that follows it.
LEMMA AddItemParsed ==
    ASSUME TypeOK, cc_list \in Seq(Items), UNCHANGED input,
           NEW s \in 1..Len(input), Parsed(s),
           NEW e \in s..Len(input), NEW p, p = e + 1,
           NEW ranges \in Ranges, Len(ranges) > 0, Unstarred(s, e, ranges),
           AddItem(ranges, p),
           WellFormedFrom[1] => WellFormedFrom[p]
    PROVE  /\ pos' \in 1..(Len(input') + 1)
           /\ cc_list' \in Seq(Items)
           /\ \A k \in 1..Len(cc_list') :
                  cc_list'[k].star \in BOOLEAN /\ Len(cc_list'[k].ranges) > 0
           /\ Parsed(pos)'
<1> DEFINE n == Len(cc_list)
           star == Match(p, Asterisk)
           new == CC(ranges, star)
           End == Len(input) + 1
<1>1. Len(input) \in Nat /\ input \in Seq(Char)
  BY TextIsSequence
<1>2. n \in Nat /\ new \in Items /\ new.ranges = ranges /\ new.star = star
  BY DEF CC, Items, Match
<1>3. cc_list' = Append(cc_list, new)
  BY DEF AddItem
<1>4. pos' = IF star THEN p + 1 ELSE p
  BY <1>1 DEF AddItem, Forward, Match, Eof
<1>5. star => p <= Len(input) /\ input[p] = Asterisk
  BY <1>1 DEF Match, Eof
<1>6. pos' \in (s + 1)..End
  BY <1>1, <1>4, <1>5
<1>7. ItemText(s, pos', new)
  <2> DEFINE last == IF star THEN pos' - 2 ELSE pos' - 1
  <2>1. last = e /\ last + 1 = p /\ s <= last
    BY <1>1, <1>4, <1>6
  <2> HIDE DEF last
  <2>2. \/ input[s] # Open /\ last = s /\ ranges = << <<input[s], input[s]>> >>
        \/ /\ Bracketed(s, last)
           /\ ranges = [m \in 1..((last - s - 1) \div 3) |->
                            <<input[s + 3 * m - 2], input[s + 3 * m]>>]
    BY <2>1 DEF Unstarred
  <2>3. IF star THEN Match(last + 1, Asterisk) ELSE ~ Match(pos', Asterisk)
    BY <1>4, <2>1
  <2>4. last = IF new.star THEN pos' - 2 ELSE pos' - 1
    BY <1>2 DEF last
  <2> HIDE DEF star, new
  <2> QED
    BY <1>2, <2>1, <2>2, <2>3, <2>4 DEF ItemText
<1>8. WellFormedFrom[1] => WellFormedFrom[pos']
  <2>1. CASE star
    <3>1. p \in 1..End /\ ~ (p > Len(input)) /\ input[p] # Open
      BY <1>1, <1>5, <2>1, CharAssumption
    <3>2. WellFormedFrom[p] <=> WellFormedFrom[p + 1]
      BY <1>1, <3>1, WellFormedFromStep DEF Grammar, Bracketed
    <3> QED
      BY <1>4, <2>1, <3>2
  <2>2. CASE ~ star
    BY <1>4, <2>2
  <2> QED
    BY <2>1, <2>2
<1> HIDE DEF new, star
<1>9. /\ cc_list' \in Seq(Items) /\ Len(cc_list') = n + 1
      /\ \A k \in 1..n : cc_list'[k] = cc_list[k]
      /\ cc_list'[n + 1] = new
  BY <1>2, <1>3
<1>10. \A k \in 1..Len(cc_list') :
           cc_list'[k].star \in BOOLEAN /\ Len(cc_list'[k].ranges) > 0
  <2>1. new.star \in BOOLEAN /\ Len(new.ranges) > 0
    BY <1>2 DEF Items
  <2>2. \A k \in 1..n : cc_list[k].star \in BOOLEAN /\ Len(cc_list[k].ranges) > 0
    BY DEF TypeOK
  <2> QED
    BY <1>2, <1>9, <2>1, <2>2
<1>11. PICK cut \in [0..n -> 1..End] :
           /\ cut[0] = 1 /\ cut[n] = s
           /\ \A k \in 1..n : ItemText(cut[k - 1], cut[k], cc_list[k])
  BY DEF Parsed
<1> DEFINE longer == [k \in 0..(n + 1) |-> IF k = n + 1 THEN pos' ELSE cut[k]]
<1>12. /\ longer \in [0..(n + 1) -> 1..End]
       /\ longer[n + 1] = pos' /\ \A k \in 0..n : longer[k] = cut[k]
  BY <1>2, <1>6
<1> HIDE DEF longer, n
<1>13. ASSUME NEW k \in 1..(n + 1)
       PROVE  ItemText(longer[k - 1], longer[k], cc_list'[k])
  <2>1. CASE k = n + 1
    <3>1. k - 1 = n /\ n \in 0..n
      BY <1>2, <2>1
    <3>2. longer[k - 1] = s /\ longer[k] = pos' /\ cc_list'[k] = new
      BY <1>9, <1>11, <1>12, <2>1, <3>1
    <3> QED
      BY <1>7, <3>2
  <2>2. CASE k # n + 1
    <3>1. k \in 1..n /\ k - 1 \in 0..n /\ k \in 0..n
      BY <1>2, <2>2
    <3> QED
      BY <1>9, <1>11, <1>12, <3>1
  <2> QED
    BY <2>1, <2>2
<1>14. longer[0] = 1
  BY <1>2, <1>11, <1>12
<1>15. Parsed(pos)'
  <2>1. \E c \in [0..Len(cc_list') -> 1..(Len(input') + 1)] :
            /\ c[0] = 1 /\ c[Len(cc_list')] = pos'
            /\ \A k \in 1..Len(cc_list') : ItemText(c[k - 1], c[k], cc_list[k])'
    BY <1>9, <1>12, <1>13, <1>14, SameText
  <2>2. WellFormedFrom'[1] => WellFormedFrom'[pos']
    BY <1>8, SameText
  <2>3. pos' \in 1..(Len(input') + 1)
    BY <1>6
  <2> QED
    BY <2>1, <2>2, <2>3 DEF Parsed
<1> QED
  BY <1>6, <1>9, <1>10, <1>15

LEMMA ReaderInit == Init => ReaderInv
<1> SUFFICES ASSUME Init PROVE ReaderInv
  OBVIOUS
<1> USE DEF Init
<1>1. Len(input) = 0 /\ Len(cc_list) = 0 /\ pos = 1
  OBVIOUS
<1>2. cc_list \in Seq(Items) /\ result \in Ranges
  BY DEF Ranges
<1>3. Parsed(1)
  <2> DEFINE cut == [k \in 0..0 |-> 1]
  <2>1. cut \in [0..Len(cc_list) -> 1..(Len(input) + 1)] /\ cut[0] = 1 /\ cut[Len(cc_list)] = 1
    BY <1>1
  <2>2. \A k \in 1..Len(cc_list) : FALSE
    BY <1>1
  <2> HIDE DEF cut
  <2> QED
    BY <1>1, <2>1, <2>2 DEF Parsed
<1>4. TypeOK
  BY <1>1 DEF TypeOK
<1> QED
  BY <1>1, <1>2, <1>3, <1>4 DEF ReaderInv

LEMMA ParseKeeps == ReaderInv /\ Parse => ReaderInv'
<1> SUFFICES ASSUME ReaderInv, Parse PROVE ReaderInv'
  OBVIOUS
<1>1. /\ input' \in Pattern /\ pos' = 1 /\ cc_list' = <<>> /\ pc' = "parse" /\ result' = result
      /\ Len(input') \in Nat
  BY PatternAssumption DEF Parse
<1>2. Len(cc_list') = 0 /\ cc_list' \in Seq(Items)
  BY <1>1
<1>3. Parsed(pos)'
  <2> DEFINE cut == [k \in 0..0 |-> 1]
  <2>1. cut \in [0..Len(cc_list') -> 1..(Len(input') + 1)] /\ cut[0] = 1 /\ cut[Len(cc_list')] = pos'
    BY <1>1, <1>2
  <2>2. \A k \in 1..Len(cc_list') : FALSE
    BY <1>2
  <2>3. pos' \in 1..(Len(input') + 1)
    BY <1>1
  <2> HIDE DEF cut
  <2> QED
    BY <1>1, <2>1, <2>2, <2>3 DEF Parsed
<1>4. TypeOK'
  BY <1>1, <1>2 DEF TypeOK
<1> QED
  BY <1>1, <1>2, <1>3, <1>4 DEF ReaderInv

LEMMA SingleCharacterKeeps == ReaderInv /\ SingleCharacter => ReaderInv'
<1> SUFFICES ASSUME ReaderInv, SingleCharacter PROVE ReaderInv'
  OBVIOUS
<1>1. /\ input \in Seq(Char) /\ Len(input) \in Nat
      /\ pos \in 1..Len(input) /\ input[pos] # Open /\ input[pos] \in Bound
  BY TextIsSequence DEF ReaderInv, SingleCharacter, Eof, Match, Bound
<1> DEFINE ranges == << <<input[pos], input[pos]>> >>
<1>2. /\ pc = "parse" /\ pc' = "parse" /\ input' = input /\ result' = result
      /\ AddItem(ranges, pos + 1)
  BY <1>1 DEF SingleCharacter, At, Eof, Forward
<1>3. Parsed(pos) /\ TypeOK /\ cc_list \in Seq(Items) /\ result \in Ranges
  BY <1>2 DEF ReaderInv
<1>4. ranges \in Ranges /\ Len(ranges) > 0 /\ Unstarred(pos, pos, ranges)
  BY <1>1 DEF Ranges, Unstarred
<1>5. WellFormedFrom[1] => WellFormedFrom[pos + 1]
  <2>1. WellFormedFrom[pos] <=> WellFormedFrom[pos + 1]
    BY <1>1, WellFormedFromStep DEF Grammar, Bracketed
  <2> QED
    BY <1>3, <2>1 DEF Parsed
<1> HIDE DEF ranges
<1>6. /\ pos' \in 1..(Len(input') + 1)
      /\ cc_list' \in Seq(Items)
      /\ \A k \in 1..Len(cc_list') :
             cc_list'[k].star \in BOOLEAN /\ Len(cc_list'[k].ranges) > 0
      /\ Parsed(pos)'
  <2>1. pos \in pos..Len(input)
    BY <1>1
  <2> QED
    BY <1>1, <1>2, <1>3, <1>4, <1>5, <2>1, AddItemParsed
<1>7. TypeOK'
  BY <1>2, <1>3, <1>6 DEF TypeOK
<1> QED
  BY <1>2, <1>3, <1>6, <1>7 DEF ReaderInv

LEMMA StartRangeKeeps == ReaderInv /\ StartRange => ReaderInv'
<1> SUFFICES ASSUME ReaderInv, StartRange PROVE ReaderInv'
  OBVIOUS
<1>1. /\ input \in Seq(Char) /\ Len(input) \in Nat
      /\ pos \in 1..Len(input) /\ input[pos] = Open
  BY TextIsSequence DEF ReaderInv, StartRange, Eof, Match
<1>2. /\ pc = "parse" /\ pc' = "range" /\ input' = input /\ cc_list' = cc_list
      /\ result' = <<>> /\ pos' = pos + 1
  BY <1>1 DEF StartRange, Eof, Forward
<1>3. Parsed(pos) /\ TypeOK /\ cc_list \in Seq(Items)
  BY <1>2 DEF ReaderInv
<1>4. TypeOK'
  BY <1>1, <1>2, <1>3 DEF TypeOK
<1>5. InClass'
  <2>1. Len(result') = 0 /\ Bracket' = pos
    BY <1>1, <1>2 DEF Bracket
  <2>2. Parsed(Bracket)'
    BY <1>2, <1>3, <2>1, SameText DEF Parsed
  <2>3. Read(Bracket, Len(result), Len(result))'
    BY <1>1, <1>2, <2>1 DEF Read
  <2> QED
    BY <2>2, <2>3 DEF InClass
<1>6. result' \in Ranges
  BY <1>2 DEF Ranges
<1> QED
  BY <1>2, <1>3, <1>4, <1>5, <1>6 DEF ReaderInv

\* A text of the grammar goes on for a whole turn where no turn has met the
\* end of the class.
LEMMA ClassGoesOn ==
    ASSUME Len(input) \in Nat, NEW s, Parsed(s), NEW n \in Nat, Read(s, n, n),
           WellFormedFrom[1]
    PROVE  Turns(s, n) + 3 <= Len(input) /\ input[Turns(s, n) + 1] = Dash
<1>1. s \in 1..Len(input) /\ input[s] = Open /\ WellFormedFrom[s]
  BY DEF Parsed, Read
<1>2. PICK q \in s..Len(input) : Bracketed(s, q)
  BY <1>1, WellFormedFromStep DEF Grammar
<1>3. PICK m \in Nat \ {0} :
          /\ q = Turns(s, m) /\ input[q] = Close
          /\ \A l \in 1..m : input[s + 3 * l - 1] = Dash
  <2>1. s \in Nat /\ q \in Nat
    BY <1>1
  <2>2. \E m \in Nat \ {0} :
            /\ q = Turns(s, m) /\ q <= Len(input)
            /\ input[s] = Open /\ input[q] = Close
            /\ \A l \in 1..m : input[s + 3 * l - 1] = Dash
            /\ \A l \in 1..(m - 1) : input[Turns(s, l)] # Close
    BY <1>2, <2>1, BracketedTurns
  <2> QED
    BY <2>2
<1>4. ~ (m <= n)
  <2> SUFFICES ASSUME m <= n PROVE FALSE
    OBVIOUS
  <2>1. ~ Match(q, Close)
    BY <1>3 DEF Read
  <2> QED
    BY <1>1, <1>2, <1>3, <2>1 DEF Match, Eof
<1>5. n + 1 \in 1..m /\ s + 3 * (n + 1) - 1 = Turns(s, n) + 1 /\ Turns(s, n) + 3 <= q
  BY <1>1, <1>3, <1>4 DEF Turns
<1>6. Turns(s, n) \in Nat /\ q \in Nat /\ q <= Len(input)
  BY <1>1 DEF Turns
<1>7. input[s + 3 * (n + 1) - 1] = Dash
  BY <1>3, <1>5
<1> QED
  BY <1>5, <1>6, <1>7

LEMMA BracketTurns ==
    ASSUME ReaderInv
    PROVE  /\ Len(result) \in Nat /\ result \in Seq(Bound \X Bound)
           /\ Bracket \in Int /\ pos = Turns(Bracket, Len(result))
<1>1. Len(result) \in Nat /\ result \in Seq(Bound \X Bound)
  BY DEF ReaderInv, Ranges
<1>2. pos \in Int
  BY TextIsSequence DEF ReaderInv
<1> QED
  BY <1>1, <1>2 DEF Bracket, Turns

LEMMA ParseRangeKeeps == ReaderInv /\ ParseRange => ReaderInv'
<1> SUFFICES ASSUME ReaderInv, ParseRange PROVE ReaderInv'
  OBVIOUS
<1> DEFINE n == Len(result)
           b == Bracket
           high == pos + 2
           range == <<At(pos), At(high)>>
<1>1. /\ input \in Seq(Char) /\ Len(input) \in Nat /\ pos \in 1..(Len(input) + 1)
      /\ TypeOK /\ cc_list \in Seq(Items) /\ result \in Seq(Bound \X Bound)
      /\ n \in Nat /\ b \in Int /\ pos = Turns(b, n)
  BY TextIsSequence, BracketTurns DEF ReaderInv
<1>2. pos + 1 <= Len(input) /\ input[pos + 1] = Dash /\ pos \in 1..Len(input)
  BY <1>1 DEF ParseRange, Match, Forward, Eof
<1>3. Forward(Forward(pos)) = high
  BY <1>1, <1>2 DEF Forward, Eof
<1>4. /\ pc = "range" /\ UNCHANGED <<input, cc_list>>
      /\ result' = Append(result, range)
      /\ pos' = Forward(high)
      /\ pc' = IF Match(pos', Close) THEN "closed" ELSE "range"
  BY <1>3 DEF ParseRange, ToHighBound
<1>5. InClass
  BY <1>1, <1>2, <1>4 DEF ReaderInv, OutOfText
<1>6. Parsed(b) /\ Read(b, n, n)
  BY <1>5 DEF InClass
<1>7. range \in Bound \X Bound /\ range[1] = input[pos] /\ range[2] = At(high)
  <2>1. input[pos] \in Char /\ At(pos) = input[pos]
    BY <1>1, <1>2 DEF At, Eof
  <2>2. At(high) \in Bound
    BY <1>1, <1>2 DEF At, Eof, Bound
  <2> QED
    BY <2>1, <2>2 DEF Bound
<1> HIDE DEF range, b, n
<1>8. /\ result' \in Ranges /\ Len(result') = n + 1
      /\ \A m \in 1..n : result'[m] = result[m]
      /\ result'[n + 1] = range
  BY <1>1, <1>4, <1>7 DEF n, Ranges
<1>9. CASE high > Len(input)
  <2>1. high = Len(input) + 1 /\ pos' = Len(input) + 1 /\ pc' = "range"
    BY <1>1, <1>2, <1>4, <1>9 DEF Forward, Eof, Match
  <2>2. ~ WellFormedFrom[1]
    BY <1>1, <1>2, <1>6, <1>9, ClassGoesOn
  <2>3. OutOfText'
    BY <1>4, <2>1, <2>2, SameText DEF OutOfText
  <2>4. TypeOK'
    BY <1>1, <1>4, <2>1 DEF TypeOK
  <2> QED
    BY <1>1, <1>4, <1>8, <2>1, <2>3, <2>4 DEF ReaderInv
<1>10. CASE high <= Len(input)
  <2>1. pos' = pos + 3 /\ pos' \in 1..(Len(input) + 1) /\ At(high) = input[high]
    BY <1>1, <1>2, <1>4, <1>10 DEF Forward, Eof, At
  <2>2. Bracket' = b /\ pos' = Turns(b, n + 1)
    BY <1>1, <1>8, <2>1 DEF Bracket, Turns
  <2>3. TypeOK'
    BY <1>1, <1>4, <2>1 DEF TypeOK
  <2>4. Parsed(Bracket)'
    BY <1>4, <1>6, <2>2, SameText DEF Parsed
  <2>5. \A m \in 1..(n + 1) :
            input[b + 3 * m - 1] = Dash /\
            result'[m] = <<input[b + 3 * m - 2], input[b + 3 * m]>>
    <3>1. ASSUME NEW m \in 1..n
          PROVE  input[b + 3 * m - 1] = Dash /\
                 result'[m] = <<input[b + 3 * m - 2], input[b + 3 * m]>>
      BY <1>6, <1>8 DEF Read
    <3>2. /\ b + 3 * (n + 1) - 1 = pos + 1 /\ b + 3 * (n + 1) - 2 = pos
          /\ b + 3 * (n + 1) = high
      BY <1>1 DEF Turns
    <3>3. range = <<input[pos], input[high]>>
      BY <1>7, <2>1 DEF range
    <3>4. \A m \in 1..(n + 1) : m \in 1..n \/ m = n + 1
      BY <1>1
    <3> QED
      BY <1>2, <1>8, <3>1, <3>2, <3>3, <3>4
  <2>6. b <= Len(input) /\ input[b] = Open
    BY <1>6 DEF Read
  <2>7. \A m \in 1..n : ~ Match(Turns(b, m), Close)
    BY <1>6 DEF Read
  <2>8. CASE Match(pos', Close)
    <3>1. pc' = "closed" /\ Match(pos, Close)'
      BY <1>4, <2>8 DEF Match, Eof
    <3>2. Len(result') = n + 1 /\ Len(result') - 1 = n
      BY <1>1, <1>8
    <3>3. Read(Bracket, Len(result), Len(result) - 1)'
      BY <1>4, <2>2, <2>5, <2>6, <2>7, <3>2 DEF Read, Match, Eof
    <3> QED
      BY <1>1, <1>4, <1>8, <2>3, <2>4, <3>1, <3>2, <3>3 DEF ReaderInv
  <2>9. CASE ~ Match(pos', Close)
    <3>1. pc' = "range"
      BY <1>4, <2>9
    <3>2. \A m \in 1..(n + 1) : ~ Match(Turns(b, m), Close)
      <4>1. \A m \in 1..(n + 1) : m \in 1..n \/ m = n + 1
        BY <1>1
      <4> QED
        BY <2>2, <2>7, <2>9, <4>1
    <3>3. Read(Bracket, Len(result), Len(result))'
      BY <1>4, <1>8, <2>2, <2>5, <2>6, <3>2 DEF Read, Match, Eof
    <3>4. InClass'
      BY <2>4, <3>3 DEF InClass
    <3> QED
      BY <1>1, <1>4, <1>8, <2>3, <3>1, <3>4 DEF ReaderInv
  <2> QED
    BY <2>8, <2>9
<1> QED
  BY <1>1, <1>9, <1>10

\* A failed assertion means that the class has no end.
LEMMA AssertFailsKeeps == ReaderInv /\ AssertFails => ReaderInv'
<1> SUFFICES ASSUME ReaderInv, AssertFails PROVE ReaderInv'
  OBVIOUS
<1> DEFINE n == Len(result)
           b == Bracket
<1>1. /\ Len(input) \in Nat /\ pos \in 1..(Len(input) + 1) /\ TypeOK
      /\ n \in Nat /\ b \in Int /\ pos = Turns(b, n)
  BY TextIsSequence, BracketTurns DEF ReaderInv
<1>2. /\ pc = "range" /\ pc' = "aborted" /\ UNCHANGED <<input, pos, cc_list, result>>
      /\ ~ Match(Forward(pos), Dash)
  BY DEF AssertFails
<1>3. ~ WellFormedFrom[1]
  <2>1. CASE InClass
    <3>1. Parsed(b) /\ Read(b, n, n)
      BY <2>1 DEF InClass
    <3>2. ~ (pos + 3 <= Len(input) /\ input[pos + 1] = Dash)
      BY <1>1, <1>2 DEF Match, Forward, Eof
    <3> HIDE DEF b, n
    <3> QED
      BY <1>1, <3>1, <3>2, ClassGoesOn
  <2>2. CASE OutOfText
    BY <2>2 DEF OutOfText
  <2> QED
    BY <1>2, <2>1, <2>2 DEF ReaderInv
<1>4. TypeOK'
  BY <1>1, <1>2 DEF TypeOK
<1> QED
  BY <1>2, <1>3, <1>4, SameText DEF ReaderInv

LEMMA EndRangeKeeps == ReaderInv /\ EndRange => ReaderInv'
<1> SUFFICES ASSUME ReaderInv, EndRange PROVE ReaderInv'
  OBVIOUS
<1> DEFINE n == Len(result)
           b == Bracket
<1>1. /\ input \in Seq(Char) /\ Len(input) \in Nat /\ pos \in 1..(Len(input) + 1) /\ TypeOK
      /\ cc_list \in Seq(Items) /\ result \in Ranges /\ result \in Seq(Bound \X Bound)
      /\ n \in Nat /\ b \in Int /\ pos = Turns(b, n)
  BY TextIsSequence, BracketTurns DEF ReaderInv
<1>2. /\ pc = "closed" /\ pc' = "parse" /\ UNCHANGED <<input, result>>
      /\ AddItem(result, Forward(pos))
  BY DEF EndRange
<1>3. Parsed(b) /\ n > 0 /\ Match(pos, Close) /\ Read(b, n, n - 1)
  BY <1>2 DEF ReaderInv
<1> HIDE DEF b, n
<1>4. /\ pos \in 1..Len(input) /\ input[pos] = Close /\ Forward(pos) = pos + 1
      /\ b \in 1..Len(input) /\ b < pos /\ input[b] = Open
  <2>1. ~ Eof(pos) /\ input[pos] = Close
    BY <1>3 DEF Match
  <2>2. b \in 1..(Len(input) + 1) /\ b <= Len(input) /\ input[b] = Open
    BY <1>3 DEF Parsed, Read
  <2> QED
    BY <1>1, <1>3, <2>1, <2>2 DEF Forward, Eof, Turns
<1>5. /\ \A m \in 1..n : input[b + 3 * m - 1] = Dash
      /\ \A m \in 1..n : result[m] = <<input[b + 3 * m - 2], input[b + 3 * m]>>
      /\ \A m \in 1..(n - 1) : ~ Match(Turns(b, m), Close)
  BY <1>3 DEF Read
<1>6. \A m \in 1..(n - 1) : input[Turns(b, m)] # Close
  <2> SUFFICES ASSUME NEW m \in 1..(n - 1)
               PROVE  input[Turns(b, m)] # Close
    OBVIOUS
  <2>1. Turns(b, m) <= pos /\ Turns(b, m) \in Int
    BY <1>1, <1>4 DEF Turns
  <2>2. ~ Eof(Turns(b, m))
    BY <1>1, <1>4, <2>1 DEF Eof
  <2>3. ~ Match(Turns(b, m), Close)
    BY <1>5
  <2> QED
    BY <2>2, <2>3 DEF Match
<1>7. Bracketed(b, pos)
  <2>1. b \in Nat /\ pos \in Nat /\ n \in Nat \ {0}
    BY <1>1, <1>3, <1>4
  <2>2. /\ pos = Turns(b, n) /\ pos <= Len(input)
        /\ input[b] = Open /\ input[pos] = Close
        /\ \A m \in 1..n : input[b + 3 * m - 1] = Dash
        /\ \A m \in 1..(n - 1) : input[Turns(b, m)] # Close
    BY <1>1, <1>4, <1>5, <1>6
  <2> QED
    BY <2>1, <2>2, BracketedTurns
<1>8. Unstarred(b, pos, result)
  <2>1. pos - b - 1 = 3 * n /\ (3 * n) \div 3 = n
    BY <1>1, <1>4 DEF Turns
  <2>2. result = [m \in 1..n |-> <<input[b + 3 * m - 2], input[b + 3 * m]>>]
    BY <1>1, <1>5 DEF n
  <2> QED
    BY <1>7, <2>1, <2>2 DEF Unstarred
<1>9. WellFormedFrom[1] => WellFormedFrom[pos + 1]
  <2> SUFFICES ASSUME WellFormedFrom[1] PROVE WellFormedFrom[pos + 1]
    OBVIOUS
  <2>1. WellFormedFrom[b]
    BY <1>3 DEF Parsed
  <2>2. PICK q \in b..Len(input) : Bracketed(b, q) /\ WellFormedFrom[q + 1]
    BY <1>1, <1>4, <2>1, WellFormedFromStep DEF Grammar
  <2>3. \E m \in Nat \ {0} :
            /\ q = Turns(b, m) /\ q <= Len(input)
            /\ input[b] = Open /\ input[q] = Close
            /\ \A l \in 1..m : input[b + 3 * l - 1] = Dash
            /\ \A l \in 1..(m - 1) : input[Turns(b, l)] # Close
    <3>1. b \in Nat /\ q \in Nat
      BY <1>1, <1>4
    <3> QED
      BY <2>2, <3>1, BracketedTurns
  <2>4. PICK m \in Nat \ {0} :
            /\ q = Turns(b, m) /\ input[q] = Close
            /\ \A l \in 1..(m - 1) : input[Turns(b, l)] # Close
    BY <2>3
  <2>5. ~ (m < n)
    <3> SUFFICES ASSUME m < n PROVE FALSE
      OBVIOUS
    <3>1. m \in 1..(n - 1)
      BY <1>1
    <3> QED
      BY <1>6, <2>4, <3>1
  <2>6. ~ (n < m)
    <3> SUFFICES ASSUME n < m PROVE FALSE
      OBVIOUS
    <3>1. n \in 1..(m - 1)
      BY <1>1, <1>3
    <3> QED
      BY <1>1, <1>4, <2>4, <3>1
  <2>7. m = n
    BY <1>1, <2>5, <2>6
  <2> QED
    BY <1>1, <2>2, <2>4, <2>7
<1>10. /\ pos' \in 1..(Len(input') + 1)
       /\ cc_list' \in Seq(Items)
       /\ \A k \in 1..Len(cc_list') :
              cc_list'[k].star \in BOOLEAN /\ Len(cc_list'[k].ranges) > 0
       /\ Parsed(pos)'
  <2>1. pos \in b..Len(input)
    BY <1>1, <1>4
  <2>2. Len(result) > 0 /\ AddItem(result, pos + 1)
    BY <1>2, <1>3, <1>4 DEF n
  <2> QED
    BY <1>1, <1>2, <1>3, <1>4, <1>8, <1>9, <2>1, <2>2, AddItemParsed
<1>11. TypeOK'
  BY <1>1, <1>2, <1>10 DEF TypeOK
<1> QED
  BY <1>1, <1>2, <1>10, <1>11 DEF ReaderInv

LEMMA ReturnKeeps == ReaderInv /\ Return => ReaderInv'
<1> SUFFICES ASSUME ReaderInv, Return PROVE ReaderInv'
  OBVIOUS
<1>1. /\ pc = "parse" /\ pc' = "idle" /\ UNCHANGED <<input, pos, cc_list, result>>
      /\ Eof(pos)
  BY DEF Return
<1>2. TypeOK /\ Parsed(pos) /\ pos = Len(input) + 1
  BY <1>1, TextIsSequence DEF ReaderInv, Eof
<1>3. TypeOK' /\ Parsed(pos)'
  BY <1>1, <1>2, SameText DEF TypeOK, Parsed
<1> QED
  BY <1>1, <1>2, <1>3 DEF ReaderInv

LEMMA ReaderStutters == ReaderInv /\ UNCHANGED vars => ReaderInv'
<1> SUFFICES ASSUME ReaderInv, UNCHANGED vars PROVE ReaderInv'
  OBVIOUS
<1>1. UNCHANGED <<input, pos, cc_list, result, pc>>
  BY DEF vars
<1>2. WellFormedFrom' = WellFormedFrom /\ Bracket' = Bracket
  BY <1>1, SameText DEF Bracket
<1>3. Parsed(pos)' <=> Parsed(pos)
  BY <1>1, SameText DEF Parsed
<1>4. Parsed(Bracket)' <=> Parsed(Bracket)
  BY <1>1, <1>2, SameText DEF Parsed
<1>5. /\ Read(Bracket, Len(result), Len(result))' <=> Read(Bracket, Len(result), Len(result))
      /\ Read(Bracket, Len(result), Len(result) - 1)' <=>
             Read(Bracket, Len(result), Len(result) - 1)
  BY <1>1, <1>2 DEF Read, Match, Eof
<1>6. TypeOK' <=> TypeOK
  BY <1>1 DEF TypeOK
<1>7. Match(pos, Close)' <=> Match(pos, Close)
  BY <1>1 DEF Match, Eof
<1> QED
  BY <1>1, <1>2, <1>3, <1>4, <1>5, <1>6, <1>7 DEF ReaderInv, InClass, OutOfText

LEMMA ReaderStep == ReaderInv /\ [Next]_vars => ReaderInv'
  BY ParseKeeps, SingleCharacterKeeps, StartRangeKeeps, ParseRangeKeeps, AssertFailsKeeps,
     EndRangeKeeps, ReturnKeeps, ReaderStutters DEF Next, Step, Aborted

\* Whatever is parsed, one text after the other, the list is what has been
\* read, item by item.
THEOREM ReaderInvariant == Spec => []ReaderInv
  BY ReaderInit, ReaderStep, PTL DEF Spec

\* The cursor never leaves the text, and no class is empty.
THEOREM ParserTypeOK == Spec => []TypeOK
<1>1. ReaderInv => TypeOK
  BY DEF ReaderInv
<1> QED
  BY <1>1, ReaderInvariant, PTL

\* parse returns the items of the text, all of them and in order, on every
\* text of every length.
THEOREM ParserParsesGrammar == Spec => []ParsesGrammar
<1>1. ReaderInv => ParsesGrammar
  BY DEF ReaderInv, Parsed, ParsesGrammar
<1> QED
  BY <1>1, ReaderInvariant, PTL

\* No text of the grammar is ever refused.
THEOREM ParserAbortsIfIllFormed == Spec => []AbortsIfIllFormed
<1>1. ReaderInv => AbortsIfIllFormed
  BY DEF ReaderInv, AbortsIfIllFormed
<1> QED
  BY <1>1, ReaderInvariant, PTL
===============================================================================
