--------------------------- MODULE StartupProofs ---------------------------
(***************************************************************************)
(* Start-up, for every environment, every set of flags and every text.     *)
(*                                                                         *)
(* The parser is a recursion over positions, so what it computes is proved *)
(* by induction from the end of the text backwards. The library's theorems *)
(* on induction take a predicate, which the provers cannot instantiate;    *)
(* Downwards takes a set and argues by the least counterexample (WFMin).   *)
(*                                                                         *)
(*   1. indexUnescaped finds the next unescaped symbol: ScanFinds          *)
(*   2. the fields of a text, their keys and values: FieldParts            *)
(*   3. parsePluginOptions computes what Parsed says: ParseFinds           *)
(*   4. what Escape has written it reads back: WrittenParsed               *)
(*   5. the invariant of main's statements, and the properties             *)
(***************************************************************************)
EXTENDS Startup, TLAPS, WellFoundedInduction, FiniteSetTheorems, SequenceTheorems

\* Induction from n downwards, over a set instead of a predicate.
LEMMA Downwards ==
  ASSUME NEW n \in Nat, NEW T,
         \A i \in 1..n : (\A j \in (i + 1)..n : j \in T) => i \in T
  PROVE  \A i \in 1..n : i \in T
<1>. DEFINE Left == {k \in Nat : k \in 0..(n - 1) /\ n - k \notin T}
<1>1. SUFFICES ASSUME Left # {} PROVE FALSE
  <2>1. ASSUME NEW i \in 1..n, i \notin T PROVE n - i \in Left
    BY <2>1
  <2>. QED BY <1>1, <2>1
<1>2. PICK k \in Left : \A l \in Left : <<l, k>> \notin OpToRel(<, Nat)
  <2>1. Left \subseteq Nat
    OBVIOUS
  <2>. HIDE DEF Left
  <2>. QED BY <1>1, <2>1, WFMin, NatLessThanWellFounded, Zenon
<1>3. \A l \in Left : ~(l < k)
  BY <1>2 DEF OpToRel
<1>4. \A j \in (n - k + 1)..n : n - j \in Nat /\ n - j < k /\ n - (n - j) = j
  OBVIOUS
<1>5. \A j \in (n - k + 1)..n : j \in T
  BY <1>3, <1>4
<1>. QED BY <1>5

\* Min of the community modules, for sets of natural numbers.
LEMMA MinOf ==
  ASSUME NEW S, S \subseteq Nat, S # {}
  PROVE  Min(S) \in S /\ \A n \in S : Min(S) <= n
<1>1. PICK m \in S : \A n \in S : <<n, m>> \notin OpToRel(<, Nat)
  BY WFMin, NatLessThanWellFounded, Zenon
<1>2. ASSUME NEW n \in S PROVE m <= n
  <2>1. <<n, m>> \notin OpToRel(<, Nat)
    BY <1>1
  <2>2. n \in Nat /\ m \in Nat
    OBVIOUS
  <2>. QED BY <2>1, <2>2 DEF OpToRel
<1>. QED BY <1>2 DEF Min

LEMMA MinIs ==
  ASSUME NEW S, S \subseteq Nat, NEW m \in S, \A n \in S : m <= n
  PROVE  Min(S) = m
<1>1. Min(S) \in S /\ Min(S) <= m
  BY MinOf
<1>2. m <= Min(S) /\ Min(S) \in Nat /\ m \in Nat
  BY <1>1
<1>. QED BY <1>1, <1>2

-----------------------------------------------------------------------------
(* indexUnescaped and the text as a whole *)

\* The values of the variables, and what is cut out of them.
Text == Seq(Symbols)

\* All that the proofs use of the literals.
LEMMA SymbolsDiffer == Backslash # Semicolon /\ Backslash # "=" /\ Semicolon # "="
BY Zenon DEF Backslash, Semicolon

\* The body of IndexUnescaped's Scan, with a function in place of the recursion.
Scanned(g, i, s, term) ==
  IF i > Len(s) \/ s[i] \in term THEN [ok |-> TRUE, at |-> i, text |-> <<>>]
  ELSE IF s[i] # Backslash       THEN Before(s[i], g[i + 1])
  ELSE IF i = Len(s)             THEN Failed
  ELSE Before(s[i + 1], g[i + 2])

ScanFrom(s, first, term, g) == g = [i \in first..(Len(s) + 1) |-> Scanned(g, i, s, term)]

\* The recursion of the scanner defines a function.
LEMMA ScanExists ==
  ASSUME NEW s \in Text, NEW term
  PROVE  \E g : ScanFrom(s, 1, term, g)
<1>. USE DEF Text
<1>. DEFINE n == Len(s) + 1
            T == {i \in 1..n : \E g : ScanFrom(s, i, term, g)}
<1>1. n \in Nat /\ 1 \in 1..n
  OBVIOUS
<1>2. ASSUME NEW i \in 1..n, \A j \in (i + 1)..n : j \in T PROVE i \in T
  <2>1. PICK g : i < n => ScanFrom(s, i + 1, term, g)
    BY <1>2
  <2>. DEFINE h == [j \in i..n |-> IF j = i THEN Scanned(g, i, s, term) ELSE g[j]]
  <2>2. ASSUME NEW j \in i..n PROVE h[j] = Scanned(h, j, s, term)
    <3>1. Scanned(h, j, s, term) = Scanned(g, j, s, term)
      BY DEF Scanned
    <3>2. CASE j = i
      BY <3>1, <3>2
    <3>3. CASE j # i
      BY <3>1, <3>3, <2>1 DEF ScanFrom
    <3>. QED BY <3>2, <3>3
  <2>3. h = [j \in i..n |-> Scanned(h, j, s, term)]
    BY <2>2
  <2>. QED BY <2>3 DEF ScanFrom
<1>3. \A i \in 1..n : i \in T
  BY <1>1, <1>2, Downwards
<1>. QED BY <1>1, <1>3

\* One turn of indexUnescaped's loop.
LEMMA ScanStep ==
  ASSUME NEW s \in Text, NEW term, NEW i \in 1..(Len(s) + 1)
  PROVE  IndexUnescaped(s, i, term) =
           IF i > Len(s) \/ s[i] \in term THEN [ok |-> TRUE, at |-> i, text |-> <<>>]
           ELSE IF s[i] # Backslash THEN Before(s[i], IndexUnescaped(s, i + 1, term))
           ELSE IF i = Len(s)       THEN Failed
           ELSE Before(s[i + 1], IndexUnescaped(s, i + 2, term))
<1>. DEFINE f == CHOOSE g : ScanFrom(s, 1, term, g)
<1>1. ScanFrom(s, 1, term, f)
  BY ScanExists, Zenon
<1>2. \A j : IndexUnescaped(s, j, term) = f[j]
  BY DEF IndexUnescaped, ScanFrom, Scanned
<1>. QED BY <1>1, <1>2 DEF Scanned, ScanFrom, Text

\* A symbol is escaped exactly by an unescaped backslash before it.
LEMMA EscapedStep ==
  ASSUME NEW s \in Text
  PROVE  /\ ~Escaped(s, 1)
         /\ \A i \in 1..Len(s) : Escaped(s, i + 1) <=> s[i] = Backslash /\ ~Escaped(s, i)
<1>. DEFINE Run(i) == {j \in 1..(i - 1) : \A k \in j..(i - 1) : s[k] = Backslash}
<1>1. \A i \in 1..(Len(s) + 1) : IsFiniteSet(Run(i)) /\ Cardinality(Run(i)) \in Nat
  <2>1. ASSUME NEW i \in 1..(Len(s) + 1) PROVE IsFiniteSet(Run(i))
    <3>1. IsFiniteSet(1..(i - 1))
      BY FS_Interval DEF Text
    <3>2. Run(i) \subseteq 1..(i - 1)
      OBVIOUS
    <3>. HIDE DEF Run
    <3>. QED BY <3>1, <3>2, FS_Subset
  <2>. HIDE DEF Run
  <2>. QED BY <2>1, FS_CardinalityType
<1>2. ~Escaped(s, 1)
  <2>1. Run(1) = {}
    OBVIOUS
  <2>2. Cardinality(Run(1)) = 0
    BY <2>1, FS_EmptySet
  <2>. QED BY <2>2 DEF Escaped
<1>3. ASSUME NEW i \in 1..Len(s)
      PROVE  Escaped(s, i + 1) <=> s[i] = Backslash /\ ~Escaped(s, i)
  <2>0. i + 1 \in 1..(Len(s) + 1) /\ i \in 1..(Len(s) + 1) /\ (i + 1) - 1 = i
    BY DEF Text
  <2>1. CASE s[i] # Backslash
    <3>1. Run(i + 1) = {}
      BY <2>0, <2>1
    <3>2. Cardinality(Run(i + 1)) = 0
      BY <3>1, FS_EmptySet
    <3>. QED BY <3>2, <2>1 DEF Escaped
  <2>2. CASE s[i] = Backslash
    <3>1. Run(i + 1) = Run(i) \cup {i}
      BY <2>0, <2>2
    <3>2. i \notin Run(i)
      OBVIOUS
    <3>3. Cardinality(Run(i + 1)) = Cardinality(Run(i)) + 1
      <4>. HIDE DEF Run
      <4>. QED BY <3>1, <3>2, <1>1, <2>0, FS_AddElement
    <3>4. Cardinality(Run(i)) \in Nat
      <4>. HIDE DEF Run
      <4>. QED BY <1>1, <2>0
    <3>5. Escaped(s, i) <=> Cardinality(Run(i)) % 2 = 1
      BY DEF Escaped
    <3>6. Escaped(s, i + 1) <=> Cardinality(Run(i + 1)) % 2 = 1
      BY DEF Escaped
    <3>. HIDE DEF Run
    <3>. QED BY <3>3, <3>4, <3>5, <3>6, <2>2
  <2>. QED BY <2>1, <2>2
<1>. QED BY <1>2, <1>3

\* Where the next symbol of term stands that is not escaped.
NextStop(s, i, term) ==
  Min({j \in i..Len(s) : s[j] \in term /\ ~Escaped(s, j)} \cup {Len(s) + 1})

LEMMA NextStopFinds ==
  ASSUME NEW s \in Text, NEW term, NEW i \in 1..(Len(s) + 1)
  PROVE  LET n == NextStop(s, i, term) IN
         /\ n \in i..(Len(s) + 1)
         /\ n <= Len(s) => s[n] \in term /\ ~Escaped(s, n)
         /\ \A j \in i..(n - 1) : ~(s[j] \in term /\ ~Escaped(s, j))
<1>. DEFINE S == {j \in i..Len(s) : s[j] \in term /\ ~Escaped(s, j)} \cup {Len(s) + 1}
<1>1. S \subseteq Nat /\ S # {} /\ Len(s) \in Nat
  BY DEF Text
<1>2. \A j \in S : j \in i..(Len(s) + 1) /\ (j <= Len(s) => s[j] \in term /\ ~Escaped(s, j))
  BY DEF Text
<1>3. \A j \in i..Len(s) : s[j] \in term /\ ~Escaped(s, j) => j \in S
  OBVIOUS
<1>4. NextStop(s, i, term) = Min(S)
  BY DEF NextStop
<1>5. Min(S) \in S /\ \A j \in S : Min(S) <= j
  <2>. HIDE DEF S
  <2>. QED BY <1>1, MinOf
<1>6. /\ Min(S) \in i..(Len(s) + 1)
      /\ Min(S) <= Len(s) => s[Min(S)] \in term /\ ~Escaped(s, Min(S))
  <2>. HIDE DEF S
  <2>. QED BY <1>2, <1>5
<1>7. ASSUME NEW j \in i..(Min(S) - 1) PROVE ~(s[j] \in term /\ ~Escaped(s, j))
  <2>1. j \in i..Len(s) /\ ~(Min(S) <= j)
    <3>. HIDE DEF S
    <3>. QED BY <1>1, <1>6
  <2>2. j \notin S
    <3>. HIDE DEF S
    <3>. QED BY <1>5, <2>1
  <2>. QED BY <1>3, <2>1, <2>2
<1>. HIDE DEF S
<1>. QED BY <1>4, <1>6, <1>7

LEMMA NextStopIs ==
  ASSUME NEW s \in Text, NEW term, NEW i \in 1..(Len(s) + 1), NEW n \in i..(Len(s) + 1),
         n <= Len(s) => s[n] \in term /\ ~Escaped(s, n),
         \A j \in i..(n - 1) : ~(s[j] \in term /\ ~Escaped(s, j))
  PROVE  NextStop(s, i, term) = n
<1>. DEFINE m == NextStop(s, i, term)
<1>1. /\ m \in i..(Len(s) + 1)
      /\ m <= Len(s) => s[m] \in term /\ ~Escaped(s, m)
      /\ \A j \in i..(m - 1) : ~(s[j] \in term /\ ~Escaped(s, j))
  BY NextStopFinds
<1>2. Len(s) \in Nat
  BY DEF Text
<1>. HIDE DEF m
<1>3. ~(m < n)
  BY <1>1, <1>2
<1>4. ~(n < m)
  BY <1>1, <1>2
<1>5. m = n
  BY <1>1, <1>2, <1>3, <1>4
<1>. QED BY <1>5 DEF m

LEMMA NextStopStep ==
  ASSUME NEW s \in Text, NEW term, NEW i \in 1..Len(s)
  PROVE  NextStop(s, i, term) =
           IF s[i] \in term /\ ~Escaped(s, i) THEN i ELSE NextStop(s, i + 1, term)
<1>0. Len(s) \in Nat /\ i \in 1..(Len(s) + 1) /\ i + 1 \in 1..(Len(s) + 1)
  BY DEF Text
<1>1. CASE s[i] \in term /\ ~Escaped(s, i)
  <2>1. i \in i..(Len(s) + 1) /\ \A j \in i..(i - 1) : FALSE
    BY <1>0
  <2>. QED BY <1>0, <1>1, <2>1, NextStopIs
<1>2. CASE ~(s[i] \in term /\ ~Escaped(s, i))
  <2>. DEFINE n == NextStop(s, i + 1, term)
  <2>1. /\ n \in (i + 1)..(Len(s) + 1)
        /\ n <= Len(s) => s[n] \in term /\ ~Escaped(s, n)
        /\ \A j \in (i + 1)..(n - 1) : ~(s[j] \in term /\ ~Escaped(s, j))
    BY <1>0, NextStopFinds
  <2>. HIDE DEF n
  <2>2. n \in i..(Len(s) + 1) /\ \A j \in i..(n - 1) : j = i \/ j \in (i + 1)..(n - 1)
    BY <1>0, <2>1
  <2>3. \A j \in i..(n - 1) : ~(s[j] \in term /\ ~Escaped(s, j))
    BY <1>2, <2>1, <2>2
  <2>4. NextStop(s, i, term) = n
    BY <1>0, <2>1, <2>2, <2>3, NextStopIs
  <2>. QED BY <1>2, <2>4 DEF n
<1>. QED BY <1>1, <1>2

-----------------------------------------------------------------------------
(* Plain *)

Unwrapped(g, i, s, to) ==
  IF i = to                              THEN <<>>
  ELSE IF i \in Unescaped(s, Backslash)  THEN g[i + 1]
  ELSE <<s[i]>> \o g[i + 1]

PlainFrom(s, first, to, g) == g = [i \in first..to |-> Unwrapped(g, i, s, to)]

LEMMA PlainExists ==
  ASSUME NEW s, NEW to \in Nat \ {0}
  PROVE  \E g : PlainFrom(s, 1, to, g)
<1>. DEFINE T == {i \in 1..to : \E g : PlainFrom(s, i, to, g)}
<1>1. to \in Nat /\ 1 \in 1..to
  OBVIOUS
<1>2. ASSUME NEW i \in 1..to, \A j \in (i + 1)..to : j \in T PROVE i \in T
  <2>1. PICK g : i < to => PlainFrom(s, i + 1, to, g)
    BY <1>2
  <2>. DEFINE h == [j \in i..to |-> IF j = i THEN Unwrapped(g, i, s, to) ELSE g[j]]
  <2>2. ASSUME NEW j \in i..to PROVE h[j] = Unwrapped(h, j, s, to)
    <3>1. Unwrapped(h, j, s, to) = Unwrapped(g, j, s, to)
      BY DEF Unwrapped
    <3>2. CASE j = i
      BY <3>1, <3>2
    <3>3. CASE j # i
      BY <3>1, <3>3, <2>1 DEF PlainFrom
    <3>. QED BY <3>2, <3>3
  <2>3. h = [j \in i..to |-> Unwrapped(h, j, s, to)]
    BY <2>2
  <2>. QED BY <2>3 DEF PlainFrom
<1>3. \A i \in 1..to : i \in T
  BY <1>1, <1>2, Downwards
<1>. QED BY <1>1, <1>3

LEMMA PlainStep ==
  ASSUME NEW s, NEW to \in Nat, NEW i \in 1..to
  PROVE  Plain(s, i, to) =
           IF i = to THEN <<>>
           ELSE IF i \in Unescaped(s, Backslash) THEN Plain(s, i + 1, to)
           ELSE <<s[i]>> \o Plain(s, i + 1, to)
<1>. DEFINE f == CHOOSE g : PlainFrom(s, 1, to, g)
<1>1. PlainFrom(s, 1, to, f)
  BY PlainExists
<1>2. \A j : Plain(s, j, to) = f[j]
  BY DEF Plain, PlainFrom, Unwrapped
<1>. QED BY <1>1, <1>2 DEF Unwrapped, PlainFrom

LEMMA PlainCases ==
  ASSUME NEW s, NEW to \in Nat \ {0}
  PROVE  /\ Plain(s, to, to) = <<>>
         /\ \A i \in 1..(to - 1) :
              /\ i \in Unescaped(s, Backslash) => Plain(s, i, to) = Plain(s, i + 1, to)
              /\ i \notin Unescaped(s, Backslash) =>
                   Plain(s, i, to) = <<s[i]>> \o Plain(s, i + 1, to)
<1>1. Plain(s, to, to) = <<>>
  <2>1. to \in Nat /\ to \in 1..to
    OBVIOUS
  <2>. QED BY <2>1, PlainStep
<1>2. ASSUME NEW i \in 1..(to - 1)
      PROVE  Plain(s, i, to) = IF i \in Unescaped(s, Backslash) THEN Plain(s, i + 1, to)
                               ELSE <<s[i]>> \o Plain(s, i + 1, to)
  <2>1. to \in Nat /\ i \in 1..to /\ i # to
    OBVIOUS
  <2>. QED BY <2>1, PlainStep
<1>. QED BY <1>1, <1>2

LEMMA PlainType ==
  ASSUME NEW s \in Text, NEW to \in 1..(Len(s) + 1)
  PROVE  \A i \in 1..to : Plain(s, i, to) \in Text
<1>. DEFINE T == {i \in 1..to : Plain(s, i, to) \in Text}
<1>0. to \in Nat
  BY DEF Text
<1>1. ASSUME NEW i \in 1..to, \A j \in (i + 1)..to : j \in T PROVE i \in T
  <2>1. CASE i = to
    <3>1. Plain(s, i, to) = <<>>
      BY <1>0, <2>1, PlainStep
    <3>2. <<>> \in Text
      BY DEF Text
    <3>. QED BY <3>1, <3>2
  <2>2. CASE i # to
    <3>1. Plain(s, i + 1, to) \in Text
      BY <1>1, <2>2
    <3>2. <<s[i]>> \in Text
      BY <2>2 DEF Text
    <3>3. <<s[i]>> \o Plain(s, i + 1, to) \in Text
      BY <3>1, <3>2 DEF Text
    <3>4. Plain(s, i, to) \in {Plain(s, i + 1, to), <<s[i]>> \o Plain(s, i + 1, to)}
      BY <1>0, <2>2, PlainStep
    <3>. QED BY <3>1, <3>3, <3>4
  <2>. QED BY <2>1, <2>2
<1>2. \A i \in 1..to : i \in T
  <2>. HIDE DEF T
  <2>. QED BY <1>0, <1>1, Downwards
<1>. QED BY <1>2

-----------------------------------------------------------------------------
(* What the scanner finds *)

Found(s, i, term) ==
  LET n == NextStop(s, i, term)
  IN  IF n <= Len(s) \/ Len(s) \notin Unescaped(s, Backslash)
      THEN [ok |-> TRUE, at |-> n, text |-> Plain(s, i, n)]
      ELSE Failed

LEMMA UnescapedIs ==
  ASSUME NEW s \in Text, NEW symbol, NEW i \in 1..Len(s)
  PROVE  i \in Unescaped(s, symbol) <=> s[i] = symbol /\ ~Escaped(s, i)
BY DEF Unescaped, Text

LEMMA BeforeFound ==
  ASSUME NEW s, NEW term, NEW symbol, NEW i, NEW j,
         NextStop(s, i, term) = NextStop(s, j, term),
         Plain(s, i, NextStop(s, i, term)) = <<symbol>> \o Plain(s, j, NextStop(s, i, term))
  PROVE  Found(s, i, term) = Before(symbol, Found(s, j, term))
<1>. DEFINE n == NextStop(s, j, term)
            found == n <= Len(s) \/ Len(s) \notin Unescaped(s, Backslash)
<1>1. CASE found
  <2>1. Found(s, j, term) = [ok |-> TRUE, at |-> n, text |-> Plain(s, j, n)]
    BY <1>1 DEF Found
  <2>2. Found(s, i, term) = [ok |-> TRUE, at |-> n, text |-> <<symbol>> \o Plain(s, j, n)]
    BY <1>1 DEF Found
  <2>. QED BY <2>1, <2>2 DEF Before
<1>2. CASE ~found
  <2>1. Found(s, j, term) = Failed /\ Found(s, i, term) = Failed
    BY <1>2 DEF Found
  <2>. QED BY <2>1 DEF Before, Failed
<1>. QED BY <1>1, <1>2

\* From a symbol that is not escaped, indexUnescaped finds the next unescaped
\* symbol of term and what Plain says of the text up to it.
LEMMA ScanFinds ==
  ASSUME NEW s \in Text, NEW term, Backslash \notin term
  PROVE  \A i \in 1..(Len(s) + 1) :
           ~Escaped(s, i) => IndexUnescaped(s, i, term) = Found(s, i, term)
<1>. DEFINE T == {i \in 1..(Len(s) + 1) :
                   ~Escaped(s, i) => IndexUnescaped(s, i, term) = Found(s, i, term)}
<1>0. Len(s) \in Nat
  BY DEF Text
<1>1. ASSUME NEW i \in 1..(Len(s) + 1), \A j \in (i + 1)..(Len(s) + 1) : j \in T, ~Escaped(s, i)
      PROVE  IndexUnescaped(s, i, term) = Found(s, i, term)
  <2>. DEFINE n == NextStop(s, i, term)
  <2>1. n \in i..(Len(s) + 1)
    BY NextStopFinds
  <2>2. n \in Nat /\ i \in 1..n /\ Plain(s, n, n) = <<>>
    <3>1. n \in Nat \ {0} /\ i \in 1..n
      BY <1>0, <2>1
    <3>. HIDE DEF n
    <3>. QED BY <3>1, PlainCases
  <2>3. CASE i = Len(s) + 1
    <3>1. n = i
      BY <1>0, <2>1, <2>3
    <3>2. Len(s) \notin Unescaped(s, Backslash)
      BY <1>0, <1>1, <2>3, EscapedStep DEF Unescaped
    <3>3. IndexUnescaped(s, i, term) = [ok |-> TRUE, at |-> i, text |-> <<>>]
      <4>1. i > Len(s)
        BY <1>0, <2>3
      <4>. QED BY <4>1, ScanStep
    <3>. QED BY <2>2, <3>1, <3>2, <3>3 DEF Found
  <2>4. CASE i <= Len(s) /\ s[i] \in term
    <3>1. n = i
      BY <1>0, <1>1, <2>4, NextStopStep
    <3>2. IndexUnescaped(s, i, term) = [ok |-> TRUE, at |-> i, text |-> <<>>]
      BY <2>4, ScanStep
    <3>. QED BY <2>2, <2>4, <3>1, <3>2 DEF Found
  <2>5. CASE i <= Len(s) /\ s[i] \notin term /\ s[i] # Backslash
    <3>1. ~Escaped(s, i + 1)
      BY <1>0, <2>5, EscapedStep
    <3>2. n = NextStop(s, i + 1, term)
      BY <1>0, <2>5, NextStopStep
    <3>3. n \in (i + 1)..(Len(s) + 1)
      BY <1>0, <2>5, <3>2, NextStopFinds
    <3>4. Plain(s, i, n) = <<s[i]>> \o Plain(s, i + 1, n)
      <4>1. n \in Nat \ {0} /\ i \in 1..(n - 1) /\ i \notin Unescaped(s, Backslash)
        BY <1>0, <2>5, <3>3, UnescapedIs
      <4>. HIDE DEF n
      <4>. QED BY <4>1, PlainCases
    <3>5. IndexUnescaped(s, i, term) = Before(s[i], IndexUnescaped(s, i + 1, term))
      BY <1>0, <2>5, ScanStep
    <3>6. IndexUnescaped(s, i + 1, term) = Found(s, i + 1, term)
      BY <1>0, <1>1, <2>5, <3>1
    <3>7. Found(s, i, term) = Before(s[i], Found(s, i + 1, term))
      BY <3>2, <3>4, BeforeFound
    <3>. QED BY <3>5, <3>6, <3>7
  <2>6. CASE i <= Len(s) /\ s[i] = Backslash /\ i = Len(s)
    <3>1. n = NextStop(s, i + 1, term)
      BY <1>0, <2>6, NextStopStep
    <3>2. n = Len(s) + 1
      BY <1>0, <2>6, <3>1, NextStopFinds
    <3>3. Len(s) \in Unescaped(s, Backslash)
      BY <1>0, <1>1, <2>6, UnescapedIs
    <3>4. IndexUnescaped(s, i, term) = Failed
      BY <1>0, <2>6, ScanStep
    <3>. QED BY <1>0, <3>2, <3>3, <3>4 DEF Found
  <2>7. CASE i < Len(s) /\ s[i] = Backslash
    <3>0. i \in 1..Len(s) /\ i + 1 \in 1..Len(s) /\ i + 2 \in 1..(Len(s) + 1) /\ (i + 1) + 1 = i + 2
      BY <1>0, <2>7
    <3>1. Escaped(s, i + 1) /\ ~Escaped(s, i + 2)
      BY <1>1, <2>7, <3>0, EscapedStep
    <3>2. n = NextStop(s, i + 1, term) /\ n = NextStop(s, i + 2, term)
      BY <2>7, <3>0, <3>1, NextStopStep
    <3>3. n \in (i + 2)..(Len(s) + 1)
      BY <3>0, <3>2, NextStopFinds
    <3>4. Plain(s, i, n) = Plain(s, i + 1, n)
      <4>1. n \in Nat \ {0} /\ i \in 1..(n - 1) /\ i \in Unescaped(s, Backslash)
        BY <1>0, <1>1, <2>7, <3>0, <3>3, UnescapedIs
      <4>. HIDE DEF n
      <4>. QED BY <4>1, PlainCases
    <3>5. Plain(s, i + 1, n) = <<s[i + 1]>> \o Plain(s, i + 2, n)
      <4>1. n \in Nat \ {0} /\ i + 1 \in 1..(n - 1) /\ i + 1 \notin Unescaped(s, Backslash)
        BY <1>0, <3>0, <3>1, <3>3, UnescapedIs
      <4>. HIDE DEF n
      <4>. QED BY <3>0, <4>1, PlainCases
    <3>6. IndexUnescaped(s, i, term) = Before(s[i + 1], IndexUnescaped(s, i + 2, term))
      BY <1>0, <2>7, <3>0, ScanStep
    <3>7. IndexUnescaped(s, i + 2, term) = Found(s, i + 2, term)
      BY <1>0, <1>1, <2>7, <3>0, <3>1
    <3>8. Found(s, i, term) = Before(s[i + 1], Found(s, i + 2, term))
      BY <3>2, <3>4, <3>5, BeforeFound
    <3>. QED BY <3>6, <3>7, <3>8
  <2>. QED BY <1>0, <2>3, <2>4, <2>5, <2>6, <2>7
<1>2. \A i \in 1..(Len(s) + 1) : i \in T
  <2>1. \A i \in 1..(Len(s) + 1) : (\A j \in (i + 1)..(Len(s) + 1) : j \in T) => i \in T
    BY <1>1
  <2>2. Len(s) + 1 \in Nat
    BY <1>0
  <2>. HIDE DEF T
  <2>. QED BY <2>1, <2>2, Downwards
<1>. QED BY <1>2

-----------------------------------------------------------------------------
(* Fields *)

LEMMA FieldStartIs ==
  ASSUME NEW s \in Text, NEW from \in FieldStarts(s)
  PROVE  from \in 1..Len(s) /\ ~Escaped(s, from)
<1>1. from \in 1..Len(s)
  BY DEF FieldStarts, Text
<1>2. CASE from = 1
  BY <1>1, <1>2, EscapedStep
<1>3. CASE from # 1
  <2>1. PICK i \in Unescaped(s, Semicolon) : from = i + 1
    BY <1>3 DEF FieldStarts
  <2>2. i \in 1..Len(s) /\ s[i] = Semicolon
    BY DEF Unescaped, Text
  <2>. QED BY <1>1, <2>1, <2>2, EscapedStep, SymbolsDiffer
<1>. QED BY <1>2, <1>3

LEMMA FieldEndIs ==
  ASSUME NEW s \in Text, NEW from \in 1..Len(s)
  PROVE  FieldEnd(s, from) = NextStop(s, from, {Semicolon})
<1>1. {i \in Unescaped(s, Semicolon) : i >= from} = {j \in from..Len(s) : s[j] \in {Semicolon} /\ ~Escaped(s, j)}
  BY DEF Unescaped, Text
<1>. QED BY <1>1 DEF FieldEnd, NextStop

\* Where key and value of a field end, as the scanner looks for it.
LEMMA FieldParts ==
  ASSUME NEW s \in Text, NEW from \in 1..Len(s), ~Escaped(s, from)
  PROVE  LET k == KeyEnd(s, from)
             e == FieldEnd(s, from)
         IN  /\ e \in from..(Len(s) + 1) /\ k \in from..e
             /\ k = NextStop(s, from, {"=", Semicolon})
             /\ k < e => s[k] = "=" /\ ~Escaped(s, k + 1) /\ NextStop(s, k + 1, {Semicolon}) = e
             /\ k = e => k > Len(s) \/ s[k] # "="
             /\ e <= Len(s) => e \in Unescaped(s, Semicolon)
             /\ \A i \in from..(e - 1) : i \notin Unescaped(s, Semicolon)
<1>. DEFINE k == NextStop(s, from, {"=", Semicolon})
            e == FieldEnd(s, from)
            S == {i \in Unescaped(s, "=") : from <= i /\ i < e} \cup {e}
<1>0. Len(s) \in Nat /\ from \in 1..(Len(s) + 1)
  BY DEF Text
<1>1. /\ e \in from..(Len(s) + 1)
      /\ e <= Len(s) => s[e] = Semicolon /\ ~Escaped(s, e)
      /\ \A i \in from..(e - 1) : ~(s[i] = Semicolon /\ ~Escaped(s, i))
  <2>1. e = NextStop(s, from, {Semicolon})
    BY FieldEndIs
  <2>. HIDE DEF e
  <2>. QED BY <1>0, <2>1, NextStopFinds
<1>2. /\ k \in from..(Len(s) + 1)
      /\ k <= Len(s) => s[k] \in {"=", Semicolon} /\ ~Escaped(s, k)
      /\ \A i \in from..(k - 1) : ~(s[i] \in {"=", Semicolon} /\ ~Escaped(s, i))
  BY <1>0, NextStopFinds
<1>3. k <= e
  <2>. HIDE DEF k, e
  <2>. QED BY <1>0, <1>1, <1>2
<1>4. k = e => k > Len(s) \/ s[k] # "="
  <2>. HIDE DEF k, e
  <2>. QED BY <1>0, <1>1, <1>2, SymbolsDiffer
<1>5. k < e => k <= Len(s) /\ s[k] = "=" /\ ~Escaped(s, k)
  <2>. HIDE DEF k, e
  <2>. QED BY <1>0, <1>1, <1>2
<1>6. KeyEnd(s, from) = k
  <2>1. S \subseteq Nat
    BY <1>1 DEF Unescaped, Text
  <2>2. k \in S
    <3>. HIDE DEF k, e
    <3>1. CASE k = e
      BY <3>1
    <3>2. CASE k < e
      BY <1>0, <1>2, <1>5, <3>2, UnescapedIs
    <3>. QED BY <1>0, <1>1, <1>2, <1>3, <3>1, <3>2
  <2>3. \A i \in S : k <= i
    <3>. HIDE DEF k, e
    <3>1. ASSUME NEW i \in Unescaped(s, "="), from <= i, i < e PROVE k <= i
      <4>1. i \in 1..Len(s) /\ s[i] = "=" /\ ~Escaped(s, i)
        BY DEF Unescaped, Text
      <4>. QED BY <1>0, <1>2, <3>1, <4>1
    <3>. QED BY <1>3, <3>1
  <2>4. Min(S) = k
    <3>. HIDE DEF S, k
    <3>. QED BY <2>1, <2>2, <2>3, MinIs
  <2>. QED BY <2>4 DEF KeyEnd
<1>7. k < e => ~Escaped(s, k + 1) /\ NextStop(s, k + 1, {Semicolon}) = e
  <2>1. SUFFICES ASSUME k < e PROVE ~Escaped(s, k + 1) /\ NextStop(s, k + 1, {Semicolon}) = e
    OBVIOUS
  <2>. HIDE DEF k, e
  <2>2. k \in 1..Len(s) /\ s[k] # Backslash /\ k + 1 \in 1..(Len(s) + 1) /\ e \in (k + 1)..(Len(s) + 1)
    BY <1>0, <1>1, <1>2, <1>5, <2>1, SymbolsDiffer
  <2>3. \A i \in (k + 1)..(e - 1) : ~(s[i] \in {Semicolon} /\ ~Escaped(s, i))
    BY <1>0, <1>1, <1>2
  <2>4. e <= Len(s) => s[e] \in {Semicolon} /\ ~Escaped(s, e)
    BY <1>1
  <2>. QED BY <2>2, <2>3, <2>4, EscapedStep, NextStopIs
<1>8. /\ e <= Len(s) => e \in Unescaped(s, Semicolon)
      /\ \A i \in from..(e - 1) : i \notin Unescaped(s, Semicolon)
  <2>. HIDE DEF e
  <2>1. e <= Len(s) => e \in 1..Len(s)
    BY <1>0, <1>1
  <2>. QED BY <1>1, <2>1, UnescapedIs DEF Unescaped
<1>9. k \in from..e
  <2>. HIDE DEF k, e
  <2>. QED BY <1>0, <1>1, <1>2, <1>3
<1>. HIDE DEF k, e
<1>10. /\ e \in from..(Len(s) + 1) /\ k \in from..e
       /\ k < e => s[k] = "=" /\ ~Escaped(s, k + 1) /\ NextStop(s, k + 1, {Semicolon}) = e
       /\ k = e => k > Len(s) \/ s[k] # "="
       /\ e <= Len(s) => e \in Unescaped(s, Semicolon)
       /\ \A i \in from..(e - 1) : i \notin Unescaped(s, Semicolon)
  BY <1>1, <1>4, <1>5, <1>7, <1>8, <1>9
<1>. QED BY <1>6, <1>10 DEF k, e

\* A key is empty only where it has no symbols at all.
LEMMA KeyEmpty ==
  ASSUME NEW s \in Text, NEW from \in 1..Len(s), ~Escaped(s, from),
         KeyEnd(s, from) <= Len(s) \/ Len(s) \notin Unescaped(s, Backslash)
  PROVE  KeyAt(s, from) = <<>> <=> KeyEnd(s, from) = from
<1>. DEFINE k == KeyEnd(s, from)
<1>0. Len(s) \in Nat
  BY DEF Text
<1>1. k \in from..(Len(s) + 1) /\ k = NextStop(s, from, {"=", Semicolon})
  <2>. DEFINE e == FieldEnd(s, from)
  <2>1. e \in from..(Len(s) + 1) /\ k \in from..e /\ k = NextStop(s, from, {"=", Semicolon})
    BY FieldParts
  <2>. HIDE DEF k, e
  <2>. QED BY <1>0, <2>1
<1>2. k <= Len(s) => ~Escaped(s, k)
  BY <1>0, <1>1, NextStopFinds
<1>. HIDE DEF k
<1>3. k \in Nat \ {0} /\ k \in 1..(Len(s) + 1)
  BY <1>0, <1>1
<1>4. CASE k = from
  BY <1>3, <1>4, PlainCases DEF KeyAt, k
<1>5. CASE k # from
  <2>1. PICK i \in 1..(k - 1) : Plain(s, from, k) = <<s[i]>> \o Plain(s, i + 1, k)
    <3>1. CASE s[from] # Backslash
      <4>1. from \in 1..(k - 1) /\ from \notin Unescaped(s, Backslash)
        BY <1>0, <1>1, <1>5, <3>1, UnescapedIs
      <4>. QED BY <1>3, <4>1, PlainCases
    <3>2. CASE s[from] = Backslash
      <4>1. from \in 1..(k - 1) /\ from \in Unescaped(s, Backslash)
        BY <1>0, <1>1, <1>5, <3>2, UnescapedIs
      <4>2. Escaped(s, from + 1)
        BY <3>2, EscapedStep
      <4>3. from < Len(s)
        BY <1>0, <1>1, <1>5, <4>1 DEF k
      <4>4. from + 1 # k
        BY <1>0, <1>2, <4>2, <4>3
      <4>5. from + 1 \in 1..(k - 1) /\ from + 1 \notin Unescaped(s, Backslash)
        BY <1>0, <1>1, <4>2, <4>1, <4>4 DEF Unescaped
      <4>6. Plain(s, from, k) = Plain(s, from + 1, k)
        BY <1>3, <4>1, PlainCases
      <4>. QED BY <1>3, <4>5, <4>6, PlainCases
    <3>. QED BY <3>1, <3>2
  <2>2. s[i] \in Symbols /\ i + 1 \in 1..k
    BY <1>0, <1>3 DEF Text
  <2>3. Plain(s, i + 1, k) \in Text
    BY <1>3, <2>2, PlainType
  <2>4. Plain(s, from, k) # <<>>
    BY <2>1, <2>2, <2>3 DEF Text
  <2>. QED BY <1>5, <2>4 DEF KeyAt, k
<1>. QED BY <1>4, <1>5

-----------------------------------------------------------------------------
(* parsePluginOptions *)

\* The scanner does not go back.
LEMMA ScanRange ==
  ASSUME NEW s \in Text, NEW term
  PROVE  \A i \in 1..(Len(s) + 1) :
           LET r == IndexUnescaped(s, i, term) IN r.ok => r.at \in i..(Len(s) + 1)
<1>. DEFINE Forward(i) ==
              LET r == IndexUnescaped(s, i, term) IN r.ok => r.at \in i..(Len(s) + 1)
            T == {i \in 1..(Len(s) + 1) : Forward(i)}
<1>0. Len(s) \in Nat
  BY DEF Text
<1>1. ASSUME NEW i \in 1..(Len(s) + 1), \A j \in (i + 1)..(Len(s) + 1) : j \in T PROVE Forward(i)
  <2>1. CASE i > Len(s) \/ s[i] \in term
    <3>1. IndexUnescaped(s, i, term) = [ok |-> TRUE, at |-> i, text |-> <<>>]
      BY <2>1, ScanStep
    <3>. QED BY <1>0, <3>1
  <2>2. CASE i <= Len(s) /\ s[i] \notin term /\ s[i] # Backslash
    <3>1. IndexUnescaped(s, i, term) = Before(s[i], IndexUnescaped(s, i + 1, term))
      BY <1>0, <2>2, ScanStep
    <3>2. Forward(i + 1)
      BY <1>0, <1>1, <2>2
    <3>. QED BY <1>0, <3>1, <3>2 DEF Before, Failed
  <2>3. CASE i = Len(s) /\ s[i] \notin term /\ s[i] = Backslash
    <3>1. IndexUnescaped(s, i, term) = Failed
      BY <1>0, <2>3, ScanStep
    <3>. QED BY <3>1 DEF Failed
  <2>4. CASE i < Len(s) /\ s[i] \notin term /\ s[i] = Backslash
    <3>1. IndexUnescaped(s, i, term) = Before(s[i + 1], IndexUnescaped(s, i + 2, term))
      BY <1>0, <2>4, ScanStep
    <3>2. Forward(i + 2)
      BY <1>0, <1>1, <2>4
    <3>. QED BY <1>0, <3>1, <3>2 DEF Before, Failed
  <2>. QED BY <1>0, <2>1, <2>2, <2>3, <2>4
<1>2. \A i \in 1..(Len(s) + 1) : i \in T
  <2>1. \A i \in 1..(Len(s) + 1) : (\A j \in (i + 1)..(Len(s) + 1) : j \in T) => i \in T
    BY <1>1
  <2>2. Len(s) + 1 \in Nat
    BY <1>0
  <2>. HIDE DEF T
  <2>. QED BY <2>1, <2>2, Downwards
<1>. QED BY <1>2

\* The body of ParsePluginOptions's Parse, likewise.
KeyRead(s, i) == IndexUnescaped(s, i, {"=", Semicolon})
ValueRead(s, i) == IndexUnescaped(s, KeyRead(s, i).at + 1, {Semicolon})

Parsing(g, i, s) ==
  IF i > Len(s) THEN [ok |-> TRUE, pairs |-> <<>>]
  ELSE IF ~KeyRead(s, i).ok \/ KeyRead(s, i).text = <<>> THEN Failed
  ELSE IF KeyRead(s, i).at > Len(s) \/ s[KeyRead(s, i).at] # "="
    THEN Add(KeyRead(s, i).text, <<"1">>, g[KeyRead(s, i).at + 1])
  ELSE IF ~ValueRead(s, i).ok THEN Failed
  ELSE Add(KeyRead(s, i).text, ValueRead(s, i).text, g[ValueRead(s, i).at + 1])

ParseFrom(s, first, g) == g = [i \in first..(Len(s) + 2) |-> Parsing(g, i, s)]

\* What is parsed from i on depends on what is parsed later only.
LEMMA ParsingLocal ==
  ASSUME NEW s \in Text, NEW i \in 1..(Len(s) + 2), NEW g, NEW h,
         \A j \in (i + 1)..(Len(s) + 2) : g[j] = h[j]
  PROVE  Parsing(g, i, s) = Parsing(h, i, s)
<1>0. Len(s) \in Nat
  BY DEF Text
<1>1. CASE i > Len(s) \/ ~KeyRead(s, i).ok \/ KeyRead(s, i).text = <<>>
  BY <1>1 DEF Parsing
<1>2. CASE i <= Len(s) /\ KeyRead(s, i).ok /\ KeyRead(s, i).text # <<>>
  <2>1. KeyRead(s, i).at \in i..(Len(s) + 1)
    BY <1>0, <1>2, ScanRange DEF KeyRead
  <2>2. g[KeyRead(s, i).at + 1] = h[KeyRead(s, i).at + 1]
    BY <1>0, <2>1
  <2>3. CASE KeyRead(s, i).at > Len(s) \/ s[KeyRead(s, i).at] # "="
    BY <1>2, <2>2, <2>3 DEF Parsing
  <2>4. CASE KeyRead(s, i).at <= Len(s) /\ s[KeyRead(s, i).at] = "="
    <3>1. CASE ~ValueRead(s, i).ok
      BY <1>0, <1>2, <2>1, <2>4, <3>1 DEF Parsing
    <3>2. CASE ValueRead(s, i).ok
      <4>1. KeyRead(s, i).at + 1 \in 1..(Len(s) + 1)
        BY <1>0, <2>1, <2>4
      <4>2. ValueRead(s, i).at \in (KeyRead(s, i).at + 1)..(Len(s) + 1)
        BY <3>2, <4>1, ScanRange DEF ValueRead
      <4>3. g[ValueRead(s, i).at + 1] = h[ValueRead(s, i).at + 1]
        BY <1>0, <2>1, <4>2
      <4>. QED BY <1>0, <1>2, <2>1, <2>4, <3>2, <4>3 DEF Parsing
    <3>. QED BY <3>1, <3>2
  <2>. QED BY <1>0, <2>1, <2>3, <2>4
<1>. QED BY <1>0, <1>1, <1>2

LEMMA ParseExists ==
  ASSUME NEW s \in Text
  PROVE  \E g : ParseFrom(s, 1, g)
<1>. DEFINE n == Len(s) + 2
            T == {i \in 1..n : \E g : ParseFrom(s, i, g)}
<1>1. n \in Nat /\ 1 \in 1..n
  BY DEF Text
<1>2. ASSUME NEW i \in 1..n, \A j \in (i + 1)..n : j \in T PROVE i \in T
  <2>1. PICK g : i < n => ParseFrom(s, i + 1, g)
    BY <1>1, <1>2
  <2>. DEFINE h == [j \in i..n |-> IF j = i THEN Parsing(g, i, s) ELSE g[j]]
  <2>2. ASSUME NEW j \in i..n PROVE h[j] = Parsing(h, j, s)
    <3>1. Parsing(g, j, s) = Parsing(h, j, s)
      <4>1. \A k \in (j + 1)..n : g[k] = h[k]
        BY <1>1
      <4>2. j \in 1..n
        BY <1>1
      <4>. HIDE DEF h
      <4>. QED BY <4>1, <4>2, ParsingLocal
    <3>2. CASE j = i
      BY <3>1, <3>2
    <3>3. CASE j # i
      <4>1. g[j] = Parsing(g, j, s)
        BY <1>1, <2>1, <3>3 DEF ParseFrom
      <4>. QED BY <3>1, <3>3, <4>1
    <3>. QED BY <3>2, <3>3
  <2>3. h = [j \in i..n |-> Parsing(h, j, s)]
    BY <2>2
  <2>. QED BY <2>3 DEF ParseFrom
<1>3. \A i \in 1..n : i \in T
  <2>. HIDE DEF T
  <2>. QED BY <1>1, <1>2, Downwards
<1>. QED BY <1>1, <1>3

LEMMA ParseIs ==
  ASSUME NEW s \in Text
  PROVE  \E f : ParseFrom(s, 1, f) /\ ParsePluginOptions(s) = f[1]
<1>. DEFINE f == CHOOSE g : ParseFrom(s, 1, g)
<1>1. ParseFrom(s, 1, f)
  BY ParseExists, Zenon
<1>2. ParsePluginOptions(s) = f[1]
  BY DEF ParsePluginOptions, ParseFrom, Parsing, KeyRead, ValueRead
<1>. QED BY <1>1, <1>2, Zenon

-----------------------------------------------------------------------------
(* Args *)

Pairs == (Text \ {<<>>}) \X Text

\* A pair in front of others decides what Get returns for its key.
LEMMA ArgsOfCons ==
  ASSUME NEW p \in Pairs, NEW rest \in Seq(Pairs)
  PROVE  ArgsOf(<<p>> \o rest) =
           [key \in {p[1]} \cup DOMAIN ArgsOf(rest) |->
              IF key = p[1] THEN p[2] ELSE ArgsOf(rest)[key]]
<1>. DEFINE q == <<p>> \o rest
            In(t, key) == {i \in DOMAIN t : t[i][1] = key}
<1>0. /\ Len(rest) \in Nat /\ DOMAIN rest = 1..Len(rest)
      /\ DOMAIN q = 1..(Len(rest) + 1)
      /\ q[1] = p /\ \A i \in 1..Len(rest) : q[i + 1] = rest[i]
  OBVIOUS
<1>. HIDE DEF q
<1>1. {q[i][1] : i \in DOMAIN q} = {p[1]} \cup {rest[i][1] : i \in DOMAIN rest}
  <2>1. ASSUME NEW i \in DOMAIN q PROVE q[i][1] \in {p[1]} \cup {rest[j][1] : j \in DOMAIN rest}
    <3>1. CASE i = 1
      BY <1>0, <3>1
    <3>2. CASE i # 1
      <4>1. i - 1 \in 1..Len(rest) /\ (i - 1) + 1 = i
        BY <1>0, <3>2
      <4>2. q[i] = rest[i - 1]
        BY <1>0, <4>1
      <4>. QED BY <1>0, <4>1, <4>2
    <3>. QED BY <3>1, <3>2
  <2>2. ASSUME NEW i \in DOMAIN rest PROVE rest[i][1] \in {q[j][1] : j \in DOMAIN q}
    <3>1. i + 1 \in DOMAIN q /\ q[i + 1] = rest[i]
      BY <1>0
    <3>. QED BY <3>1
  <2>3. p[1] \in {q[j][1] : j \in DOMAIN q}
    BY <1>0
  <2>. QED BY <2>1, <2>2, <2>3
<1>2. q[Min(In(q, p[1]))][2] = p[2]
  <2>1. In(q, p[1]) \subseteq Nat /\ 1 \in In(q, p[1]) /\ \A i \in In(q, p[1]) : 1 <= i
    BY <1>0
  <2>2. Min(In(q, p[1])) = 1
    <3>. HIDE DEF In
    <3>. QED BY <2>1, MinIs
  <2>. QED BY <1>0, <2>2
<1>3. ASSUME NEW key \in {rest[i][1] : i \in DOMAIN rest}, key # p[1]
      PROVE  q[Min(In(q, key))] = rest[Min(In(rest, key))]
  <2>. DEFINE m == Min(In(rest, key))
  <2>1. In(rest, key) \subseteq Nat /\ In(rest, key) # {}
    BY <1>0, <1>3
  <2>2. m \in In(rest, key) /\ \A i \in In(rest, key) : m <= i
    <3>. HIDE DEF In
    <3>. QED BY <2>1, MinOf
  <2>3. m \in 1..Len(rest) /\ rest[m][1] = key
    <3>. HIDE DEF m
    <3>. QED BY <1>0, <2>2
  <2>. HIDE DEF m
  <2>4. m + 1 \in In(q, key) /\ In(q, key) \subseteq Nat
    BY <1>0, <2>3
  <2>5. ASSUME NEW i \in In(q, key) PROVE m + 1 <= i
    <3>1. i # 1 /\ i \in 1..(Len(rest) + 1)
      BY <1>0, <1>3
    <3>2. i - 1 \in 1..Len(rest) /\ (i - 1) + 1 = i
      BY <1>0, <3>1
    <3>3. rest[i - 1] = q[i]
      BY <1>0, <3>2
    <3>4. i - 1 \in In(rest, key)
      BY <1>0, <3>2, <3>3
    <3>. QED BY <2>2, <2>3, <3>1, <3>2, <3>4
  <2>6. Min(In(q, key)) = m + 1
    <3>. HIDE DEF In
    <3>. QED BY <2>4, <2>5, MinIs
  <2>. QED BY <1>0, <2>3, <2>6 DEF m
<1>4. DOMAIN ArgsOf(rest) = {rest[i][1] : i \in DOMAIN rest}
  BY DEF ArgsOf
<1>5. ASSUME NEW key \in {q[i][1] : i \in DOMAIN q}
      PROVE  q[Min(In(q, key))][2] = IF key = p[1] THEN p[2] ELSE ArgsOf(rest)[key]
  <2>1. CASE key = p[1]
    BY <1>2, <2>1
  <2>2. CASE key # p[1]
    <3>1. key \in {rest[i][1] : i \in DOMAIN rest}
      BY <1>1, <2>2
    <3>2. ArgsOf(rest)[key] = rest[Min(In(rest, key))][2]
      BY <3>1 DEF ArgsOf
    <3>. QED BY <1>3, <2>2, <3>1, <3>2
  <2>. QED BY <2>1, <2>2
<1>6. ArgsOf(q) = [key \in {q[i][1] : i \in DOMAIN q} |-> q[Min(In(q, key))][2]]
  BY DEF ArgsOf
<1>. HIDE DEF In
<1>7. ArgsOf(q) = [key \in {p[1]} \cup DOMAIN ArgsOf(rest) |->
                     IF key = p[1] THEN p[2] ELSE ArgsOf(rest)[key]]
  BY <1>1, <1>4, <1>5, <1>6
<1>. QED BY <1>7 DEF q

LEMMA ArgsOfNone == ArgsOf(<<>>) = [key \in {} |-> <<>>]
BY DEF ArgsOf

\* What some of the fields of s say.
ArgsAt(s, starts) ==
  [key \in {KeyAt(s, from) : from \in starts} |->
     ValueAt(s, Min({from \in starts : KeyAt(s, from) = key}))]

LEMMA ArgsAtCons ==
  ASSUME NEW s, NEW later, later \subseteq Nat, NEW i \in Nat, \A from \in later : i < from
  PROVE  ArgsAt(s, {i} \cup later) =
           [key \in {KeyAt(s, i)} \cup DOMAIN ArgsAt(s, later) |->
              IF key = KeyAt(s, i) THEN ValueAt(s, i) ELSE ArgsAt(s, later)[key]]
<1>. DEFINE starts == {i} \cup later
            Of(S, key) == {from \in S : KeyAt(s, from) = key}
<1>1. Min(Of(starts, KeyAt(s, i))) = i
  <2>1. Of(starts, KeyAt(s, i)) \subseteq Nat /\ i \in Of(starts, KeyAt(s, i))
    OBVIOUS
  <2>2. \A n \in Of(starts, KeyAt(s, i)) : i <= n
    OBVIOUS
  <2>. HIDE DEF Of
  <2>. QED BY <2>1, <2>2, MinIs
<1>2. ASSUME NEW key, key # KeyAt(s, i) PROVE Of(starts, key) = Of(later, key)
  BY <1>2
<1>3. {KeyAt(s, from) : from \in starts} = {KeyAt(s, i)} \cup {KeyAt(s, from) : from \in later}
  OBVIOUS
<1>4. DOMAIN ArgsAt(s, later) = {KeyAt(s, from) : from \in later}
  BY DEF ArgsAt
<1>5. ASSUME NEW key \in {KeyAt(s, from) : from \in starts}
      PROVE  ValueAt(s, Min(Of(starts, key))) =
               IF key = KeyAt(s, i) THEN ValueAt(s, i) ELSE ArgsAt(s, later)[key]
  <2>1. CASE key = KeyAt(s, i)
    BY <1>1, <2>1
  <2>2. CASE key # KeyAt(s, i)
    <3>1. key \in {KeyAt(s, from) : from \in later}
      BY <1>3, <2>2
    <3>2. ArgsAt(s, later)[key] = ValueAt(s, Min(Of(later, key)))
      BY <3>1 DEF ArgsAt
    <3>. QED BY <1>2, <2>2, <3>2
  <2>. QED BY <2>1, <2>2
<1>6. ArgsAt(s, starts) = [key \in {KeyAt(s, from) : from \in starts} |->
                             ValueAt(s, Min(Of(starts, key)))]
  BY DEF ArgsAt
<1>. HIDE DEF Of
<1>. QED BY <1>3, <1>4, <1>5, <1>6

-----------------------------------------------------------------------------
(* parsePluginOptions and the text as a whole *)

Later(s, i) == {from \in FieldStarts(s) : from >= i}

\* The fields from one on are that one and those behind its end.
LEMMA LaterStep ==
  ASSUME NEW s \in Text, NEW i \in FieldStarts(s)
  PROVE  LET e == FieldEnd(s, i) IN
         /\ Later(s, i) = {i} \cup Later(s, e + 1)
         /\ \A from \in Later(s, e + 1) : i < from
         /\ Later(s, e + 1) \subseteq Nat
         /\ e + 1 <= Len(s) => e + 1 \in FieldStarts(s)
<1>. DEFINE e == FieldEnd(s, i)
<1>0. Len(s) \in Nat /\ i \in 1..Len(s) /\ ~Escaped(s, i) /\ FieldStarts(s) \subseteq 1..Len(s)
  BY FieldStartIs DEF Text
<1>1. /\ e \in i..(Len(s) + 1)
      /\ e <= Len(s) => e \in Unescaped(s, Semicolon)
      /\ \A j \in i..(e - 1) : j \notin Unescaped(s, Semicolon)
  BY <1>0, FieldParts
<1>. HIDE DEF e
<1>2. ASSUME NEW from \in FieldStarts(s), from >= i, from # i PROVE from >= e + 1
  <2>1. PICK j \in Unescaped(s, Semicolon) : from = j + 1
    BY <1>0, <1>2 DEF FieldStarts
  <2>2. j \in Nat
    BY DEF Unescaped, Text
  <2>3. j >= i
    BY <1>0, <1>2, <2>1, <2>2
  <2>. QED BY <1>0, <1>1, <2>1, <2>2, <2>3
<1>3. e + 1 <= Len(s) => e + 1 \in FieldStarts(s)
  <2>1. e + 1 <= Len(s) => e \in Unescaped(s, Semicolon) /\ e + 1 \in DOMAIN s
    BY <1>0, <1>1 DEF Text
  <2>. QED BY <2>1 DEF FieldStarts
<1>4. \A from \in Later(s, e + 1) : i < from
  BY <1>0, <1>1 DEF Later
<1>5. Later(s, e + 1) \subseteq Nat
  BY <1>0 DEF Later
<1>6. Later(s, i) = {i} \cup Later(s, e + 1)
  BY <1>0, <1>1, <1>2 DEF Later
<1>. QED BY <1>3, <1>4, <1>5, <1>6 DEF e

\* What parsing from a field on must say.
Reads(s, i, r) ==
  /\ r.ok \in BOOLEAN
  /\ r.ok <=> /\ i > Len(s) \/ Len(s) \notin Unescaped(s, Backslash)
              /\ \A from \in Later(s, i) : KeyEnd(s, from) # from
  /\ r.ok => /\ r = [ok |-> TRUE, pairs |-> r.pairs]
             /\ r.pairs \in Seq(Pairs)
             /\ ArgsOf(r.pairs) = ArgsAt(s, Later(s, i))

\* A field that is read, in front of the others.
LEMMA ReadsAdd ==
  ASSUME NEW s \in Text, NEW i \in FieldStarts(s), NEW rest,
         Reads(s, FieldEnd(s, i) + 1, rest),
         FieldEnd(s, i) <= Len(s) \/ Len(s) \notin Unescaped(s, Backslash),
         KeyEnd(s, i) # i, KeyAt(s, i) \in Text \ {<<>>}, ValueAt(s, i) \in Text
  PROVE  Reads(s, i, Add(KeyAt(s, i), ValueAt(s, i), rest))
<1>. DEFINE e == FieldEnd(s, i)
            r == Add(KeyAt(s, i), ValueAt(s, i), rest)
            p == <<KeyAt(s, i), ValueAt(s, i)>>
<1>0. Len(s) \in Nat /\ i \in 1..Len(s) /\ ~Escaped(s, i)
  BY FieldStartIs DEF Text
<1>1. e \in i..(Len(s) + 1) /\ (e <= Len(s) => e \in Unescaped(s, Semicolon))
  BY <1>0, FieldParts
<1>2. e <= Len(s) => e \notin Unescaped(s, Backslash)
  BY <1>1, SymbolsDiffer DEF Unescaped
<1>3. (e + 1 > Len(s) \/ Len(s) \notin Unescaped(s, Backslash)) <=> Len(s) \notin Unescaped(s, Backslash)
  <2>. HIDE DEF e
  <2>1. CASE e + 1 <= Len(s)
    BY <1>0, <1>1, <2>1
  <2>2. CASE e = Len(s)
    BY <1>0, <1>1, <1>2, <2>2
  <2>3. CASE e = Len(s) + 1
    BY <1>0, <1>1, <2>3 DEF e
  <2>. QED BY <1>0, <1>1, <2>1, <2>2, <2>3
<1>4. /\ Later(s, i) = {i} \cup Later(s, e + 1)
      /\ \A from \in Later(s, e + 1) : i < from
      /\ Later(s, e + 1) \subseteq Nat
  BY LaterStep
<1>5. rest.ok <=> /\ i > Len(s) \/ Len(s) \notin Unescaped(s, Backslash)
                  /\ \A from \in Later(s, i) : KeyEnd(s, from) # from
  <2>. HIDE DEF e
  <2>1. rest.ok <=> /\ e + 1 > Len(s) \/ Len(s) \notin Unescaped(s, Backslash)
                    /\ \A from \in Later(s, e + 1) : KeyEnd(s, from) # from
    BY DEF Reads, e
  <2>2. ~(i > Len(s))
    BY <1>0
  <2>. QED BY <1>3, <1>4, <2>1, <2>2
<1>6. CASE ~rest.ok
  <2>1. r = Failed
    BY <1>6 DEF Add
  <2>2. r.ok = FALSE
    BY <2>1 DEF Failed
  <2>. HIDE DEF r
  <2>. QED BY <1>5, <1>6, <2>2 DEF Reads, r
<1>7. CASE rest.ok
  <2>1. r = [ok |-> TRUE, pairs |-> <<p>> \o rest.pairs]
    BY <1>7 DEF Add
  <2>2. p \in Pairs /\ rest.pairs \in Seq(Pairs) /\ ArgsOf(rest.pairs) = ArgsAt(s, Later(s, e + 1))
    BY <1>7 DEF Reads, Pairs
  <2>3. <<p>> \o rest.pairs \in Seq(Pairs)
    <3>. HIDE DEF p
    <3>. QED BY <2>2
  <2>4. ArgsOf(<<p>> \o rest.pairs) =
          [key \in {p[1]} \cup DOMAIN ArgsOf(rest.pairs) |->
             IF key = p[1] THEN p[2] ELSE ArgsOf(rest.pairs)[key]]
    <3>. HIDE DEF p
    <3>. QED BY <2>2, ArgsOfCons
  <2>5. ArgsAt(s, {i} \cup Later(s, e + 1)) =
          [key \in {KeyAt(s, i)} \cup DOMAIN ArgsAt(s, Later(s, e + 1)) |->
             IF key = KeyAt(s, i) THEN ValueAt(s, i) ELSE ArgsAt(s, Later(s, e + 1))[key]]
    <3>1. i \in Nat
      BY <1>0
    <3>. HIDE DEF e
    <3>. QED BY <1>4, <3>1, ArgsAtCons
  <2>6. p[1] = KeyAt(s, i) /\ p[2] = ValueAt(s, i)
    OBVIOUS
  <2>7. ArgsOf(<<p>> \o rest.pairs) = ArgsAt(s, Later(s, i))
    <3>. HIDE DEF p, e
    <3>. QED BY <1>4, <2>2, <2>4, <2>5, <2>6
  <2>8. r.ok = TRUE /\ r.pairs = <<p>> \o rest.pairs
    BY <2>1
  <2>9. r = [ok |-> TRUE, pairs |-> r.pairs]
    BY <2>1
  <2>10. Reads(s, i, r)
    <3>. HIDE DEF r, p, e
    <3>. QED BY <1>5, <1>7, <2>3, <2>7, <2>8, <2>9 DEF Reads
  <2>. QED BY <2>10
<1>. QED BY <1>6, <1>7

\* A field where the scanner gives up is one where Parsed does.
LEMMA ReadsFailed ==
  ASSUME NEW s \in Text, NEW i \in FieldStarts(s),
         Len(s) \in Unescaped(s, Backslash) \/ KeyEnd(s, i) = i
  PROVE  Reads(s, i, Failed)
<1>1. Failed.ok = FALSE
  BY DEF Failed
<1>2. i \in Later(s, i) /\ ~(i > Len(s))
  BY FieldStartIs DEF Later, Text
<1>. QED BY <1>1, <1>2 DEF Reads

\* One turn of parsePluginOptions's loop.
LEMMA ReadsField ==
  ASSUME NEW s \in Text, NEW i \in FieldStarts(s), NEW f,
         Reads(s, FieldEnd(s, i) + 1, f[FieldEnd(s, i) + 1])
  PROVE  Reads(s, i, Parsing(f, i, s))
<1>. DEFINE k == KeyEnd(s, i)
            e == FieldEnd(s, i)
            complete == Len(s) \notin Unescaped(s, Backslash)
            key == KeyRead(s, i)
            value == ValueRead(s, i)
<1>0. Len(s) \in Nat /\ i \in 1..Len(s) /\ i \in 1..(Len(s) + 1) /\ ~Escaped(s, i)
  BY FieldStartIs DEF Text
<1>1. /\ e \in i..(Len(s) + 1) /\ k \in i..e
      /\ k = NextStop(s, i, {"=", Semicolon})
      /\ k < e => s[k] = "=" /\ ~Escaped(s, k + 1) /\ NextStop(s, k + 1, {Semicolon}) = e
      /\ k = e => k > Len(s) \/ s[k] # "="
  BY <1>0, FieldParts
<1>2. key = IF k <= Len(s) \/ complete THEN [ok |-> TRUE, at |-> k, text |-> KeyAt(s, i)] ELSE Failed
  <2>1. Backslash \notin {"=", Semicolon}
    BY SymbolsDiffer
  <2>2. key = Found(s, i, {"=", Semicolon})
    BY <1>0, <2>1, ScanFinds DEF KeyRead
  <2>. QED BY <1>1, <2>2 DEF Found, KeyAt
<1>3. CASE ~(k <= Len(s) \/ complete)
  <2>1. ~key.ok
    BY <1>2, <1>3 DEF Failed
  <2>2. Parsing(f, i, s) = Failed
    BY <1>0, <2>1 DEF Parsing
  <2>. QED BY <1>3, <2>2, ReadsFailed
<1>4. CASE k <= Len(s) \/ complete
  <2>1. key = [ok |-> TRUE, at |-> k, text |-> KeyAt(s, i)]
    BY <1>2, <1>4
  <2>2. key.ok /\ key.at = k /\ key.text = KeyAt(s, i)
    <3>. HIDE DEF key, k
    <3>. QED BY <2>1
  <2>3. KeyAt(s, i) = <<>> <=> k = i
    BY <1>0, <1>4, KeyEmpty
  <2>4. KeyAt(s, i) \in Text
    <3>1. k \in 1..(Len(s) + 1) /\ i \in 1..k
      <4>. HIDE DEF k, e
      <4>. QED BY <1>0, <1>1
    <3>. QED BY <3>1, PlainType DEF KeyAt
  <2>5. CASE k = i
    <3>1. Parsing(f, i, s) = Failed
      <4>. HIDE DEF k
      <4>. QED BY <1>0, <2>2, <2>3, <2>5 DEF Parsing, key
    <3>. QED BY <2>5, <3>1, ReadsFailed
  <2>6. CASE k # i /\ k = e
    <3>1. ValueAt(s, i) = <<"1">>
      BY <2>6 DEF ValueAt
    <3>2. ValueAt(s, i) \in Text
      <4>1. "1" \in Symbols
        BY BitWidthAssumption DEF Symbols
      <4>2. <<"1">> \in Text
        BY <4>1 DEF Text
      <4>. QED BY <3>1, <4>2
    <3>3. Parsing(f, i, s) = Add(KeyAt(s, i), ValueAt(s, i), f[e + 1])
      <4>1. KeyRead(s, i).ok /\ KeyRead(s, i).at = e /\ KeyRead(s, i).text = KeyAt(s, i)
        BY <2>2, <2>6
      <4>2. e > Len(s) \/ s[e] # "="
        BY <1>1, <2>6
      <4>3. KeyAt(s, i) # <<>> /\ ~(i > Len(s))
        BY <1>0, <2>3, <2>6
      <4>. HIDE DEF e, k, key
      <4>. QED BY <3>1, <4>1, <4>2, <4>3 DEF Parsing
    <3>4. e <= Len(s) \/ complete
      BY <1>4, <2>6
    <3>5. KeyAt(s, i) \in Text \ {<<>>}
      BY <2>3, <2>4, <2>6
    <3>. QED BY <2>6, <3>2, <3>3, <3>4, <3>5, ReadsAdd
  <2>7. CASE k # i /\ k # e
    <3>0. k < e /\ k <= Len(s) /\ k + 1 \in 1..(Len(s) + 1)
      <4>. HIDE DEF k, e
      <4>. QED BY <1>0, <1>1, <2>7
    <3>1. value = IF e <= Len(s) \/ complete
                  THEN [ok |-> TRUE, at |-> e, text |-> Plain(s, k + 1, e)] ELSE Failed
      <4>1. Backslash \notin {Semicolon}
        BY SymbolsDiffer
      <4>2. value = IndexUnescaped(s, k + 1, {Semicolon})
        BY <2>2 DEF ValueRead
      <4>3. IndexUnescaped(s, k + 1, {Semicolon}) = Found(s, k + 1, {Semicolon})
        <5>. HIDE DEF k
        <5>. QED BY <1>1, <3>0, <4>1, ScanFinds
      <4>. QED BY <1>1, <3>0, <4>2, <4>3 DEF Found
    <3>2. ValueAt(s, i) = Plain(s, k + 1, e)
      BY <2>7 DEF ValueAt
    <3>3. /\ KeyRead(s, i).ok /\ KeyRead(s, i).at = k /\ KeyRead(s, i).text = KeyAt(s, i)
          /\ KeyAt(s, i) # <<>> /\ ~(i > Len(s)) /\ ~(k > Len(s)) /\ s[k] = "="
      <4>. HIDE DEF k, e
      <4>. QED BY <1>0, <1>1, <2>2, <2>3, <2>7, <3>0 DEF key
    <3>4. CASE ~(e <= Len(s) \/ complete)
      <4>1. ~ValueRead(s, i).ok
        BY <3>1, <3>4 DEF Failed
      <4>2. Parsing(f, i, s) = Failed
        <5>. HIDE DEF k
        <5>. QED BY <3>3, <4>1 DEF Parsing
      <4>. QED BY <3>4, <4>2, ReadsFailed
    <3>5. CASE e <= Len(s) \/ complete
      <4>1. value = [ok |-> TRUE, at |-> e, text |-> ValueAt(s, i)]
        BY <3>1, <3>2, <3>5
      <4>2. ValueRead(s, i).ok /\ ValueRead(s, i).at = e /\ ValueRead(s, i).text = ValueAt(s, i)
        <5>1. value.ok /\ value.at = e /\ value.text = ValueAt(s, i)
          <6>. HIDE DEF value, e
          <6>. QED BY <4>1
        <5>. QED BY <5>1
      <4>3. Parsing(f, i, s) = Add(KeyAt(s, i), ValueAt(s, i), f[e + 1])
        <5>. HIDE DEF k, e, key, value
        <5>. QED BY <3>3, <4>2 DEF Parsing
      <4>4. KeyAt(s, i) \in Text \ {<<>>}
        BY <2>4, <3>3
      <4>5. ValueAt(s, i) \in Text
        <5>1. e \in 1..(Len(s) + 1) /\ k + 1 \in 1..e
          <6>. HIDE DEF k, e
          <6>. QED BY <1>0, <1>1, <3>0
        <5>. QED BY <3>2, <5>1, PlainType
      <4>. QED BY <2>7, <3>5, <4>3, <4>4, <4>5, ReadsAdd
    <3>. QED BY <3>4, <3>5
  <2>. QED BY <2>5, <2>6, <2>7
<1>. QED BY <1>3, <1>4

\* The scanner resumes at each field, up to the end of the text.
LEMMA ParseReads ==
  ASSUME NEW s \in Text, NEW f, ParseFrom(s, 1, f)
  PROVE  \A i \in 1..(Len(s) + 2) : i > Len(s) \/ i \in FieldStarts(s) => Reads(s, i, f[i])
<1>. DEFINE Due(i) == i > Len(s) \/ i \in FieldStarts(s)
            T == {i \in 1..(Len(s) + 2) : Due(i) => Reads(s, i, f[i])}
<1>0. Len(s) \in Nat
  BY DEF Text
<1>1. \A i \in 1..(Len(s) + 2) : f[i] = Parsing(f, i, s)
  BY <1>0 DEF ParseFrom
<1>2. ASSUME NEW i \in 1..(Len(s) + 2), \A j \in (i + 1)..(Len(s) + 2) : j \in T, Due(i)
      PROVE  Reads(s, i, f[i])
  <2>1. CASE i > Len(s)
    <3>1. f[i] = [ok |-> TRUE, pairs |-> <<>>]
      BY <1>1, <2>1 DEF Parsing
    <3>2. Later(s, i) = {}
      <4>1. \A from \in FieldStarts(s) : from \in Nat /\ from <= Len(s)
        BY <1>0, FieldStartIs
      <4>. QED BY <1>0, <2>1, <4>1 DEF Later
    <3>3. ArgsOf(<<>>) = ArgsAt(s, Later(s, i))
      BY <3>2, ArgsOfNone DEF ArgsAt
    <3>4. <<>> \in Seq(Pairs)
      OBVIOUS
    <3>5. f[i].ok = TRUE /\ f[i].pairs = <<>>
      BY <3>1
    <3>. QED BY <2>1, <3>1, <3>2, <3>3, <3>4, <3>5 DEF Reads
  <2>2. CASE i \in FieldStarts(s)
    <3>. DEFINE e == FieldEnd(s, i)
    <3>1. i \in 1..Len(s) /\ ~Escaped(s, i)
      BY <2>2, FieldStartIs
    <3>2. e \in i..(Len(s) + 1)
      BY <3>1, FieldParts
    <3>3. e + 1 > Len(s) \/ e + 1 \in FieldStarts(s)
      <4>1. e + 1 <= Len(s) => e + 1 \in FieldStarts(s)
        BY <2>2, LaterStep
      <4>2. e + 1 > Len(s) \/ e + 1 <= Len(s)
        <5>. HIDE DEF e
        <5>. QED BY <1>0, <3>2
      <4>. QED BY <4>1, <4>2
    <3>4. e + 1 \in (i + 1)..(Len(s) + 2)
      <4>. HIDE DEF e
      <4>. QED BY <1>0, <3>2
    <3>5. Reads(s, e + 1, f[e + 1])
      <4>1. e + 1 \in T
        <5>. HIDE DEF e, T
        <5>. QED BY <1>2, <3>4
      <4>. HIDE DEF e
      <4>. QED BY <3>3, <4>1
    <3>6. Reads(s, i, Parsing(f, i, s))
      BY <2>2, <3>5, ReadsField
    <3>7. f[i] = Parsing(f, i, s)
      BY <1>1
    <3>. QED BY <3>6, <3>7
  <2>. QED BY <1>2, <2>1, <2>2
<1>3. \A i \in 1..(Len(s) + 2) : i \in T
  <2>1. \A i \in 1..(Len(s) + 2) : (\A j \in (i + 1)..(Len(s) + 2) : j \in T) => i \in T
    BY <1>2
  <2>2. Len(s) + 2 \in Nat
    BY <1>0
  <2>. HIDE DEF T
  <2>. QED BY <2>1, <2>2, Downwards
<1>. QED BY <1>3

\* For every text, parsePluginOptions fails exactly where the text as a whole is
\* not one of options (a backslash that escapes nothing, an empty key), and
\* otherwise finds the keys and values that unescaped semicolons and equals
\* signs delimit, of a key's values the first.
THEOREM ParseFinds ==
  ASSUME NEW s \in Text
  PROVE  LET r == ParsePluginOptions(s) IN
         /\ r.ok <=> Parsed(s).ok
         /\ r.ok => /\ r = [ok |-> TRUE, pairs |-> r.pairs]
                    /\ r.pairs \in Seq(Pairs)
                    /\ ArgsOf(r.pairs) = Parsed(s).args
<1>0. Len(s) \in Nat
  BY DEF Text
<1>1. PICK f : ParseFrom(s, 1, f) /\ ParsePluginOptions(s) = f[1]
  BY ParseIs
<1>2. 1 > Len(s) \/ 1 \in FieldStarts(s)
  BY <1>0 DEF FieldStarts, Text
<1>3. Reads(s, 1, f[1])
  BY <1>0, <1>1, <1>2, ParseReads
<1>4. Later(s, 1) = FieldStarts(s)
  BY <1>0, FieldStartIs DEF Later
<1>5. 1 > Len(s) => Len(s) \notin Unescaped(s, Backslash)
  BY <1>0 DEF Unescaped, Text
<1>. DEFINE fails == \/ Len(s) \in Unescaped(s, Backslash)
                     \/ \E from \in FieldStarts(s) : KeyEnd(s, from) = from
<1>6. Parsed(s) = IF fails THEN Failed ELSE [ok |-> TRUE, args |-> ArgsAt(s, FieldStarts(s))]
  BY DEF Parsed, ArgsAt
<1>7. f[1].ok <=> ~fails
  BY <1>3, <1>4, <1>5 DEF Reads
<1>8. f[1].ok => /\ f[1] = [ok |-> TRUE, pairs |-> f[1].pairs]
                 /\ f[1].pairs \in Seq(Pairs)
                 /\ ArgsOf(f[1].pairs) = ArgsAt(s, FieldStarts(s))
  BY <1>3, <1>4 DEF Reads
<1>9. Parsed(s).ok <=> ~fails
  <2>. HIDE DEF fails
  <2>. QED BY <1>6 DEF Failed
<1>10. ~fails => Parsed(s).args = ArgsAt(s, FieldStarts(s))
  <2>. HIDE DEF fails
  <2>. QED BY <1>6
<1>. HIDE DEF fails
<1>. QED BY <1>1, <1>7, <1>8, <1>9, <1>10

-----------------------------------------------------------------------------
(* Escaping *)

\* The text w stands in s from i on.
Stands(s, i, w) ==
  /\ i + Len(w) <= Len(s) + 1
  /\ \A n \in 1..Len(w) : s[(i + n) - 1] = w[n]

LEMMA StandsAppend ==
  ASSUME NEW s \in Text, NEW i \in Nat \ {0}, NEW u \in Text, NEW w \in Text, Stands(s, i, u \o w)
  PROVE  Stands(s, i, u) /\ Stands(s, i + Len(u), w)
<1>. DEFINE v == u \o w
<1>0. Len(s) \in Nat /\ Len(u) \in Nat /\ Len(w) \in Nat
  BY DEF Text
<1>1. /\ Len(v) = Len(u) + Len(w)
      /\ \A n \in 1..Len(u) : v[n] = u[n]
      /\ \A n \in 1..Len(w) : v[Len(u) + n] = w[n]
  BY DEF Text
<1>2. i + Len(v) <= Len(s) + 1 /\ \A n \in 1..Len(v) : s[(i + n) - 1] = v[n]
  BY DEF Stands
<1>. HIDE DEF v
<1>3. Stands(s, i, u)
  BY <1>0, <1>1, <1>2 DEF Stands
<1>4. ASSUME NEW n \in 1..Len(w) PROVE s[((i + Len(u)) + n) - 1] = w[n]
  <2>1. Len(u) + n \in 1..Len(v) /\ ((i + Len(u)) + n) - 1 = (i + (Len(u) + n)) - 1
    BY <1>0, <1>1
  <2>. QED BY <1>1, <1>2, <2>1
<1>5. (i + Len(u)) + Len(w) <= Len(s) + 1
  BY <1>0, <1>1, <1>2
<1>. QED BY <1>3, <1>4, <1>5 DEF Stands

\* Named, so that the provers need not look into it.
Prefixed(a, w) == <<a>> \o w

LEMMA StandsCons ==
  ASSUME NEW s \in Text, NEW i \in Nat \ {0}, NEW a \in Symbols, NEW w \in Text,
         Stands(s, i, Prefixed(a, w))
  PROVE  /\ i \in 1..Len(s) /\ s[i] = a
         /\ Stands(s, i + 1, w) /\ i + Len(Prefixed(a, w)) = (i + 1) + Len(w)
<1>0. Len(s) \in Nat /\ Len(w) \in Nat /\ <<a>> \in Text /\ Len(<<a>>) = 1 /\ <<a>>[1] = a
  BY DEF Text
<1>1. Stands(s, i, <<a>>) /\ Stands(s, i + 1, w)
  BY <1>0, StandsAppend DEF Prefixed
<1>2. i + 1 <= Len(s) + 1 /\ s[(i + 1) - 1] = a
  BY <1>0, <1>1 DEF Stands
<1>3. Len(Prefixed(a, w)) = 1 + Len(w)
  BY DEF Text, Prefixed
<1>. QED BY <1>0, <1>1, <1>2, <1>3

\* The tail of a sequence, from one position and from the next.
LEMMA Suffix ==
  ASSUME NEW S, NEW t \in Seq(S)
  PROVE  /\ SubSeq(t, 1, Len(t)) = t
         /\ SubSeq(t, Len(t) + 1, Len(t)) = <<>>
         /\ \A j \in 1..Len(t) :
              /\ t[j] \in S /\ SubSeq(t, j + 1, Len(t)) \in Seq(S)
              /\ SubSeq(t, j, Len(t)) = <<t[j]>> \o SubSeq(t, j + 1, Len(t))
<1>1. ASSUME NEW j \in 1..Len(t)
      PROVE  SubSeq(t, j, Len(t)) = <<t[j]>> \o SubSeq(t, j + 1, Len(t))
  <2>. DEFINE u == SubSeq(t, j, Len(t))
              v == SubSeq(t, j + 1, Len(t))
  <2>1. u \in Seq(S) /\ v \in Seq(S) /\ t[j] \in S
    OBVIOUS
  <2>2. Len(u) = (Len(t) - j) + 1 /\ Len(v) = Len(t) - j
    OBVIOUS
  <2>3. \A n \in 1..Len(u) : u[n] = t[(j + n) - 1]
    OBVIOUS
  <2>4. \A n \in 1..Len(v) : v[n] = t[((j + 1) + n) - 1]
    OBVIOUS
  <2>5. <<t[j]>> \o v \in Seq(S) /\ Len(<<t[j]>> \o v) = 1 + Len(v)
    <3>. HIDE DEF v
    <3>. QED BY <2>1
  <2>6. \A n \in 1..Len(u) : (<<t[j]>> \o v)[n] = u[n]
    <3>1. (<<t[j]>> \o v)[1] = t[j] /\ \A n \in 1..Len(v) : (<<t[j]>> \o v)[1 + n] = v[n]
      <4>. HIDE DEF v
      <4>. QED BY <2>1
    <3>. HIDE DEF u, v
    <3>2. ASSUME NEW n \in 1..Len(u) PROVE (<<t[j]>> \o v)[n] = u[n]
      <4>1. CASE n = 1
        BY <2>2, <2>3, <3>1, <4>1
      <4>2. CASE n # 1
        <5>1. n - 1 \in 1..Len(v) /\ 1 + (n - 1) = n /\ ((j + 1) + (n - 1)) - 1 = (j + n) - 1
          BY <2>2, <4>2
        <5>2. (<<t[j]>> \o v)[n] = v[n - 1]
          BY <3>1, <5>1
        <5>3. v[n - 1] = t[(j + n) - 1]
          BY <2>4, <5>1
        <5>. QED BY <2>3, <5>2, <5>3
      <4>. QED BY <4>1, <4>2
    <3>. QED BY <3>2
  <2>. HIDE DEF u, v
  <2>7. Len(u) = Len(<<t[j]>> \o v)
    BY <2>2, <2>5
  <2>8. u = <<t[j]>> \o v
    BY <2>1, <2>5, <2>6, <2>7, SeqEqual
  <2>. QED BY <2>8 DEF u, v
<1>2. SubSeq(t, 1, Len(t)) = t
  OBVIOUS
<1>3. SubSeq(t, Len(t) + 1, Len(t)) = <<>>
  OBVIOUS
<1>4. \A j \in 1..Len(t) : t[j] \in S /\ SubSeq(t, j + 1, Len(t)) \in Seq(S)
  OBVIOUS
<1>. QED BY <1>1, <1>2, <1>3, <1>4

Special == {Semicolon, "="}

\* The body of BackslashEscape, for what Escape escapes.
Escaping(g, j, t) ==
  IF j > Len(t)                                  THEN <<>>
  ELSE IF t[j] = Backslash \/ t[j] \in Special   THEN <<Backslash, t[j]>> \o g[j + 1]
  ELSE <<t[j]>> \o g[j + 1]

EscapeFrom(t, first, g) == g = [j \in first..(Len(t) + 1) |-> Escaping(g, j, t)]

LEMMA EscapeExists ==
  ASSUME NEW t \in Text
  PROVE  \E g : EscapeFrom(t, 1, g)
<1>. DEFINE n == Len(t) + 1
            T == {j \in 1..n : \E g : EscapeFrom(t, j, g)}
<1>1. n \in Nat /\ 1 \in 1..n
  BY DEF Text
<1>2. ASSUME NEW j \in 1..n, \A k \in (j + 1)..n : k \in T PROVE j \in T
  <2>1. PICK g : j < n => EscapeFrom(t, j + 1, g)
    BY <1>1, <1>2
  <2>. DEFINE h == [k \in j..n |-> IF k = j THEN Escaping(g, j, t) ELSE g[k]]
  <2>2. ASSUME NEW k \in j..n PROVE h[k] = Escaping(h, k, t)
    <3>1. Escaping(h, k, t) = Escaping(g, k, t)
      BY <1>1 DEF Escaping
    <3>2. CASE k = j
      BY <3>1, <3>2
    <3>3. CASE k # j
      BY <1>1, <3>1, <3>3, <2>1 DEF EscapeFrom
    <3>. QED BY <3>2, <3>3
  <2>3. h = [k \in j..n |-> Escaping(h, k, t)]
    BY <2>2
  <2>. QED BY <2>3 DEF EscapeFrom
<1>3. \A j \in 1..n : j \in T
  BY <1>1, <1>2, Downwards
<1>. QED BY <1>1, <1>3

LEMMA EscapeIs ==
  ASSUME NEW t \in Text
  PROVE  \E g : EscapeFrom(t, 1, g) /\ Escape(t) = g[1]
<1>. DEFINE f == CHOOSE g : EscapeFrom(t, 1, g)
<1>1. EscapeFrom(t, 1, f)
  BY EscapeExists, Zenon
<1>2. Escape(t) = f[1]
  BY DEF Escape, BackslashEscape, EscapeFrom, Escaping, Special
<1>. QED BY <1>1, <1>2, Zenon

LEMMA EscapeType ==
  ASSUME NEW t \in Text, NEW g, EscapeFrom(t, 1, g)
  PROVE  \A j \in 1..(Len(t) + 1) : g[j] \in Text
<1>. DEFINE T == {j \in 1..(Len(t) + 1) : g[j] \in Text}
<1>0. Len(t) \in Nat
  BY DEF Text
<1>1. ASSUME NEW j \in 1..(Len(t) + 1), \A k \in (j + 1)..(Len(t) + 1) : k \in T PROVE g[j] \in Text
  <2>0. g[j] = Escaping(g, j, t)
    BY DEF EscapeFrom
  <2>1. CASE j > Len(t)
    <3>1. g[j] = <<>>
      BY <2>0, <2>1 DEF Escaping
    <3>. QED BY <3>1 DEF Text
  <2>2. CASE j <= Len(t)
    <3>1. g[j + 1] \in Text /\ t[j] \in Symbols /\ Backslash \in Symbols
      BY <1>0, <1>1, <2>2 DEF Text, Symbols
    <3>2. <<t[j]>> \o g[j + 1] \in Text /\ <<Backslash, t[j]>> \o g[j + 1] \in Text
      BY <3>1 DEF Text
    <3>3. g[j] \in {<<t[j]>> \o g[j + 1], <<Backslash, t[j]>> \o g[j + 1]}
      BY <1>0, <2>0, <2>2 DEF Escaping
    <3>. QED BY <3>2, <3>3
  <2>. QED BY <1>0, <2>1, <2>2
<1>2. \A j \in 1..(Len(t) + 1) : j \in T
  <2>1. \A j \in 1..(Len(t) + 1) : (\A k \in (j + 1)..(Len(t) + 1) : k \in T) => j \in T
    BY <1>1
  <2>2. Len(t) + 1 \in Nat
    BY <1>0
  <2>. HIDE DEF T
  <2>. QED BY <2>1, <2>2, Downwards
<1>. QED BY <1>2

LEMMA BeforeIs ==
  ASSUME NEW symbol, NEW at, NEW text, NEW rest, rest = [ok |-> TRUE, at |-> at, text |-> text]
  PROVE  Before(symbol, rest) = [ok |-> TRUE, at |-> at, text |-> <<symbol>> \o text]
BY DEF Before

\* Where w stands, and then the end or a symbol of term, the scanner reads text.
Undoes(s, i, term, w, text) ==
  LET end == i + Len(w) IN
  Stands(s, i, w) /\ (end > Len(s) \/ s[end] \in term) =>
    IndexUnescaped(s, i, term) = [ok |-> TRUE, at |-> end, text |-> text]

\* indexUnescaped undoes the escaping, where it then meets a symbol it looks for.
LEMMA EscapeScanned ==
  ASSUME NEW s \in Text, NEW t \in Text, NEW g, EscapeFrom(t, 1, g),
         NEW term, term \subseteq Special
  PROVE  \A j \in 1..(Len(t) + 1) : \A i \in Nat \ {0} :
           Undoes(s, i, term, g[j], SubSeq(t, j, Len(t)))
<1>. DEFINE Undone(j, i) == Undoes(s, i, term, g[j], SubSeq(t, j, Len(t)))
            T == {j \in 1..(Len(t) + 1) : \A i \in Nat \ {0} : Undone(j, i)}
<1>0. Len(s) \in Nat /\ Len(t) \in Nat
  BY DEF Text
<1>1. ASSUME NEW j \in 1..(Len(t) + 1), \A k \in (j + 1)..(Len(t) + 1) : k \in T,
             NEW i \in Nat \ {0}, Stands(s, i, g[j]),
             i + Len(g[j]) > Len(s) \/ s[i + Len(g[j])] \in term
      PROVE  IndexUnescaped(s, i, term) =
               [ok |-> TRUE, at |-> i + Len(g[j]), text |-> SubSeq(t, j, Len(t))]
  <2>0. g[j] = Escaping(g, j, t) /\ g[j] \in Text
    <3>1. g[j] = Escaping(g, j, t)
      BY DEF EscapeFrom
    <3>. QED BY <3>1, EscapeType
  <2>1. i \in 1..(Len(s) + 1)
    <3>1. i + Len(g[j]) <= Len(s) + 1 /\ Len(g[j]) \in Nat
      BY <1>1, <2>0 DEF Stands, Text
    <3>. QED BY <1>0, <3>1
  <2>2. CASE j > Len(t)
    <3>1. g[j] = <<>> /\ Len(<<>>) = 0
      BY <2>0, <2>2 DEF Escaping
    <3>2. i + Len(g[j]) = i
      BY <3>1
    <3>3. SubSeq(t, j, Len(t)) = <<>>
      <4>1. j = Len(t) + 1
        BY <1>0, <2>2
      <4>. QED BY <4>1, Suffix DEF Text
    <3>4. IndexUnescaped(s, i, term) = [ok |-> TRUE, at |-> i, text |-> <<>>]
      <4>1. i > Len(s) \/ s[i] \in term
        BY <1>1, <3>2
      <4>. QED BY <2>1, <4>1, ScanStep
    <3>. QED BY <3>2, <3>3, <3>4
  <2>3. CASE j <= Len(t)
    <3>. DEFINE w == g[j + 1]
    <3>0. j \in 1..Len(t) /\ j + 1 \in (j + 1)..(Len(t) + 1) /\ j + 1 \in 1..(Len(t) + 1)
      BY <1>0, <2>3
    <3>1. w \in Text /\ t[j] \in Symbols /\ Backslash \in Symbols
      <4>1. g[j + 1] \in Text
        BY <3>0, EscapeType
      <4>. QED BY <3>0, <4>1 DEF Text, Symbols
    <3>2. \A l \in Nat \ {0} : Undone(j + 1, l)
      <4>1. j + 1 \in T
        <5>. HIDE DEF T
        <5>. QED BY <1>1, <3>0
      <4>. HIDE DEF Undone
      <4>. QED BY <4>1
    <3>3. SubSeq(t, j, Len(t)) = <<t[j]>> \o SubSeq(t, j + 1, Len(t))
      BY <3>0, Suffix DEF Text
    <3>4. CASE t[j] = Backslash \/ t[j] \in Special
      <4>. DEFINE v == Prefixed(t[j], w)
      <4>1. v \in Text /\ <<Backslash, t[j]>> \o w = Prefixed(Backslash, v)
        <5>. HIDE DEF w
        <5>. QED BY <3>1 DEF Text, Prefixed
      <4>2. g[j] = Prefixed(Backslash, v)
        <5>1. ~(j > Len(t))
          BY <3>0
        <5>2. Escaping(g, j, t) = <<Backslash, t[j]>> \o w
          BY <3>4, <5>1, Zenon DEF Escaping
        <5>. QED BY <2>0, <4>1, <5>2, Zenon
      <4>3. /\ i \in 1..Len(s) /\ s[i] = Backslash
            /\ Stands(s, i + 1, v) /\ i + Len(g[j]) = (i + 1) + Len(v)
        <5>1. Stands(s, i, Prefixed(Backslash, v))
          BY <1>1, <4>2, Zenon
        <5>. HIDE DEF v
        <5>2. /\ i \in 1..Len(s) /\ s[i] = Backslash
              /\ Stands(s, i + 1, v) /\ i + Len(Prefixed(Backslash, v)) = (i + 1) + Len(v)
          BY <3>1, <4>1, <5>1, StandsCons
        <5>. QED BY <4>2, <5>2, Zenon
      <4>4. /\ i + 1 \in 1..Len(s) /\ s[i + 1] = t[j]
            /\ Stands(s, i + 2, w) /\ (i + 1) + Len(v) = (i + 2) + Len(w)
        <5>1. i + 1 \in Nat \ {0} /\ (i + 1) + 1 = i + 2
          OBVIOUS
        <5>. HIDE DEF w
        <5>2. /\ i + 1 \in 1..Len(s) /\ s[i + 1] = t[j]
              /\ Stands(s, (i + 1) + 1, w) /\ (i + 1) + Len(v) = ((i + 1) + 1) + Len(w)
          BY <3>1, <4>3, <5>1, StandsCons
        <5>. HIDE DEF v
        <5>. QED BY <5>1, <5>2
      <4>. HIDE DEF v
      <4>5. i + Len(g[j]) = (i + 2) + Len(w)
        BY <4>3, <4>4
      <4>6. IndexUnescaped(s, i + 2, term) =
              [ok |-> TRUE, at |-> i + Len(g[j]), text |-> SubSeq(t, j + 1, Len(t))]
        <5>1. i + 2 \in Nat \ {0}
          OBVIOUS
        <5>. HIDE DEF w
        <5>. QED BY <1>1, <3>2, <4>4, <4>5, <5>1 DEF w, Undoes
      <4>7. IndexUnescaped(s, i, term) = Before(s[i + 1], IndexUnescaped(s, i + 2, term))
        <5>1. s[i] \notin term /\ ~(i > Len(s)) /\ i # Len(s)
          BY <1>0, <4>3, <4>4, SymbolsDiffer DEF Special
        <5>. QED BY <2>1, <4>3, <5>1, ScanStep
      <4>8. Before(s[i + 1], IndexUnescaped(s, i + 2, term)) =
              [ok |-> TRUE, at |-> i + Len(g[j]), text |-> <<s[i + 1]>> \o SubSeq(t, j + 1, Len(t))]
        BY <4>6, BeforeIs
      <4>. QED BY <3>3, <4>4, <4>7, <4>8
    <3>5. CASE ~(t[j] = Backslash \/ t[j] \in Special)
      <4>1. g[j] = Prefixed(t[j], w)
        <5>1. ~(j > Len(t))
          BY <3>0
        <5>2. Escaping(g, j, t) = <<t[j]>> \o w
          BY <3>5, <5>1, Zenon DEF Escaping
        <5>. QED BY <2>0, <5>2, Zenon DEF Prefixed
      <4>2. /\ i \in 1..Len(s) /\ s[i] = t[j]
            /\ Stands(s, i + 1, w) /\ i + Len(g[j]) = (i + 1) + Len(w)
        <5>1. Stands(s, i, Prefixed(t[j], w))
          BY <1>1, <4>1, Zenon
        <5>. HIDE DEF w
        <5>2. /\ i \in 1..Len(s) /\ s[i] = t[j]
              /\ Stands(s, i + 1, w) /\ i + Len(Prefixed(t[j], w)) = (i + 1) + Len(w)
          BY <3>1, <5>1, StandsCons
        <5>. QED BY <4>1, <5>2, Zenon
      <4>3. IndexUnescaped(s, i + 1, term) =
              [ok |-> TRUE, at |-> i + Len(g[j]), text |-> SubSeq(t, j + 1, Len(t))]
        <5>1. i + 1 \in Nat \ {0}
          OBVIOUS
        <5>. QED BY <1>1, <3>2, <4>2, <5>1 DEF Undoes
      <4>4. IndexUnescaped(s, i, term) = Before(s[i], IndexUnescaped(s, i + 1, term))
        <5>1. s[i] \notin term /\ ~(i > Len(s)) /\ s[i] # Backslash
          BY <1>0, <3>5, <4>2
        <5>. QED BY <2>1, <5>1, ScanStep
      <4>5. Before(s[i], IndexUnescaped(s, i + 1, term)) =
              [ok |-> TRUE, at |-> i + Len(g[j]), text |-> <<s[i]>> \o SubSeq(t, j + 1, Len(t))]
        BY <4>3, BeforeIs
      <4>. QED BY <3>3, <4>2, <4>4, <4>5
    <3>. QED BY <3>4, <3>5
  <2>. QED BY <1>0, <2>2, <2>3
<1>2. \A j \in 1..(Len(t) + 1) : j \in T
  <2>1. \A j \in 1..(Len(t) + 1) : (\A k \in (j + 1)..(Len(t) + 1) : k \in T) => j \in T
    BY <1>1 DEF Undoes
  <2>2. Len(t) + 1 \in Nat
    BY <1>0
  <2>. HIDE DEF T
  <2>. QED BY <2>1, <2>2, Downwards
<1>. QED BY <1>2

\* The same of the whole escaped text.
LEMMA EscapeRead ==
  ASSUME NEW s \in Text, NEW t \in Text, NEW i \in Nat \ {0}, NEW term, term \subseteq Special,
         Stands(s, i, Escape(t)),
         i + Len(Escape(t)) > Len(s) \/ s[i + Len(Escape(t))] \in term
  PROVE  IndexUnescaped(s, i, term) = [ok |-> TRUE, at |-> i + Len(Escape(t)), text |-> t]
<1>1. PICK g : EscapeFrom(t, 1, g) /\ Escape(t) = g[1]
  BY EscapeIs
<1>2. 1 \in 1..(Len(t) + 1) /\ SubSeq(t, 1, Len(t)) = t
  BY Suffix DEF Text
<1>3. \A j \in 1..(Len(t) + 1) : \A n \in Nat \ {0} :
        Undoes(s, n, term, g[j], SubSeq(t, j, Len(t)))
  BY <1>1, EscapeScanned
<1>4. Undoes(s, i, term, Escape(t), t)
  BY <1>1, <1>2, <1>3
<1>. QED BY <1>4 DEF Undoes

LEMMA EscapeText ==
  ASSUME NEW t \in Text
  PROVE  Escape(t) \in Text
<1>1. PICK g : EscapeFrom(t, 1, g) /\ Escape(t) = g[1]
  BY EscapeIs
<1>2. 1 \in 1..(Len(t) + 1)
  BY DEF Text
<1>. QED BY <1>1, <1>2, EscapeType

-----------------------------------------------------------------------------
(* What is written is read *)

FieldText(p) == Escape(p[1]) \o <<"=">> \o Escape(p[2])

\* The body of Written.
Writing(g, k, pairs) ==
  IF k > Len(pairs)       THEN <<>>
  ELSE IF k = Len(pairs)  THEN FieldText(pairs[k])
  ELSE FieldText(pairs[k]) \o <<Semicolon>> \o g[k + 1]

WriteFrom(pairs, first, g) == g = [k \in first..(Len(pairs) + 1) |-> Writing(g, k, pairs)]

LEMMA WriteExists ==
  ASSUME NEW pairs \in Seq(Pairs)
  PROVE  \E g : WriteFrom(pairs, 1, g)
<1>. DEFINE n == Len(pairs) + 1
            T == {k \in 1..n : \E g : WriteFrom(pairs, k, g)}
<1>1. n \in Nat /\ 1 \in 1..n
  OBVIOUS
<1>2. ASSUME NEW k \in 1..n, \A l \in (k + 1)..n : l \in T PROVE k \in T
  <2>1. PICK g : k < n => WriteFrom(pairs, k + 1, g)
    BY <1>1, <1>2
  <2>. DEFINE h == [l \in k..n |-> IF l = k THEN Writing(g, k, pairs) ELSE g[l]]
  <2>2. ASSUME NEW l \in k..n PROVE h[l] = Writing(h, l, pairs)
    <3>1. Writing(h, l, pairs) = Writing(g, l, pairs)
      BY <1>1 DEF Writing
    <3>2. CASE l = k
      BY <3>1, <3>2
    <3>3. CASE l # k
      BY <1>1, <3>1, <3>3, <2>1 DEF WriteFrom
    <3>. QED BY <3>2, <3>3
  <2>3. h = [l \in k..n |-> Writing(h, l, pairs)]
    BY <2>2
  <2>. QED BY <2>3 DEF WriteFrom
<1>3. \A k \in 1..n : k \in T
  BY <1>1, <1>2, Downwards
<1>. QED BY <1>1, <1>3

LEMMA WriteIs ==
  ASSUME NEW pairs \in Seq(Pairs)
  PROVE  \E g : WriteFrom(pairs, 1, g) /\ Written(pairs) = g[1]
<1>. DEFINE f == CHOOSE g : WriteFrom(pairs, 1, g)
<1>1. WriteFrom(pairs, 1, f)
  BY WriteExists, Zenon
<1>2. Written(pairs) = f[1]
  BY DEF Written, WriteFrom, Writing, FieldText
<1>. QED BY <1>1, <1>2, Zenon

LEMMA FieldTextType ==
  ASSUME NEW p \in Pairs
  PROVE  FieldText(p) \in Text
<1>1. Escape(p[1]) \in Text /\ Escape(p[2]) \in Text
  BY EscapeText DEF Pairs
<1>2. <<"=">> \in Text
  BY DEF Text, Symbols
<1>. QED BY <1>1, <1>2 DEF FieldText, Text

LEMMA WriteType ==
  ASSUME NEW pairs \in Seq(Pairs), NEW g, WriteFrom(pairs, 1, g)
  PROVE  \A k \in 1..(Len(pairs) + 1) : g[k] \in Text
<1>. DEFINE T == {k \in 1..(Len(pairs) + 1) : g[k] \in Text}
<1>0. Len(pairs) \in Nat
  OBVIOUS
<1>1. ASSUME NEW k \in 1..(Len(pairs) + 1), \A l \in (k + 1)..(Len(pairs) + 1) : l \in T
      PROVE  g[k] \in Text
  <2>0. g[k] = Writing(g, k, pairs)
    BY DEF WriteFrom
  <2>1. CASE k > Len(pairs)
    <3>1. g[k] = <<>>
      BY <2>0, <2>1 DEF Writing
    <3>. QED BY <3>1 DEF Text
  <2>2. CASE k <= Len(pairs)
    <3>1. g[k + 1] \in Text /\ pairs[k] \in Pairs
      BY <1>0, <1>1, <2>2
    <3>2. FieldText(pairs[k]) \in Text
      BY <3>1, FieldTextType
    <3>3. <<Semicolon>> \in Text
      BY DEF Text, Symbols
    <3>4. FieldText(pairs[k]) \o <<Semicolon>> \o g[k + 1] \in Text
      BY <3>1, <3>2, <3>3 DEF Text
    <3>5. g[k] \in {FieldText(pairs[k]), FieldText(pairs[k]) \o <<Semicolon>> \o g[k + 1]}
      <4>1. ~(k > Len(pairs))
        BY <1>0, <2>2
      <4>2. \/ Writing(g, k, pairs) = FieldText(pairs[k])
            \/ Writing(g, k, pairs) = FieldText(pairs[k]) \o <<Semicolon>> \o g[k + 1]
        BY <4>1, Zenon DEF Writing
      <4>. QED BY <2>0, <4>2, Zenon
    <3>. QED BY <3>2, <3>4, <3>5
  <2>. QED BY <1>0, <2>1, <2>2
<1>2. \A k \in 1..(Len(pairs) + 1) : k \in T
  <2>1. \A k \in 1..(Len(pairs) + 1) : (\A l \in (k + 1)..(Len(pairs) + 1) : l \in T) => k \in T
    BY <1>1
  <2>2. Len(pairs) + 1 \in Nat
    BY <1>0
  <2>. HIDE DEF T
  <2>. QED BY <2>1, <2>2, Downwards
<1>. QED BY <1>2

\* A field that was written, before the end or a semicolon, is read as its pair.
LEMMA FieldRead ==
  ASSUME NEW s \in Text, NEW p \in Pairs, NEW i \in Nat \ {0}, NEW f,
         Stands(s, i, FieldText(p)),
         LET end == i + Len(FieldText(p)) IN end > Len(s) \/ s[end] = Semicolon
  PROVE  Parsing(f, i, s) = Add(p[1], p[2], f[i + Len(FieldText(p)) + 1])
<1>. DEFINE key == Escape(p[1])
            value == Escape(p[2])
            at == i + Len(key)
            end == i + Len(FieldText(p))
<1>0. /\ Len(s) \in Nat /\ key \in Text /\ value \in Text /\ p[1] \in Text /\ p[2] \in Text
      /\ p[1] # <<>> /\ "=" \in Symbols /\ <<"=">> \in Text /\ Len(key) \in Nat
  <2>1. p[1] \in Text /\ p[2] \in Text /\ p[1] # <<>>
    BY DEF Pairs
  <2>2. key \in Text /\ value \in Text
    BY <2>1, EscapeText
  <2>. HIDE DEF key, value
  <2>. QED BY <2>1, <2>2 DEF Text, Symbols
<1>. HIDE DEF key, value
<1>1. FieldText(p) = key \o Prefixed("=", value) /\ Prefixed("=", value) \in Text
  BY <1>0 DEF FieldText, key, value, Text, Prefixed
<1>2. Stands(s, i, key) /\ Stands(s, at, Prefixed("=", value))
  BY <1>0, <1>1, StandsAppend
<1>3. at \in Nat \ {0}
  BY <1>0
<1>. HIDE DEF at
<1>4. at \in 1..Len(s) /\ s[at] = "=" /\ Stands(s, at + 1, value)
  BY <1>0, <1>2, <1>3, StandsCons
<1>5. end = (at + 1) + Len(value)
  <2>1. Len(FieldText(p)) = Len(key) + (1 + Len(value))
    BY <1>0, <1>1 DEF Text, Prefixed
  <2>2. Len(value) \in Nat
    BY <1>0 DEF Text
  <2>. QED BY <1>0, <2>1, <2>2 DEF at
<1>6. end > Len(s) \/ s[end] = Semicolon
  OBVIOUS
<1>. HIDE DEF end
<1>7. KeyRead(s, i) = [ok |-> TRUE, at |-> at, text |-> p[1]]
  <2>1. {"=", Semicolon} \subseteq Special
    BY DEF Special
  <2>2. s[i + Len(key)] \in {"=", Semicolon}
    BY <1>4 DEF at
  <2>. QED BY <1>0, <1>2, <2>1, <2>2, EscapeRead DEF KeyRead, at, key
<1>8. KeyRead(s, i).ok /\ KeyRead(s, i).at = at /\ KeyRead(s, i).text = p[1]
  BY <1>7
<1>9. ValueRead(s, i) = [ok |-> TRUE, at |-> end, text |-> p[2]]
  <2>1. {Semicolon} \subseteq Special
    BY DEF Special
  <2>2. ValueRead(s, i) = IndexUnescaped(s, at + 1, {Semicolon})
    BY <1>8 DEF ValueRead
  <2>3. at + 1 \in Nat \ {0}
    BY <1>3
  <2>4. (at + 1) + Len(value) > Len(s) \/ s[(at + 1) + Len(value)] \in {Semicolon}
    BY <1>5, <1>6
  <2>. QED BY <1>0, <1>4, <1>5, <2>1, <2>2, <2>3, <2>4, EscapeRead DEF value
<1>10. ValueRead(s, i).ok /\ ValueRead(s, i).at = end /\ ValueRead(s, i).text = p[2]
  BY <1>9
<1>11. ~(i > Len(s)) /\ ~(at > Len(s))
  BY <1>0, <1>4 DEF at
<1>12. Parsing(f, i, s) = Add(p[1], p[2], f[end + 1])
  BY <1>0, <1>4, <1>8, <1>10, <1>11 DEF Parsing
<1>. QED BY <1>12 DEF end

\* Where the rest of the pairs is written up to the end, it is what is parsed.
ReadBack(s, i, w, r, pairs) ==
  Stands(s, i, w) /\ i + Len(w) = Len(s) + 1 => r = [ok |-> TRUE, pairs |-> pairs]

LEMMA WrittenRead ==
  ASSUME NEW s \in Text, NEW f, ParseFrom(s, 1, f),
         NEW pairs \in Seq(Pairs), NEW g, WriteFrom(pairs, 1, g)
  PROVE  \A k \in 1..(Len(pairs) + 1) : \A i \in Nat \ {0} :
           ReadBack(s, i, g[k], f[i], SubSeq(pairs, k, Len(pairs)))
<1>. DEFINE Back(k, i) == ReadBack(s, i, g[k], f[i], SubSeq(pairs, k, Len(pairs)))
            T == {k \in 1..(Len(pairs) + 1) : \A i \in Nat \ {0} : Back(k, i)}
<1>0. Len(s) \in Nat /\ Len(pairs) \in Nat
  BY DEF Text
<1>1. ASSUME NEW k \in 1..(Len(pairs) + 1), \A l \in (k + 1)..(Len(pairs) + 1) : l \in T,
             NEW i \in Nat \ {0}, Stands(s, i, g[k]), i + Len(g[k]) = Len(s) + 1
      PROVE  f[i] = [ok |-> TRUE, pairs |-> SubSeq(pairs, k, Len(pairs))]
  <2>0. g[k] = Writing(g, k, pairs) /\ g[k] \in Text /\ Len(g[k]) \in Nat
    <3>1. g[k] = Writing(g, k, pairs)
      BY DEF WriteFrom
    <3>2. g[k] \in Text
      BY WriteType
    <3>. QED BY <3>1, <3>2 DEF Text
  <2>1. i \in 1..(Len(s) + 1)
    BY <1>0, <1>1, <2>0
  <2>2. f[i] = Parsing(f, i, s)
    BY <1>0, <2>1 DEF ParseFrom
  <2>3. f[Len(s) + 2] = [ok |-> TRUE, pairs |-> <<>>]
    <3>1. f[Len(s) + 2] = Parsing(f, Len(s) + 2, s)
      BY <1>0 DEF ParseFrom
    <3>2. Len(s) + 2 > Len(s)
      BY <1>0
    <3>. QED BY <3>1, <3>2 DEF Parsing
  <2>4. CASE k > Len(pairs)
    <3>1. g[k] = <<>> /\ Len(<<>>) = 0
      BY <2>0, <2>4 DEF Writing
    <3>2. i > Len(s)
      BY <1>0, <1>1, <3>1
    <3>3. SubSeq(pairs, k, Len(pairs)) = <<>>
      <4>1. k = Len(pairs) + 1
        BY <1>0, <2>4
      <4>. QED BY <4>1, Suffix
    <3>. QED BY <2>2, <3>2, <3>3 DEF Parsing
  <2>5. CASE k <= Len(pairs)
    <3>. DEFINE p == pairs[k]
                end == i + Len(FieldText(p))
    <3>0. k \in 1..Len(pairs) /\ p \in Pairs
      BY <1>0, <2>5
    <3>1. p = <<p[1], p[2]>>
      BY <3>0 DEF Pairs
    <3>2. SubSeq(pairs, k, Len(pairs)) = <<p>> \o SubSeq(pairs, k + 1, Len(pairs))
      BY <3>0, Suffix
    <3>. HIDE DEF p
    <3>3. FieldText(p) \in Text /\ Len(FieldText(p)) \in Nat
      <4>1. FieldText(p) \in Text
        BY <3>0, FieldTextType
      <4>. QED BY <4>1 DEF Text
    <3>4. CASE k = Len(pairs)
      <4>1. g[k] = FieldText(p)
        BY <1>0, <2>0, <3>4 DEF Writing, p
      <4>2. end = Len(s) + 1 /\ end > Len(s) /\ i + Len(FieldText(p)) + 1 = Len(s) + 2
        BY <1>0, <1>1, <3>3, <4>1
      <4>3. f[i] = Add(p[1], p[2], f[Len(s) + 2])
        BY <1>1, <2>2, <3>0, <4>1, <4>2, FieldRead
      <4>4. Add(p[1], p[2], f[Len(s) + 2]) = [ok |-> TRUE, pairs |-> <<<<p[1], p[2]>>>> \o <<>>]
        <5>1. f[Len(s) + 2].ok /\ f[Len(s) + 2].pairs = <<>>
          BY <2>3
        <5>. QED BY <5>1 DEF Add
      <4>5. SubSeq(pairs, k + 1, Len(pairs)) = <<>>
        BY <3>4, Suffix
      <4>. QED BY <3>1, <3>2, <4>3, <4>4, <4>5
    <3>5. CASE k # Len(pairs)
      <4>. DEFINE w == g[k + 1]
                  v == Prefixed(Semicolon, w)
      <4>0. k + 1 \in (k + 1)..(Len(pairs) + 1) /\ k + 1 \in 1..(Len(pairs) + 1)
        BY <1>0, <3>0
      <4>1. w \in Text /\ Semicolon \in Symbols
        <5>1. g[k + 1] \in Text
          BY <4>0, WriteType
        <5>. QED BY <5>1 DEF Symbols
      <4>. HIDE DEF w
      <4>2. v \in Text /\ FieldText(p) \o <<Semicolon>> \o w = FieldText(p) \o v
        BY <3>3, <4>1 DEF Text, Prefixed
      <4>. HIDE DEF v
      <4>3. g[k] = FieldText(p) \o v
        <5>1. ~(k > Len(pairs))
          BY <1>0, <2>5
        <5>2. Writing(g, k, pairs) = FieldText(p) \o <<Semicolon>> \o w
          BY <3>5, <5>1, Zenon DEF Writing, p, w
        <5>. QED BY <2>0, <4>2, <5>2, Zenon
      <4>4. Stands(s, i, FieldText(p)) /\ Stands(s, end, v)
        BY <1>1, <3>3, <4>2, <4>3, StandsAppend
      <4>5. end \in Nat \ {0} /\ i + Len(g[k]) = end + Len(v)
        <5>1. Len(g[k]) = Len(FieldText(p)) + Len(v) /\ Len(v) \in Nat
          BY <3>3, <4>2, <4>3 DEF Text
        <5>. QED BY <3>3, <5>1
      <4>6. end \in 1..Len(s) /\ s[end] = Semicolon /\ Stands(s, end + 1, w) /\ end + Len(v) = (end + 1) + Len(w)
        <5>. HIDE DEF end
        <5>. QED BY <4>1, <4>4, <4>5, StandsCons DEF v
      <4>7. f[i] = Add(p[1], p[2], f[end + 1])
        BY <2>2, <3>0, <4>4, <4>6, FieldRead
      <4>8. f[end + 1] = [ok |-> TRUE, pairs |-> SubSeq(pairs, k + 1, Len(pairs))]
        <5>1. k + 1 \in T
          <6>. HIDE DEF T
          <6>. QED BY <1>1, <4>0
        <5>2. end + 1 \in Nat \ {0}
          <6>. HIDE DEF end
          <6>. QED BY <4>6
        <5>. HIDE DEF end, Back
        <5>3. Back(k + 1, end + 1)
          BY <5>1, <5>2
        <5>4. Stands(s, end + 1, w) /\ (end + 1) + Len(w) = Len(s) + 1
          BY <1>1, <4>5, <4>6
        <5>. QED BY <5>3, <5>4 DEF Back, ReadBack, w
      <4>9. Add(p[1], p[2], f[end + 1]) =
              [ok |-> TRUE, pairs |-> <<<<p[1], p[2]>>>> \o SubSeq(pairs, k + 1, Len(pairs))]
        <5>. HIDE DEF end
        <5>1. f[end + 1].ok /\ f[end + 1].pairs = SubSeq(pairs, k + 1, Len(pairs))
          BY <4>8
        <5>. QED BY <5>1 DEF Add
      <4>. QED BY <3>1, <3>2, <4>7, <4>9
    <3>. QED BY <3>4, <3>5
  <2>. QED BY <1>0, <2>4, <2>5
<1>2. \A k \in 1..(Len(pairs) + 1) : k \in T
  <2>1. \A k \in 1..(Len(pairs) + 1) : (\A l \in (k + 1)..(Len(pairs) + 1) : l \in T) => k \in T
    BY <1>1 DEF ReadBack
  <2>2. Len(pairs) + 1 \in Nat
    BY <1>0
  <2>. HIDE DEF T
  <2>. QED BY <2>1, <2>2, Downwards
<1>. QED BY <1>2

\* Whatever pairs of a key, not empty, and a value: parsePluginOptions reads back
\* from their written form, with semicolons, equals signs and backslashes
\* escaped, just those pairs in their order.
THEOREM WrittenParsed ==
  ASSUME NEW pairs \in Seq(Pairs)
  PROVE  ParsePluginOptions(Written(pairs)) = [ok |-> TRUE, pairs |-> pairs]
<1>1. PICK g : WriteFrom(pairs, 1, g) /\ Written(pairs) = g[1]
  BY WriteIs
<1>2. 1 \in 1..(Len(pairs) + 1) /\ SubSeq(pairs, 1, Len(pairs)) = pairs
  BY Suffix
<1>. DEFINE s == Written(pairs)
<1>3. s \in Text
  BY <1>1, <1>2, WriteType
<1>4. PICK f : ParseFrom(s, 1, f) /\ ParsePluginOptions(s) = f[1]
  BY <1>3, ParseIs
<1>5. \A k \in 1..(Len(pairs) + 1) : \A i \in Nat \ {0} :
        ReadBack(s, i, g[k], f[i], SubSeq(pairs, k, Len(pairs)))
  BY <1>1, <1>3, <1>4, WrittenRead
<1>6. ReadBack(s, 1, s, f[1], pairs)
  <2>1. ReadBack(s, 1, g[1], f[1], SubSeq(pairs, 1, Len(pairs)))
    <3>1. 1 \in Nat \ {0}
      OBVIOUS
    <3>. HIDE DEF s
    <3>. QED BY <1>2, <1>5, <3>1, Zenon
  <2>. QED BY <1>1, <1>2, <2>1
<1>7. Stands(s, 1, s) /\ 1 + Len(s) = Len(s) + 1
  <2>. HIDE DEF s
  <2>. QED BY <1>3 DEF Stands, Text
<1>. QED BY <1>4, <1>6, <1>7 DEF ReadBack

-----------------------------------------------------------------------------
(* Addresses *)

LEMMA AddressSplit ==
  ASSUME NEW host \in Text, NEW port \in Symbols
  PROVE  LET s == host \o <<":", port>> IN
         /\ Len(s) = Len(host) + 2 /\ s[Len(s)] = port
         /\ \A i \in 1..Len(host) : s[i] = host[i]
         /\ SubSeq(s, 1, Len(host)) = host
         /\ SubSeq(s, 2, Len(host) - 1) = SubSeq(host, 2, Len(host) - 1)
<1>. DEFINE s == host \o <<":", port>>
<1>0. Len(host) \in Nat /\ ":" \in Symbols
  BY DEF Text, Symbols
<1>1. s \in Text
  BY <1>0 DEF Text
<1>2. Len(s) = Len(host) + 2 /\ s[Len(host) + 2] = port /\ \A i \in 1..Len(host) : s[i] = host[i]
  BY DEF Text
<1>. HIDE DEF s
<1>3. SubSeq(s, 1, Len(host)) = host
  <2>1. SubSeq(s, 1, Len(host)) \in Text /\ Len(SubSeq(s, 1, Len(host))) = Len(host)
    BY <1>0, <1>1, <1>2 DEF Text
  <2>2. \A i \in 1..Len(host) : SubSeq(s, 1, Len(host))[i] = host[i]
    BY <1>0, <1>1, <1>2 DEF Text
  <2>. QED BY <2>1, <2>2, SeqEqual DEF Text
<1>4. SubSeq(s, 2, Len(host) - 1) = SubSeq(host, 2, Len(host) - 1)
  BY <1>0, <1>1, <1>2 DEF Text
<1>. QED BY <1>2, <1>3, <1>4 DEF s

\* net.SplitHostPort gives back what FixAddr may have put in brackets.
LEMMA AddressRead ==
  ASSUME NEW addr \in Text, NEW port \in Symbols, SplitHostPort(HostPort(addr, port)).ok
  PROVE  /\ SplitHostPort(HostPort(addr, port)).host = Bare(addr)
         /\ SplitHostPort(HostPort(addr, port)).port = port
<1>. DEFINE host == FixAddr(addr)
            s == host \o <<":", port>>
            n == Len(s)
            bracketed == s[1] = "[" /\ n > 3 /\ s[n - 2] = "]"
            inner == IF bracketed THEN SubSeq(s, 2, n - 3) ELSE SubSeq(s, 1, n - 2)
<1>0. Len(addr) \in Nat /\ "[" \in Symbols /\ "]" \in Symbols
  BY DEF Text, Symbols
<1>1. host \in Text
  <2>1. <<"[">> \o addr \o <<"]">> \in Text
    BY <1>0 DEF Text
  <2>. QED BY <2>1 DEF FixAddr
<1>2. /\ n = Len(host) + 2 /\ s[n] = port
      /\ \A i \in 1..Len(host) : s[i] = host[i]
      /\ SubSeq(s, 1, Len(host)) = host
      /\ SubSeq(s, 2, Len(host) - 1) = SubSeq(host, 2, Len(host) - 1)
  <2>. HIDE DEF host
  <2>. QED BY <1>1, AddressSplit
<1>3. SplitHostPort(HostPort(addr, port)) = [ok |-> TRUE, host |-> inner, port |-> port]
  <2>1. SplitHostPort(HostPort(addr, port)) \in {Failed, [ok |-> TRUE, host |-> inner, port |-> s[n]]}
    <3>1. HostPort(addr, port) = s
      BY Zenon DEF HostPort
    <3>. QED BY <3>1, Zenon DEF SplitHostPort
  <2>2. Failed.ok = FALSE
    BY DEF Failed
  <2>. HIDE DEF inner, s, n
  <2>. QED BY <1>2, <2>1, <2>2
<1>4. Len(host) \in Nat /\ n - 2 = Len(host) /\ n - 3 = Len(host) - 1 /\ (n > 3 <=> Len(host) >= 2)
  <2>. HIDE DEF host, s
  <2>. QED BY <1>1, <1>2 DEF Text
<1>5. bracketed <=> Len(host) >= 2 /\ host[1] = "[" /\ host[Len(host)] = "]"
  <2>. HIDE DEF host, s, n
  <2>. QED BY <1>2, <1>4 DEF bracketed
<1>6. inner = IF bracketed THEN SubSeq(host, 2, Len(host) - 1) ELSE host
  <2>. HIDE DEF host, s, n, bracketed
  <2>. QED BY <1>2, <1>4
<1>7. inner = Bare(addr)
  <2>1. CASE ":" \in ToSet(addr) /\ Head(addr) # "[" /\ Last(addr) # "]"
    <3>1. host = <<"[">> \o addr \o <<"]">>
      BY <2>1 DEF FixAddr
    <3>2. Bare(addr) = addr
      BY <2>1 DEF Bare
    <3>3. /\ Len(host) = Len(addr) + 2 /\ host[1] = "[" /\ host[Len(addr) + 2] = "]"
          /\ SubSeq(host, 2, Len(addr) + 1) = addr
      <4>1. /\ Len(<<"[">> \o addr \o <<"]">>) = Len(addr) + 2
            /\ (<<"[">> \o addr \o <<"]">>)[1] = "["
            /\ (<<"[">> \o addr \o <<"]">>)[Len(addr) + 2] = "]"
            /\ \A i \in 1..Len(addr) : (<<"[">> \o addr \o <<"]">>)[i + 1] = addr[i]
        BY <1>0 DEF Text
      <4>2. SubSeq(host, 2, Len(addr) + 1) = addr
        <5>. HIDE DEF host
        <5>1. Len(host) = Len(addr) + 2 /\ \A i \in 1..Len(addr) : host[i + 1] = addr[i]
          BY <3>1, <4>1
        <5>2. /\ SubSeq(host, 2, Len(addr) + 1) \in Text
              /\ Len(SubSeq(host, 2, Len(addr) + 1)) = Len(addr)
          BY <1>0, <1>1, <5>1 DEF Text
        <5>3. \A i \in 1..Len(addr) : SubSeq(host, 2, Len(addr) + 1)[i] = host[i + 1]
          BY <1>0, <1>1, <5>1 DEF Text
        <5>. QED BY <5>1, <5>2, <5>3, SeqEqual DEF Text
      <4>. HIDE DEF host
      <4>. QED BY <3>1, <4>1, <4>2
    <3>. HIDE DEF host, inner, bracketed
    <3>4. Len(host) >= 2 /\ Len(host) - 1 = Len(addr) + 1
      BY <1>0, <3>3
    <3>. QED BY <1>5, <1>6, <3>2, <3>3, <3>4
  <2>2. CASE ~(":" \in ToSet(addr) /\ Head(addr) # "[" /\ Last(addr) # "]")
    <3>1. host = addr
      BY <2>2 DEF FixAddr
    <3>2. Len(addr) >= 2 => Head(addr) = addr[1] /\ Last(addr) = addr[Len(addr)]
      BY DEF Last, Text
    <3>3. Bare(addr) = IF Len(addr) >= 2 /\ addr[1] = "[" /\ addr[Len(addr)] = "]"
                       THEN SubSeq(addr, 2, Len(addr) - 1) ELSE addr
      BY <3>2 DEF Bare
    <3>. HIDE DEF host, inner, bracketed
    <3>. QED BY <1>5, <1>6, <3>1, <3>3
  <2>. QED BY <2>1, <2>2
<1>. HIDE DEF inner
<1>. QED BY <1>3, <1>7

-----------------------------------------------------------------------------
(* What parseEnv returns *)

Names == {<<"remoteAddr">>, <<"remotePort">>, <<"localAddr">>, <<"localPort">>}

LEMMA EnvironmentText ==
  ASSUME env \in Environments
  PROVE  \A name \in VariableNames : env[name] \in Text
BY EnvironmentsAssumption DEF Text

LEMMA ArgsOfType ==
  ASSUME NEW pairs \in Seq(Pairs)
  PROVE  \A key \in DOMAIN ArgsOf(pairs) : key # <<>> /\ ArgsOf(pairs)[key] \in Text
<1>. DEFINE In(key) == {i \in DOMAIN pairs : pairs[i][1] = key}
<1>1. ASSUME NEW key \in {pairs[i][1] : i \in DOMAIN pairs}
      PROVE  key # <<>> /\ pairs[Min(In(key))][2] \in Text
  <2>1. In(key) \subseteq Nat /\ In(key) # {}
    OBVIOUS
  <2>2. Min(In(key)) \in In(key)
    <3>. HIDE DEF In
    <3>. QED BY <2>1, MinOf
  <2>3. \A i \in In(key) : pairs[i] \in Pairs /\ pairs[i][1] = key
    OBVIOUS
  <2>4. \A i \in In(key) : key # <<>> /\ pairs[i][2] \in Text
    BY <2>3 DEF Pairs
  <2>. QED BY <2>2, <2>4
<1>. QED BY <1>1 DEF ArgsOf

LEMMA EnvironmentArgsAre ==
  /\ DOMAIN EnvironmentArgs = Names
  /\ env \in Environments => \A key \in Names : EnvironmentArgs[key] \in Text
<1>. DEFINE pairs == << <<<<"remoteAddr">>, env["SS_REMOTE_HOST"]>>,
                        <<<<"remotePort">>, env["SS_REMOTE_PORT"]>>,
                        <<<<"localAddr">>, env["SS_LOCAL_HOST"]>>,
                        <<<<"localPort">>, env["SS_LOCAL_PORT"]>> >>
            In(key) == {i \in DOMAIN pairs : pairs[i][1] = key}
<1>1. DOMAIN pairs = 1..4
  OBVIOUS
<1>2. {pairs[i][1] : i \in DOMAIN pairs} = Names
  <2>1. /\ pairs[1][1] = <<"remoteAddr">> /\ pairs[2][1] = <<"remotePort">>
        /\ pairs[3][1] = <<"localAddr">> /\ pairs[4][1] = <<"localPort">>
    OBVIOUS
  <2>2. \A i \in 1..4 : i = 1 \/ i = 2 \/ i = 3 \/ i = 4
    OBVIOUS
  <2>3. 1 \in 1..4 /\ 2 \in 1..4 /\ 3 \in 1..4 /\ 4 \in 1..4
    OBVIOUS
  <2>. HIDE DEF pairs
  <2>. QED BY <1>1, <2>1, <2>2, <2>3 DEF Names
<1>3. env \in Environments => \A i \in 1..4 : pairs[i][2] \in Text
  <2>1. SUFFICES ASSUME env \in Environments, NEW i \in 1..4 PROVE pairs[i][2] \in Text
    OBVIOUS
  <2>2. /\ env["SS_REMOTE_HOST"] \in Text /\ env["SS_REMOTE_PORT"] \in Text
        /\ env["SS_LOCAL_HOST"] \in Text /\ env["SS_LOCAL_PORT"] \in Text
    BY <2>1, EnvironmentText DEF VariableNames
  <2>3. i = 1 \/ i = 2 \/ i = 3 \/ i = 4
    OBVIOUS
  <2>. QED BY <2>2, <2>3
<1>4. EnvironmentArgs = [key \in {pairs[i][1] : i \in DOMAIN pairs} |-> pairs[Min(In(key))][2]]
  BY DEF EnvironmentArgs, ArgsOf
<1>5. \A key \in Names : Min(In(key)) \in 1..4
  <2>1. ASSUME NEW key \in Names PROVE Min(In(key)) \in 1..4
    <3>1. In(key) # {} /\ In(key) \subseteq 1..4
      <4>. HIDE DEF pairs
      <4>. QED BY <1>1, <1>2
    <3>2. In(key) \subseteq Nat
      BY <3>1
    <3>. HIDE DEF In
    <3>. QED BY <3>1, <3>2, MinOf
  <2>. QED BY <2>1
<1>. HIDE DEF pairs, In
<1>. QED BY <1>2, <1>3, <1>4, <1>5

ToldArgs == Replaced(EnvironmentArgs, Parsed(env["SS_PLUGIN_OPTIONS"]).args)

LEMMA ToldArgsAre ==
  ASSUME env \in Environments, Parsed(env["SS_PLUGIN_OPTIONS"]).ok
  PROVE  /\ Names \subseteq DOMAIN ToldArgs
         /\ \A key \in DOMAIN ToldArgs : key # <<>> /\ ToldArgs[key] \in Text
         /\ <<"server">> \in DOMAIN ToldArgs <=>
              <<"server">> \in DOMAIN Parsed(env["SS_PLUGIN_OPTIONS"]).args
<1>. DEFINE text == env["SS_PLUGIN_OPTIONS"]
            p == Parsed(text).args
<1>1. text \in Text
  BY EnvironmentText DEF VariableNames
<1>2. ParsePluginOptions(text).pairs \in Seq(Pairs) /\ ArgsOf(ParsePluginOptions(text).pairs) = p
  BY <1>1, ParseFinds
<1>3. \A key \in DOMAIN p : key # <<>> /\ p[key] \in Text
  BY <1>2, ArgsOfType
<1>4. DOMAIN EnvironmentArgs = Names /\ \A key \in Names : EnvironmentArgs[key] \in Text
  BY EnvironmentArgsAre
<1>5. /\ DOMAIN ToldArgs = DOMAIN p \cup Names
      /\ \A key \in DOMAIN p \cup Names :
           ToldArgs[key] = IF key \in DOMAIN p THEN p[key] ELSE EnvironmentArgs[key]
  BY <1>4 DEF ToldArgs, Replaced
<1>6. <<>> \notin Names /\ <<"server">> \notin Names
  BY DEF Names
<1>. HIDE DEF p
<1>7. \A key \in DOMAIN ToldArgs : key # <<>> /\ ToldArgs[key] \in Text
  BY <1>3, <1>4, <1>5, <1>6
<1>8. <<"server">> \in DOMAIN ToldArgs <=> <<"server">> \in DOMAIN p
  BY <1>5, <1>6
<1>. QED BY <1>5, <1>7, <1>8 DEF p

LEMMA ParseEnvIs ==
  ASSUME env \in Environments
  PROVE  /\ ParseEnv.ok <=> (EnvironmentUsed => Parsed(env["SS_PLUGIN_OPTIONS"]).ok)
         /\ ParseEnv.ok => ParseEnv.args = IF EnvironmentUsed THEN ToldArgs ELSE ArgsOf(<<>>)
<1>. DEFINE other == ParsePluginOptions(env["SS_PLUGIN_OPTIONS"])
<1>1. env["SS_PLUGIN_OPTIONS"] \in Text
  BY EnvironmentText DEF VariableNames
<1>2. /\ other.ok <=> Parsed(env["SS_PLUGIN_OPTIONS"]).ok
      /\ other.ok => ArgsOf(other.pairs) = Parsed(env["SS_PLUGIN_OPTIONS"]).args
  BY <1>1, ParseFinds
<1>3. CASE ~EnvironmentUsed
  BY <1>3 DEF ParseEnv
<1>4. CASE EnvironmentUsed /\ ~other.ok
  <2>1. ParseEnv = Failed
    BY <1>4 DEF ParseEnv
  <2>. QED BY <1>2, <1>4, <2>1 DEF Failed
<1>5. CASE EnvironmentUsed /\ other.ok
  <2>1. ParseEnv = [ok |-> TRUE, args |-> ToldArgs]
    BY <1>2, <1>5, Zenon DEF ParseEnv, ToldArgs
  <2>. QED BY <1>2, <1>5, <2>1
<1>. QED BY <1>3, <1>4, <1>5

-----------------------------------------------------------------------------
(* ApplyOptions *)

\* The types of args.Options, which the flags have and ApplyOptions keeps.
Typed(o) ==
  /\ DOMAIN o = OptionNames
  /\ \A name \in Numbers : o[name] \in DOMAIN BitWidth
  /\ \A name \in Switches : o[name] \in BOOLEAN
  /\ \A name \in Texts \cup Addresses : o[name] \in Text

LEMMA KeyOfNumber ==
  ASSUME NEW name \in Numbers, NEW server \in BOOLEAN
  PROVE  \E other \in Numbers : KeyOf(name, server) = <<other>> /\ Bits(other) = Bits(name)
<1>1. CASE ~server
  BY <1>1 DEF KeyOf
<1>2. CASE server /\ name = "localPort"
  BY <1>2 DEF KeyOf, Bits, Numbers, Ports
<1>3. CASE server /\ name = "remotePort"
  BY <1>3 DEF KeyOf, Bits, Numbers, Ports
<1>4. CASE server /\ name \notin Ports
  BY <1>4 DEF KeyOf, Bits, Numbers, Ports
<1>. QED BY <1>1, <1>2, <1>3, <1>4 DEF Ports

LEMMA ParseUintIs ==
  ASSUME NEW text, NEW bits, ParseUint(text, bits).ok
  PROVE  /\ ParseUint(text, bits).value = Word(text)
         /\ Word(text) \in DOMAIN BitWidth /\ BitWidth[Word(text)] <= bits
BY DEF ParseUint, Failed

\* What ApplyOptions makes of options of their types.
LEMMA AssignedType ==
  ASSUME NEW o, Typed(o), NEW a, NumbersParse(a), \A key \in DOMAIN a : a[key] \in Text
  PROVE  LET n == Assigned(o, a) IN
         /\ Typed(n)
         /\ \A name \in Numbers : n[name] = o[name] \/ BitWidth[n[name]] <= Bits(name)
<1>. DEFINE n == Assigned(o, a)
            key(name) == KeyOf(name, IsServer(o, a))
<1>0. /\ IsServer(o, a) \in BOOLEAN
      /\ Switches \subseteq OptionNames /\ Numbers \subseteq OptionNames
      /\ Texts \subseteq OptionNames /\ Addresses \subseteq OptionNames
      /\ \A name \in Numbers \cup Texts \cup Addresses : name \notin Switches
      /\ \A name \in Texts \cup Addresses : name \notin Numbers
  <2>1. o["server"] \in BOOLEAN
    BY DEF Typed, Switches
  <2>2. IsServer(o, a) \in BOOLEAN
    BY <2>1 DEF IsServer, Has
  <2>3. /\ \A name \in Numbers \cup Texts \cup Addresses : name \notin Switches
        /\ \A name \in Texts \cup Addresses : name \notin Numbers
    BY DEF Switches, Numbers, Ports, Texts, Addresses
  <2>. QED BY <2>2, <2>3 DEF OptionNames
<1>1. /\ DOMAIN n = OptionNames
      /\ \A name \in OptionNames :
           n[name] = IF name \in Switches THEN o[name] \/ Has(a, key(name))
                     ELSE IF ~Has(a, key(name)) THEN o[name]
                     ELSE IF name \in Numbers THEN ParseUint(Get(a, key(name)), Bits(name)).value
                     ELSE Get(a, key(name))
  BY Zenon DEF Assigned
<1>. HIDE DEF n
<1>2. ASSUME NEW name \in Numbers
      PROVE  n[name] \in DOMAIN BitWidth /\ (n[name] = o[name] \/ BitWidth[n[name]] <= Bits(name))
  <2>1. CASE ~Has(a, key(name))
    <3>1. n[name] = o[name]
      <4>. HIDE DEF key
      <4>. QED BY <1>0, <1>1, <2>1
    <3>. QED BY <3>1 DEF Typed
  <2>2. CASE Has(a, key(name))
    <3>1. PICK other \in Numbers : key(name) = <<other>> /\ Bits(other) = Bits(name)
      BY <1>0, KeyOfNumber
    <3>2. ParseUint(Get(a, key(name)), Bits(name)).ok
      <4>. HIDE DEF key
      <4>. QED BY <2>2, <3>1 DEF NumbersParse
    <3>3. n[name] = ParseUint(Get(a, key(name)), Bits(name)).value
      <4>. HIDE DEF key
      <4>. QED BY <1>0, <1>1, <2>2
    <3>. HIDE DEF key
    <3>. QED BY <3>2, <3>3, ParseUintIs
  <2>. QED BY <2>1, <2>2
<1>3. ASSUME NEW name \in Switches PROVE n[name] \in BOOLEAN
  <2>1. n[name] = (o[name] \/ Has(a, key(name)))
    <3>. HIDE DEF key
    <3>. QED BY <1>0, <1>1, Zenon
  <2>. QED BY <2>1
<1>4. ASSUME NEW name \in Texts \cup Addresses PROVE n[name] \in Text
  <2>1. n[name] = IF ~Has(a, key(name)) THEN o[name] ELSE Get(a, key(name))
    <3>. HIDE DEF key
    <3>. QED BY <1>0, <1>1, Zenon
  <2>. HIDE DEF key
  <2>. QED BY <2>1 DEF Typed, Has, Get
<1>5. Typed(n)
  BY <1>1, <1>2, <1>3, <1>4 DEF Typed
<1>. QED BY <1>2, <1>5 DEF n

LEMMA FlagsType ==
  ASSUME NEW f \in FlagSets
  PROVE  Typed(f)
<1>1. f = [name \in OptionNames |-> f[name]]
  BY FlagSetsAssumption, Zenon
<1>2. DOMAIN f = OptionNames
  BY <1>1
<1>. QED BY <1>2, FlagSetsAssumption DEF Typed, Text

-----------------------------------------------------------------------------
(* The invariant *)

\* What main knows at each of its statements.
Configuration ==
  /\ env \in Environments
  /\ flags \in FlagSets
  /\ pc \in {"environment", "options"} => options = flags
  /\ pc = "environment" => args = ArgsOf(<<>>)
  /\ pc \in {"options", "handler", "serving"} =>
       IF EnvironmentUsed
       THEN Parsed(env["SS_PLUGIN_OPTIONS"]).ok /\ args = ToldArgs
       ELSE args = ArgsOf(<<>>)
  /\ pc \in {"handler", "serving"} => NumbersParse(args) /\ options = Assigned(flags, args)
  /\ pc = "serving" => listening \in LocalAddr
  /\ pc = "exited" /\ EnvironmentUsed /\ args = ArgsOf(<<>>) =>
       ~Parsed(env["SS_PLUGIN_OPTIONS"]).ok

IInv == TypeOK /\ Configuration

LEMMA OptionsType == TypeOK <=>
  /\ pc \in {"environment", "options", "handler", "serving", "exited"}
  /\ <<>> \notin DOMAIN args
  /\ Typed(options)
  /\ \A name \in Numbers : options[name] = flags[name] \/ BitWidth[options[name]] <= Bits(name)
BY DEF TypeOK, Typed, Text

LEMMA NoArgs == DOMAIN ArgsOf(<<>>) = {}
BY ArgsOfNone

LEMMA InitInv == Init => IInv
<1>. SUFFICES ASSUME Init PROVE IInv
  OBVIOUS
<1>1. Typed(options)
  BY FlagsType DEF Init
<1>2. TypeOK
  BY <1>1, OptionsType, NoArgs DEF Init
<1>3. Configuration
  BY DEF Init, Configuration
<1>. QED BY <1>2, <1>3 DEF IInv

LEMMA ArgsText ==
  ASSUME IInv, pc \in {"options", "handler", "serving"}
  PROVE  \A key \in DOMAIN args : key # <<>> /\ args[key] \in Text
<1>1. CASE EnvironmentUsed
  BY <1>1, ToldArgsAre DEF IInv, Configuration
<1>2. CASE ~EnvironmentUsed
  BY <1>2, NoArgs DEF IInv, Configuration
<1>. QED BY <1>1, <1>2

LEMMA ExitInv ==
  ASSUME IInv, Exit, pc # "environment" \/ ~ParseEnv.ok
  PROVE  IInv'
<1>0. pc' = "exited" /\ UNCHANGED <<env, flags, args, options, listening>>
  BY DEF Exit
<1>1. TypeOK'
  BY <1>0 DEF IInv, TypeOK
<1>2. EnvironmentUsed /\ args = ArgsOf(<<>>) => ~Parsed(env["SS_PLUGIN_OPTIONS"]).ok
  <2>1. CASE pc = "environment"
    BY <2>1, ParseEnvIs DEF IInv, Configuration
  <2>2. CASE pc \in {"options", "handler", "serving"}
    <3>1. SUFFICES ASSUME EnvironmentUsed, args = ArgsOf(<<>>) PROVE FALSE
      OBVIOUS
    <3>2. Names \subseteq DOMAIN args
      BY <2>2, <3>1, ToldArgsAre DEF IInv, Configuration
    <3>3. <<"localAddr">> \in Names
      BY DEF Names
    <3>. QED BY <3>1, <3>2, <3>3, NoArgs
  <2>3. CASE pc = "exited"
    BY <2>3 DEF IInv, Configuration
  <2>. QED BY <2>1, <2>2, <2>3 DEF IInv, TypeOK
<1>3. EnvironmentUsed' <=> EnvironmentUsed
  BY <1>0 DEF EnvironmentUsed
<1>4. Configuration'
  BY <1>0, <1>2, <1>3 DEF IInv, Configuration
<1>. QED BY <1>1, <1>4 DEF IInv

LEMMA SourcesUnchanged ==
  ASSUME UNCHANGED env
  PROVE  (EnvironmentUsed' <=> EnvironmentUsed) /\ ToldArgs' = ToldArgs
BY DEF EnvironmentUsed, ToldArgs, EnvironmentArgs

LEMMA ReadEnvironmentInv ==
  ASSUME IInv, ReadEnvironment
  PROVE  IInv'
<1>0. /\ pc = "environment" /\ ParseEnv.ok /\ args' = ParseEnv.args /\ pc' = "options"
      /\ UNCHANGED <<env, flags, options, listening>>
  BY DEF ReadEnvironment
<1>1. IF EnvironmentUsed THEN Parsed(env["SS_PLUGIN_OPTIONS"]).ok /\ args' = ToldArgs
      ELSE args' = ArgsOf(<<>>)
  BY <1>0, ParseEnvIs DEF IInv, Configuration
<1>2. Configuration'
  BY <1>0, <1>1, SourcesUnchanged DEF IInv, Configuration
<1>3. <<>> \notin DOMAIN args'
  <2>1. CASE EnvironmentUsed
    BY <1>1, <2>1, ToldArgsAre DEF IInv, Configuration
  <2>2. CASE ~EnvironmentUsed
    BY <1>1, <2>2, NoArgs
  <2>. QED BY <2>1, <2>2
<1>4. TypeOK'
  BY <1>0, <1>3 DEF IInv, TypeOK
<1>. QED BY <1>2, <1>4 DEF IInv

LEMMA ApplyOptionsInv ==
  ASSUME IInv, ApplyOptions
  PROVE  IInv'
<1>0. /\ pc = "options" /\ NumbersParse(args) /\ options' = Assigned(options, args)
      /\ pc' = "handler" /\ UNCHANGED <<env, flags, args, listening>>
  BY DEF ApplyOptions
<1>1. options = flags
  BY <1>0 DEF IInv, Configuration
<1>2. /\ Typed(options')
      /\ \A name \in Numbers : options'[name] = flags[name] \/ BitWidth[options'[name]] <= Bits(name)
  <2>1. Typed(options)
    BY OptionsType DEF IInv
  <2>2. \A key \in DOMAIN args : args[key] \in Text
    BY <1>0, ArgsText
  <2>. QED BY <1>0, <1>1, <2>1, <2>2, AssignedType
<1>3. TypeOK'
  <2>1. DOMAIN options' = OptionNames
    BY <1>2 DEF Typed
  <2>. QED BY <1>0, <1>2, <2>1 DEF IInv, TypeOK, Typed, Text
<1>4. Configuration'
  BY <1>0, <1>1, SourcesUnchanged DEF IInv, Configuration
<1>. QED BY <1>3, <1>4 DEF IInv

LEMMA ServingInv ==
  ASSUME IInv, NewListener \/ NewTransporter
  PROVE  IInv'
<1>0. /\ pc = "handler" /\ pc' = "serving" /\ listening' \in LocalAddr
      /\ UNCHANGED <<env, flags, args, options>>
  BY DEF NewListener, NewTransporter
<1>1. TypeOK'
  BY <1>0 DEF IInv, TypeOK
<1>2. LocalAddr' = LocalAddr
  BY <1>0 DEF LocalAddr
<1>3. Configuration'
  BY <1>0, <1>2, SourcesUnchanged DEF IInv, Configuration
<1>. QED BY <1>1, <1>3 DEF IInv

LEMMA StutterInv ==
  ASSUME IInv, UNCHANGED vars
  PROVE  IInv'
<1>0. UNCHANGED <<pc, env, flags, args, options, listening>>
  BY DEF vars
<1>1. TypeOK'
  BY <1>0 DEF IInv, TypeOK
<1>2. LocalAddr' = LocalAddr
  BY <1>0 DEF LocalAddr
<1>3. Configuration'
  BY <1>0, <1>2, SourcesUnchanged DEF IInv, Configuration
<1>. QED BY <1>1, <1>3 DEF IInv

LEMMA NextInv == IInv /\ [Next]_vars => IInv'
<1>. SUFFICES ASSUME IInv, [Next]_vars PROVE IInv'
  OBVIOUS
<1>1. CASE ReadEnvironment
  BY <1>1, ReadEnvironmentInv
<1>2. CASE ReadEnvironmentErr
  BY <1>2, ExitInv DEF ReadEnvironmentErr
<1>3. CASE ApplyOptions
  BY <1>3, ApplyOptionsInv
<1>4. CASE ApplyOptionsErr
  BY <1>4, ExitInv DEF ApplyOptionsErr
<1>5. CASE NewListener \/ NewTransporter
  BY <1>5, ServingInv
<1>6. CASE NewHandlerErr
  BY <1>6, ExitInv DEF NewHandlerErr
<1>7. CASE UNCHANGED vars
  BY <1>7, StutterInv
<1>. QED BY <1>1, <1>2, <1>3, <1>4, <1>5, <1>6, <1>7 DEF Next

\* main keeps IInv: after parseEnv the arguments are those that the environment and
\* the parsed options give, and after ApplyOptions the options are what these make
\* of the flags.
THEOREM InvHolds == Spec => []IInv
BY InitInv, NextInv, PTL DEF Spec

-----------------------------------------------------------------------------
(* The properties *)

\* The options keep their types through ApplyOptions, a number that an option has
\* replaced fits the width that ParseUint was asked for, and parsePluginOptions
\* yields no empty key.
THEOREM TypeCorrect == Spec => []TypeOK
<1>1. IInv => TypeOK
  BY DEF IInv
<1>. QED BY <1>1, InvHolds, PTL

\* The arguments that parseEnv returns are those of the text as a whole over those
\* of the variables, and it fails on the same texts.
THEOREM ParsedAsReferenceHolds == Spec => []ParsedAsReference
<1>1. IInv => ParsedAsReference
  <2>1. SUFFICES ASSUME IInv, EnvironmentUsed
                 PROVE  /\ pc = "options" =>
                             args = Replaced(EnvironmentArgs, Parsed(env["SS_PLUGIN_OPTIONS"]).args)
                        /\ pc \notin {"environment", "exited"} => Parsed(env["SS_PLUGIN_OPTIONS"]).ok
                        /\ pc = "exited" /\ args = ArgsOf(<<>>) => ~Parsed(env["SS_PLUGIN_OPTIONS"]).ok
    BY DEF ParsedAsReference
  <2>2. pc = "options" => args = ToldArgs
    BY <2>1 DEF IInv, Configuration
  <2>3. pc \notin {"environment", "exited"} => Parsed(env["SS_PLUGIN_OPTIONS"]).ok
    BY <2>1 DEF IInv, Configuration, TypeOK
  <2>4. pc = "exited" /\ args = ArgsOf(<<>>) => ~Parsed(env["SS_PLUGIN_OPTIONS"]).ok
    BY <2>1 DEF IInv, Configuration
  <2>. QED BY <2>2, <2>3, <2>4 DEF ToldArgs
<1>. QED BY <1>1, InvHolds, PTL

\* What parsePluginOptions has read from the environment it reads again from the
\* written form of the pairs.
THEOREM RoundTripHolds == Spec => []RoundTrip
<1>1. IInv => RoundTrip
  <2>. DEFINE parsed == ParsePluginOptions(env["SS_PLUGIN_OPTIONS"])
  <2>1. SUFFICES ASSUME IInv, parsed.ok PROVE ParsePluginOptions(Written(parsed.pairs)) = parsed
    BY DEF RoundTrip
  <2>2. env["SS_PLUGIN_OPTIONS"] \in Text
    BY <2>1, EnvironmentText DEF IInv, Configuration, VariableNames
  <2>3. parsed = [ok |-> TRUE, pairs |-> parsed.pairs] /\ parsed.pairs \in Seq(Pairs)
    BY <2>1, <2>2, ParseFinds
  <2>4. ParsePluginOptions(Written(parsed.pairs)) = [ok |-> TRUE, pairs |-> parsed.pairs]
    <3>. HIDE DEF parsed
    <3>. QED BY <2>3, WrittenParsed
  <2>. QED BY <2>3, <2>4, Zenon
<1>. QED BY <1>1, InvHolds, PTL

\* Where the listener is bound, out of ResolveTCPAddr's or ResolveUDPAddr's hands.
LEMMA ListeningIs ==
  ASSUME IInv, pc = "serving"
  PROVE  listening = <<Bare(options["localAddr"]), options["localPort"]>>
<1>1. options["localAddr"] \in Text /\ options["localPort"] \in DOMAIN BitWidth
  BY OptionsType DEF IInv, Typed, Addresses, Numbers, Ports
<1>2. options["localPort"] \in Symbols
  BY <1>1, BitWidthAssumption DEF Symbols
<1>. DEFINE addr == SplitHostPort(HostPort(options["localAddr"], options["localPort"]))
<1>3. addr.ok /\ listening = <<addr.host, addr.port>>
  BY DEF IInv, Configuration, LocalAddr
<1>. QED BY <1>1, <1>2, <1>3, AddressRead

LEMMA KeysOf ==
  ASSUME NEW server \in BOOLEAN
  PROVE  /\ KeyOf("server", server) = <<"server">>
         /\ KeyOf("localAddr", server) = IF server THEN <<"remoteAddr">> ELSE <<"localAddr">>
         /\ KeyOf("remoteAddr", server) = IF server THEN <<"localAddr">> ELSE <<"remoteAddr">>
         /\ KeyOf("localPort", server) = IF server THEN <<"remotePort">> ELSE <<"localPort">>
         /\ KeyOf("remotePort", server) = IF server THEN <<"localPort">> ELSE <<"remotePort">>
BY DEF KeyOf

\* A plugin that serves is bound to the address of its own side and dials the
\* other, as the variables and SS_PLUGIN_OPTIONS say, or as its flags say where
\* they do not count (parseEnv, ApplyOptions and the constructors of newHandler).
THEOREM ServesAsToldHolds == Spec => []ServesAsTold
<1>1. IInv /\ pc = "serving" => ServesAsTold
  <2>. SUFFICES ASSUME IInv, pc = "serving" PROVE ServesAsTold
    OBVIOUS
  <2>. DEFINE p == Parsed(env["SS_PLUGIN_OPTIONS"]).args
              server == flags["server"] \/ <<"server">> \in DOMAIN p
              given == \A name \in DOMAIN env \ {"SS_PLUGIN_OPTIONS", "SS_LOCAL_PORT"} : env[name] # <<>>
  <2>1. /\ env \in Environments /\ flags \in FlagSets /\ Typed(flags)
        /\ options = Assigned(flags, args) /\ NumbersParse(args)
    BY FlagsType DEF IInv, Configuration
  <2>2. given <=> EnvironmentUsed
    <3>1. DOMAIN env \ {"SS_PLUGIN_OPTIONS", "SS_LOCAL_PORT"} =
            {"SS_REMOTE_HOST", "SS_REMOTE_PORT", "SS_LOCAL_HOST"}
      BY <2>1, EnvironmentsAssumption DEF VariableNames
    <3>. QED BY <3>1 DEF EnvironmentUsed
  <2>3. listening = <<Bare(options["localAddr"]), options["localPort"]>>
    BY ListeningIs
  <2>. HIDE DEF given
  <2>4. CASE ~EnvironmentUsed
    <3>1. args = ArgsOf(<<>>)
      BY <2>4 DEF IInv, Configuration
    <3>2. options = flags
      <4>1. \A name \in OptionNames : options[name] = flags[name]
        <5>1. \A key : ~Has(args, key)
          BY <3>1, NoArgs DEF Has
        <5>2. \A name \in OptionNames \ Switches : options[name] = flags[name]
          BY <2>1, <5>1, Zenon DEF Assigned
        <5>3. \A name \in Switches : options[name] <=> flags[name]
          BY <2>1, <5>1, Zenon DEF Assigned, OptionNames
        <5>4. \A name \in Switches : options[name] \in BOOLEAN /\ flags[name] \in BOOLEAN
          BY <2>1, OptionsType DEF IInv, Typed
        <5>. QED BY <5>2, <5>3, <5>4
      <4>2. DOMAIN options = OptionNames /\ DOMAIN flags = OptionNames
        BY <2>1, OptionsType DEF IInv, Typed
      <4>3. options = [name \in OptionNames |-> options[name]] /\ flags = [name \in OptionNames |-> flags[name]]
        <5>1. options = [name \in OptionNames |-> options[name]]
          BY <2>1 DEF Assigned
        <5>2. flags = [name \in OptionNames |-> flags[name]]
          BY <2>1, FlagSetsAssumption, Zenon
        <5>. QED BY <5>1, <5>2
      <4>. QED BY <4>1, <4>3
    <3>. QED BY <2>2, <2>3, <2>4, <3>2 DEF ServesAsTold, given
  <2>5. CASE EnvironmentUsed
    <3>1. Parsed(env["SS_PLUGIN_OPTIONS"]).ok /\ args = ToldArgs
      BY <2>5 DEF IInv, Configuration
    <3>2. Names \subseteq DOMAIN args /\ (<<"server">> \in DOMAIN args <=> <<"server">> \in DOMAIN p)
      BY <2>1, <3>1, ToldArgsAre
    <3>3. IsServer(flags, args) = server /\ server \in BOOLEAN
      <4>1. flags["server"] \in BOOLEAN
        BY <2>1 DEF Typed, Switches
      <4>. QED BY <3>2, <4>1 DEF IsServer, Has
    <3>4. \A key : Told(key) = args[<<key>>]
      BY <3>1 DEF Told, ToldArgs, Get
    <3>. HIDE DEF p, server
    <3>5. options["server"] = server
      <4>1. "server" \in OptionNames /\ "server" \in Switches
        BY DEF OptionNames, Switches
      <4>2. options["server"] <=> flags["server"] \/ Has(args, KeyOf("server", IsServer(flags, args)))
        BY <2>1, <4>1, Zenon DEF Assigned
      <4>3. KeyOf("server", IsServer(flags, args)) = <<"server">>
        BY <3>3, KeysOf
      <4>4. options["server"] \in BOOLEAN
        BY <4>1, OptionsType DEF IInv, Typed
      <4>5. options["server"] <=> server
        BY <3>2, <4>2, <4>3 DEF Has, server
      <4>. QED BY <3>3, <4>4, <4>5
    <3>6. ASSUME NEW name \in Addresses PROVE options[name] = args[KeyOf(name, server)]
      <4>1. name \in OptionNames /\ name \notin Switches /\ name \notin Numbers
        BY DEF OptionNames, Switches, Numbers, Ports, Addresses
      <4>2. KeyOf(name, server) \in Names
        BY <3>3, KeysOf DEF Addresses, Names
      <4>3. Has(args, KeyOf(name, server))
        BY <3>2, <4>2 DEF Has
      <4>4. options[name] = Get(args, KeyOf(name, server))
        BY <2>1, <3>3, <4>1, <4>3, Zenon DEF Assigned
      <4>. QED BY <4>4 DEF Get
    <3>7. ASSUME NEW name \in Ports PROVE options[name] = Word(args[KeyOf(name, server)])
      <4>1. name \in OptionNames /\ name \notin Switches /\ name \in Numbers
        BY DEF OptionNames, Switches, Numbers, Ports
      <4>2. KeyOf(name, server) \in Names
        BY <3>3, KeysOf DEF Ports, Names
      <4>3. Has(args, KeyOf(name, server))
        BY <3>2, <4>2 DEF Has
      <4>4. options[name] = ParseUint(Get(args, KeyOf(name, server)), Bits(name)).value
        BY <2>1, <3>3, <4>1, <4>3, Zenon DEF Assigned
      <4>5. ParseUint(Get(args, KeyOf(name, server)), Bits(name)).ok
        <5>1. PICK other \in Numbers : KeyOf(name, server) = <<other>> /\ Bits(other) = Bits(name)
          BY <3>3, <4>1, KeyOfNumber
        <5>. QED BY <2>1, <4>3, <5>1 DEF NumbersParse
      <4>. QED BY <4>4, <4>5, ParseUintIs DEF Get
    <3>8. /\ options["localAddr"] = IF server THEN Told("remoteAddr") ELSE Told("localAddr")
          /\ options["remoteAddr"] = IF server THEN Told("localAddr") ELSE Told("remoteAddr")
          /\ options["localPort"] = Word(IF server THEN Told("remotePort") ELSE Told("localPort"))
          /\ options["remotePort"] = Word(IF server THEN Told("localPort") ELSE Told("remotePort"))
      <4>1. /\ "localAddr" \in Addresses /\ "remoteAddr" \in Addresses
            /\ "localPort" \in Ports /\ "remotePort" \in Ports
        BY DEF Addresses, Ports
      <4>2. CASE server
        BY <3>3, <3>4, <3>6, <3>7, <4>1, <4>2, KeysOf
      <4>3. CASE ~server
        BY <3>3, <3>4, <3>6, <3>7, <4>1, <4>3, KeysOf
      <4>. QED BY <4>2, <4>3
    <3>9. given
      BY <2>2, <2>5
    <3>. DEFINE own == IF server THEN <<Told("remoteAddr"), Told("remotePort")>>
                       ELSE <<Told("localAddr"), Told("localPort")>>
                other == IF server THEN <<Told("localAddr"), Told("localPort")>>
                         ELSE <<Told("remoteAddr"), Told("remotePort")>>
    <3>10. /\ listening = <<Bare(own[1]), Word(own[2])>>
           /\ options["remoteAddr"] = other[1]
           /\ options["remotePort"] = Word(other[2])
      BY <2>3, <3>8
    <3>. HIDE DEF own, other
    <3>. QED BY <3>5, <3>9, <3>10 DEF ServesAsTold, given, server, p, own, other
  <2>. QED BY <2>4, <2>5
<1>2. pc # "serving" => ServesAsTold
  BY DEF ServesAsTold
<1>3. IInv => ServesAsTold
  BY <1>1, <1>2
<1>. QED BY <1>3, InvHolds, PTL
=============================================================================
