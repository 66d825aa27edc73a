-------------------------- MODULE AgentWireProofs --------------------------
(***************************************************************************)
(* What holds of the wire for all frames with all texts, however many are   *)
(* sent, and wherever a connection ends.                                    *)
(***************************************************************************)
EXTENDS AgentWire, TLAPS, SequenceTheorems, FiniteSetTheorems, WellFoundedInduction

-----------------------------------------------------------------------------
(* Numbers and sequences.                                                   *)

(* Of any naturals there is a least one: the induction of this module, on a *)
(* set of counterexamples.                                                  *)
LEMMA Least ==
    ASSUME NEW T, T \subseteq Nat, T # {}
    PROVE  \E x \in T : \A y \in T : x <= y
<1>1. IsWellFoundedOn(OpToRel(<, Nat), Nat)
  BY NatLessThanWellFounded
<1>2. PICK x \in T : \A y \in T : ~(<<y, x>> \in OpToRel(<, Nat))
  BY <1>1, WFMin
<1>3. \A y \in T : ~(y < x)
  BY <1>2 DEF OpToRel
<1>4. QED
  BY <1>3

LEMMA Increasing ==
    ASSUME NEW n \in Nat, NEW f \in [0..n -> Nat], \A k \in 1..n : f[k - 1] < f[k]
    PROVE  \A j, k \in 0..n : j < k => f[j] < f[k]
<1> SUFFICES ASSUME NEW j \in 0..n PROVE \A k \in 0..n : j < k => f[j] < f[k]
  OBVIOUS
<1> DEFINE Bad == {k \in 0..n : j < k /\ ~(f[j] < f[k])}
<1>1. ASSUME Bad # {} PROVE FALSE
  <2>0. Bad \subseteq Nat
    OBVIOUS
  <2>1. PICK k \in Bad : \A y \in Bad : k <= y
    BY <1>1, <2>0, Least
  <2>2. k \in 1..n /\ k - 1 \in 0..n /\ k - 1 \notin Bad
    BY <2>1
  <2>3. f[k - 1] < f[k] /\ f[j] \in Nat /\ f[k] \in Nat /\ f[k - 1] \in Nat
    BY <2>2
  <2>4. j < k /\ ~(f[j] < f[k])
    BY <2>1
  <2>5. k - 1 = j \/ f[j] < f[k - 1]
    BY <2>2, <2>4
  <2>6. CASE k - 1 = j
    BY <2>3, <2>4, <2>6
  <2>7. CASE f[j] < f[k - 1]
    BY <2>3, <2>4, <2>7
  <2>8. QED
    BY <2>5, <2>6, <2>7
<1>2. QED
  BY <1>1

(* The first value of an increasing function that is beyond a number.       *)
LEMMA FirstBeyond ==
    ASSUME NEW n \in Nat, NEW f \in [0..n -> Nat], f[0] = 0, NEW m \in Nat, m < f[n]
    PROVE  \E k \in 1..n : f[k - 1] <= m /\ m < f[k]
<1> DEFINE T == {k \in 0..n : m < f[k]}
<1>1. n \in T /\ T \subseteq Nat
  OBVIOUS
<1>2. PICK k \in T : \A y \in T : k <= y
  BY <1>1, Least
<1>3. k \in 1..n /\ k - 1 \in 0..n
  BY <1>2
<1>4. k - 1 \notin T /\ f[k - 1] \in Nat
  BY <1>2, <1>3
<1>5. QED
  BY <1>2, <1>3, <1>4

(* The elements of a finite set of numbers, by their rank.                  *)
EndAt(ends, k) == CHOOSE e \in ends : Cardinality({i \in ends : i <= e}) = k

LEMMA Ranks ==
    ASSUME NEW n \in Nat, NEW E \in [1..n -> Nat],
           \A i, j \in 1..n : i < j => E[i] < E[j],
           NEW T, T = {E[i] : i \in 1..n}
    PROVE  /\ Cardinality(T) = n
           /\ \A k \in 1..n : E[k] = EndAt(T, k)
<1>1. ASSUME NEW k \in 0..n PROVE Cardinality({E[i] : i \in 1..k}) = k
  <2> DEFINE f == [i \in 1..k |-> E[i]]
             U == {E[i] : i \in 1..k}
  <2>1. f \in Bijection(1..k, U)
    BY DEF Bijection, Injection, Surjection, IsInjective
  <2>2. ExistsBijection(1..k, U)
    BY <2>1 DEF ExistsBijection
  <2>3. QED
    BY <2>2, FS_CountingElements
<1>2. ASSUME NEW k \in 1..n PROVE {i \in T : i <= E[k]} = {E[i] : i \in 1..k}
  <2>1. ASSUME NEW i \in 1..n, E[i] <= E[k] PROVE i \in 1..k
    BY <2>1
  <2>2. ASSUME NEW i \in 1..k PROVE i \in 1..n /\ E[i] <= E[k]
    BY <2>2
  <2>3. QED
    BY <2>1, <2>2
<1>3. \A k \in 1..n : E[k] \in T /\ Cardinality({i \in T : i <= E[k]}) = k
  BY <1>1, <1>2
<1>4. ASSUME NEW k \in 1..n PROVE E[k] = EndAt(T, k)
  <2>1. \A e \in T : Cardinality({i \in T : i <= e}) = k => e = E[k]
    BY <1>3
  <2>2. QED
    BY <1>3, <2>1 DEF EndAt
<1>5. Cardinality(T) = n
  BY <1>1
<1>6. QED
  BY <1>4, <1>5

(* Where the pieces of a concatenation are.                                 *)
LEMMA ConcatThree ==
    ASSUME NEW S, NEW f \in Seq(S), NEW g \in Seq(S), NEW e \in S
    PROVE  /\ f \o g \o <<e>> \in Seq(S)
           /\ Len(f \o g \o <<e>>) = Len(f) + Len(g) + 1
           /\ \A p \in 1..Len(f) : (f \o g \o <<e>>)[p] = f[p]
           /\ \A p \in 1..Len(g) : (f \o g \o <<e>>)[Len(f) + p] = g[p]
           /\ (f \o g \o <<e>>)[Len(f) + Len(g) + 1] = e
<1> DEFINE fg == f \o g
           last == <<e>>
           h == fg \o last
<1>1. Len(f) \in Nat /\ Len(g) \in Nat /\ last \in Seq(S) /\ Len(last) = 1 /\ last[1] = e
  BY LenProperties
<1>2. /\ fg \in Seq(S) /\ Len(fg) = Len(f) + Len(g)
      /\ \A p \in 1..(Len(f) + Len(g)) : fg[p] = IF p <= Len(f) THEN f[p] ELSE g[p - Len(f)]
  BY ConcatProperties
<1> HIDE DEF fg, last
<1>3. /\ h \in Seq(S) /\ Len(h) = Len(fg) + 1
      /\ \A p \in 1..(Len(fg) + 1) : h[p] = IF p <= Len(fg) THEN fg[p] ELSE last[p - Len(fg)]
  <2>0. fg \in Seq(S) /\ last \in Seq(S)
    BY <1>1, <1>2
  <2>1. /\ fg \o last \in Seq(S) /\ Len(fg \o last) = Len(fg) + Len(last)
        /\ \A p \in 1..(Len(fg) + Len(last)) :
              (fg \o last)[p] = IF p <= Len(fg) THEN fg[p] ELSE last[p - Len(fg)]
    BY <2>0, ConcatProperties
  <2>2. QED
    BY <1>1, <2>1
<1> HIDE DEF h
<1>4. \A p \in 1..Len(f) : h[p] = f[p]
  BY <1>1, <1>2, <1>3
<1>5. ASSUME NEW p \in 1..Len(g) PROVE h[Len(f) + p] = g[p]
  <2>1. Len(f) + p \in 1..(Len(f) + Len(g)) /\ ~(Len(f) + p <= Len(f))
        /\ Len(f) + p <= Len(fg) /\ Len(f) + p - Len(f) = p
    BY <1>1, <1>2
  <2>2. QED
    BY <1>1, <1>2, <1>3, <2>1
<1>6. h[Len(f) + Len(g) + 1] = e
  <2> DEFINE k == Len(f) + Len(g) + 1
  <2>1. k \in 1..(Len(fg) + 1) /\ ~(k <= Len(fg)) /\ k - Len(fg) = 1
    BY <1>1, <1>2
  <2> HIDE DEF k
  <2>2. h[k] = e
    BY <1>1, <1>3, <2>1
  <2>3. QED
    BY <2>2 DEF k
<1>7. /\ h \in Seq(S) /\ Len(h) = Len(f) + Len(g) + 1
      /\ \A p \in 1..Len(f) : h[p] = f[p]
      /\ \A p \in 1..Len(g) : h[Len(f) + p] = g[p]
      /\ h[Len(f) + Len(g) + 1] = e
  BY <1>2, <1>3, <1>4, <1>5, <1>6
<1>8. QED
  BY <1>7 DEF h, fg, last
-----------------------------------------------------------------------------
(* Lines.                                                                   *)

Text == Seq(Tokens)
Plain(text) == text \in Text /\ \A i \in 1..Len(text) : text[i] \notin Separators

(* Where the cells of a line are: off[k] is the place of the separator that *)
(* follows the cell k.                                                      *)
Offsets(off, cells) ==
    /\ off \in [0..Len(cells) -> Nat]
    /\ off[0] = 0
    /\ \A k \in 1..Len(cells) : off[k] = off[k - 1] + Len(cells[k]) + 1
Separator(cells, k) == IF k = Len(cells) THEN Newline ELSE Tab
HasCell(line, off, cells, k) ==
    /\ \A p \in 1..Len(cells[k]) : line[off[k - 1] + p] = cells[k][p]
    /\ line[off[k]] = Separator(cells, k)
Layout(line, off, cells) ==
    /\ Offsets(off, cells)
    /\ line \in Text /\ Len(line) = off[Len(cells)]
    /\ \A k \in 1..Len(cells) : HasCell(line, off, cells, k)

(* A cell of size l between the separators at a and b.                      *)
LEMMA CellIsBefore ==
    ASSUME NEW a \in Nat, NEW b \in Nat, NEW l \in Nat, b = a + l + 1, NEW c \in Nat, b <= c
    PROVE  b \in 1..c /\ \A p \in 1..l : a + p \in 1..c
  OBVIOUS

LEMMA PlaceInCell ==
    ASSUME NEW a \in Nat, NEW b \in Nat, NEW l \in Nat, b = a + l + 1,
           NEW i \in Nat, a <= i - 1, i - 1 < b, i # b
    PROVE  i - a \in 1..l /\ a + (i - a) = i
  OBVIOUS

LEMMA OffsetsGrow ==
    ASSUME NEW cells \in Seq(Text), NEW off, Offsets(off, cells)
    PROVE  /\ \A j, k \in 0..Len(cells) : j < k => off[j] < off[k]
           /\ \A k \in 1..Len(cells) :
                 Len(cells[k]) \in Nat /\ off[k - 1] \in Nat /\ off[k] \in Nat
<1>1. Len(cells) \in Nat /\ \A k \in 1..Len(cells) : cells[k] \in Text
  BY LenProperties
<1>2. \A k \in 1..Len(cells) : Len(cells[k]) \in Nat
  BY <1>1, LenProperties DEF Text
<1>3. \A k \in 1..Len(cells) : k - 1 \in 0..Len(cells) /\ k \in 0..Len(cells)
  BY <1>1
<1>4. off \in [0..Len(cells) -> Nat]
  BY DEF Offsets
<1>5. \A k \in 1..Len(cells) : off[k - 1] \in Nat /\ off[k] \in Nat
  BY <1>3, <1>4
<1>6. \A k \in 1..Len(cells) : off[k - 1] < off[k]
  BY <1>2, <1>5 DEF Offsets
<1>7. QED
  BY <1>1, <1>2, <1>4, <1>5, <1>6, Increasing

(* A recursion over the naturals up to N defines a function to texts.       *)
LEMMA Iterates ==
    ASSUME NEW N \in Nat, NEW base \in Text, NEW step \in [1..N -> [Text -> Text]]
    PROVE  \E f \in [0..N -> Text] : f[0] = base /\ \A i \in 1..N : f[i] = step[i][f[i - 1]]
<1> DEFINE Good(m) == \E f \in [0..m -> Text] :
                          f[0] = base /\ \A i \in 1..m : f[i] = step[i][f[i - 1]]
           Bad == {m \in 0..N : ~Good(m)}
<1>1. Good(0)
  <2> DEFINE f == [i \in 0..0 |-> base]
  <2>1. f \in [0..0 -> Text] /\ f[0] = base /\ \A i \in 1..0 : FALSE
    OBVIOUS
  <2> HIDE DEF f
  <2>2. QED
    BY <2>1
<1>2. ASSUME NEW m \in 1..N, Good(m - 1) PROVE Good(m)
  <2>1. PICK f \in [0..(m - 1) -> Text] :
           f[0] = base /\ \A i \in 1..(m - 1) : f[i] = step[i][f[i - 1]]
    BY <1>2
  <2> DEFINE g == [i \in 0..m |-> IF i < m THEN f[i] ELSE step[m][f[m - 1]]]
  <2>2. step[m][f[m - 1]] \in Text
    BY <2>1
  <2>3. g \in [0..m -> Text]
    BY <2>2
  <2>4. g[0] = base /\ \A i \in 1..m : g[i] = step[i][g[i - 1]]
    BY <2>1
  <2> HIDE DEF g
  <2>5. QED
    BY <2>3, <2>4
<1> HIDE DEF Good
<1>3. ASSUME Bad # {} PROVE FALSE
  <2>0. Bad \subseteq Nat
    OBVIOUS
  <2>1. PICK m \in Bad : \A y \in Bad : m <= y
    BY <1>3, <2>0, Least
  <2>2. m \in 1..N /\ ~Good(m) /\ Good(m - 1)
    BY <1>1, <2>1
  <2>3. QED
    BY <1>2, <2>2
<1>4. Good(N)
  BY <1>3
<1>5. QED
  BY <1>4 DEF Good

(* The recursion of Join.                                                   *)
Part(cells, i, before) == before \o cells[i] \o <<Separator(cells, i)>>
Upto(cells) ==
    CHOOSE f : f = [i \in 0..Len(cells) |->
                       IF i = 0 THEN <<>>
                       ELSE f[i - 1] \o cells[i] \o <<IF i = Len(cells) THEN Newline ELSE Tab>>]

LEMMA SeparatorIsToken == \A cells, i : Separator(cells, i) \in Tokens
  BY DEF Separator, Tokens

LEMMA PartIsText ==
    ASSUME NEW cells \in Seq(Text), NEW i \in 1..Len(cells), NEW before \in Text
    PROVE  /\ Part(cells, i, before) \in Text
           /\ Len(Part(cells, i, before)) = Len(before) + Len(cells[i]) + 1
           /\ \A p \in 1..Len(before) : Part(cells, i, before)[p] = before[p]
           /\ \A p \in 1..Len(cells[i]) :
                 Part(cells, i, before)[Len(before) + p] = cells[i][p]
           /\ Part(cells, i, before)[Len(before) + Len(cells[i]) + 1] = Separator(cells, i)
<1>1. cells[i] \in Text
  BY LenProperties
<1> DEFINE g == cells[i]
           e == Separator(cells, i)
<1>2. before \in Seq(Tokens) /\ g \in Seq(Tokens) /\ e \in Tokens
  BY <1>1, SeparatorIsToken DEF Text
<1> HIDE DEF g, e
<1>3. /\ before \o g \o <<e>> \in Seq(Tokens)
      /\ Len(before \o g \o <<e>>) = Len(before) + Len(g) + 1
      /\ \A p \in 1..Len(before) : (before \o g \o <<e>>)[p] = before[p]
      /\ \A p \in 1..Len(g) : (before \o g \o <<e>>)[Len(before) + p] = g[p]
      /\ (before \o g \o <<e>>)[Len(before) + Len(g) + 1] = e
  BY <1>2, ConcatThree
<1> DEFINE line == before \o g \o <<e>>
<1>4. Part(cells, i, before) = line
  BY DEF Part, g, e
<1> HIDE DEF line
<1>5. /\ line \in Text
      /\ Len(line) = Len(before) + Len(g) + 1
      /\ \A p \in 1..Len(before) : line[p] = before[p]
      /\ \A p \in 1..Len(g) : line[Len(before) + p] = g[p]
      /\ line[Len(before) + Len(g) + 1] = e
  BY <1>3 DEF line, Text
<1>6. QED
  BY <1>4, <1>5 DEF g, e

LEMMA UptoDefined ==
    ASSUME NEW cells \in Seq(Text)
    PROVE  /\ Upto(cells) \in [0..Len(cells) -> Text]
           /\ Upto(cells)[0] = <<>>
           /\ \A i \in 1..Len(cells) : Upto(cells)[i] = Part(cells, i, Upto(cells)[i - 1])
<1> DEFINE n == Len(cells)
           step == [i \in 1..n |-> [before \in Text |-> Part(cells, i, before)]]
           Rec(f) == [i \in 0..n |->
                        IF i = 0 THEN <<>>
                        ELSE f[i - 1] \o cells[i] \o <<IF i = n THEN Newline ELSE Tab>>]
<1>1. n \in Nat
  BY LenProperties
<1>2. <<>> \in Text
  BY DEF Text
<1>3. step \in [1..n -> [Text -> Text]]
  BY PartIsText
<1>4. PICK g \in [0..n -> Text] : g[0] = <<>> /\ \A i \in 1..n : g[i] = step[i][g[i - 1]]
  <2> DEFINE nothing == <<>>
  <2>1. nothing \in Text
    BY <1>2
  <2> HIDE DEF step, n, nothing, Rec
  <2>2. \E g \in [0..n -> Text] : g[0] = nothing /\ \A i \in 1..n : g[i] = step[i][g[i - 1]]
    BY <1>1, <1>3, <2>1, Iterates
  <2>3. QED
    BY <2>2 DEF nothing
<1>5. \A i \in 1..n : i - 1 \in 0..n
  BY <1>1
<1>6. \A i \in 1..n : g[i] = Part(cells, i, g[i - 1])
  BY <1>4, <1>5
<1>7. g = Rec(g)
  <2>1. ASSUME NEW i \in 0..n PROVE g[i] = Rec(g)[i]
    <3>1. CASE i = 0
      BY <1>4, <3>1
    <3>2. CASE i \in 1..n
      BY <1>6, <3>2 DEF Part, Separator
    <3>3. i = 0 \/ i \in 1..n
      <4> HIDE DEF n, Rec
      <4> QED BY <1>1
    <3>4. QED
      BY <3>1, <3>2, <3>3
  <2> HIDE DEF n
  <2>2. QED
    BY <1>4, <2>1
<1>8. Upto(cells) = Rec(Upto(cells))
  BY <1>7 DEF Upto
<1> DEFINE f == Upto(cells)
           Bad == {i \in 0..n : f[i] \notin Text}
<1>9. f[0] = <<>> /\ \A i \in 1..n : f[i] = Part(cells, i, f[i - 1])
  <2>1. \A i \in 0..n : Rec(f)[i] =
           IF i = 0 THEN <<>> ELSE f[i - 1] \o cells[i] \o <<IF i = n THEN Newline ELSE Tab>>
    OBVIOUS
  <2> HIDE DEF Rec
  <2>2. f = Rec(f)
    BY <1>8
  <2>3. 0 \in 0..n /\ \A i \in 1..n : i \in 0..n /\ i # 0
    BY <1>1
  <2> HIDE DEF f
  <2>4. f[0] = <<>>
    BY <2>1, <2>2, <2>3
  <2>5. ASSUME NEW i \in 1..n PROVE f[i] = Part(cells, i, f[i - 1])
    BY <2>1, <2>2, <2>3 DEF Part, Separator
  <2>6. QED
    BY <2>4, <2>5
<1>10. DOMAIN f = 0..n /\ f = [i \in 0..n |-> f[i]]
  BY <1>8
<1> HIDE DEF f, n
<1>11. ASSUME Bad # {} PROVE FALSE
  <2>0. Bad \subseteq Nat
    OBVIOUS
  <2>1. PICK i \in Bad : \A y \in Bad : i <= y
    BY <1>11, <2>0, Least
  <2>2. i \in 1..n /\ i - 1 \in 0..n /\ i - 1 \notin Bad
    BY <1>1, <1>2, <1>9, <2>1
  <2>3. f[i - 1] \in Text
    BY <2>2
  <2>4. f[i] \in Text
    BY <1>9, <2>2, <2>3, PartIsText DEF n
  <2>5. QED
    BY <2>1, <2>4
<1>12. f \in [0..n -> Text]
  BY <1>10, <1>11
<1>13. QED
  BY <1>9, <1>12 DEF f, n

LEMMA JoinIsUpto == ASSUME NEW cells PROVE Join(cells) = Upto(cells)[Len(cells)]
  BY DEF Join, Upto

LEMMA JoinLayout ==
    ASSUME NEW cells \in Seq(Text) PROVE \E off : Layout(Join(cells), off, cells)
<1> DEFINE n == Len(cells)
           f == Upto(cells)
           off == [k \in 0..n |-> Len(f[k])]
           Bad == {k \in 0..n : ~ \A j \in 1..k : HasCell(f[k], off, cells, j)}
<1>1. n \in Nat /\ \A k \in 1..n : k - 1 \in 0..n /\ k \in 0..n
  BY LenProperties
<1>2. f \in [0..n -> Text] /\ f[0] = <<>> /\ \A k \in 1..n : f[k] = Part(cells, k, f[k - 1])
  BY UptoDefined
<1> HIDE DEF f
<1>3. \A k \in 0..n : f[k] \in Text /\ off[k] = Len(f[k]) /\ off[k] \in Nat
  BY <1>2, LenProperties DEF Text
<1>4. off \in [0..n -> Nat]
  BY <1>3
<1> HIDE DEF off
<1>5. ASSUME NEW k \in 1..n
      PROVE  /\ off[k] = off[k - 1] + Len(cells[k]) + 1
             /\ \A p \in 1..off[k - 1] : f[k][p] = f[k - 1][p]
             /\ HasCell(f[k], off, cells, k)
  <2>1. f[k - 1] \in Text /\ f[k] = Part(cells, k, f[k - 1])
        /\ off[k - 1] = Len(f[k - 1]) /\ off[k] = Len(f[k])
    BY <1>1, <1>2, <1>3
  <2> DEFINE g == f[k - 1]
             line == Part(cells, k, g)
  <2>2. /\ Len(line) = Len(g) + Len(cells[k]) + 1
        /\ \A p \in 1..Len(g) : line[p] = g[p]
        /\ \A p \in 1..Len(cells[k]) : line[Len(g) + p] = cells[k][p]
        /\ line[Len(g) + Len(cells[k]) + 1] = Separator(cells, k)
    BY <2>1, PartIsText
  <2>3. f[k] = line /\ off[k - 1] = Len(g) /\ off[k] = Len(line)
    BY <2>1
  <2> HIDE DEF line, g
  <2>4. /\ off[k] = off[k - 1] + Len(cells[k]) + 1
        /\ \A p \in 1..off[k - 1] : f[k][p] = g[p]
        /\ HasCell(f[k], off, cells, k)
    BY <2>2, <2>3 DEF HasCell
  <2>5. QED
    BY <2>4 DEF g
<1>6. off[0] = 0
  BY <1>1, <1>2, <1>3
<1>7. Offsets(off, cells)
  BY <1>4, <1>5, <1>6 DEF Offsets
<1>8. ASSUME Bad # {} PROVE FALSE
  <2>0. Bad \subseteq Nat
    OBVIOUS
  <2>1. PICK k \in Bad : \A y \in Bad : k <= y
    BY <1>8, <2>0, Least
  <2>2. k \in 1..n /\ k - 1 \in 0..n /\ k - 1 \notin Bad
    BY <1>1, <2>1
  <2>3. ASSUME NEW j \in 1..(k - 1) PROVE HasCell(f[k], off, cells, j)
    <3>1. HasCell(f[k - 1], off, cells, j)
      BY <2>2
    <3>2. j \in 1..n /\ j \in 0..n /\ k - 1 \in 0..n /\ j <= k - 1
      BY <1>1, <2>2
    <3>3. off[j] = off[j - 1] + Len(cells[j]) + 1 /\ off[j - 1] \in Nat
          /\ Len(cells[j]) \in Nat /\ off[j] \in Nat /\ off[k - 1] \in Nat
      BY <1>3, <1>5, <1>7, <2>2, <3>2, OffsetsGrow
    <3>4. off[j] <= off[k - 1]
      <4>1. CASE j = k - 1
        BY <3>3, <4>1
      <4>2. CASE j < k - 1
        <5>1. off[j] < off[k - 1]
          BY <1>7, <3>2, <4>2, OffsetsGrow
        <5>2. QED
          BY <3>3, <5>1
      <4>3. QED
        BY <1>1, <3>2, <4>1, <4>2
    <3>5. \A p \in 1..off[k - 1] : f[k][p] = f[k - 1][p]
      BY <1>5, <2>2
    <3>6. off[j] \in 1..off[k - 1]
          /\ \A p \in 1..Len(cells[j]) : off[j - 1] + p \in 1..off[k - 1]
      <4> DEFINE a == off[j - 1]
                 b == off[j]
                 l == Len(cells[j])
                 c == off[k - 1]
      <4>1. a \in Nat /\ b \in Nat /\ l \in Nat /\ c \in Nat /\ b = a + l + 1 /\ b <= c
        BY <3>3, <3>4
      <4> HIDE DEF a, b, l, c
      <4>2. b \in 1..c /\ \A p \in 1..l : a + p \in 1..c
        BY <4>1, CellIsBefore
      <4>3. QED
        BY <4>2 DEF a, b, l, c
    <3>7. QED
      BY <3>1, <3>5, <3>6 DEF HasCell
  <2>4. HasCell(f[k], off, cells, k)
    BY <1>5, <2>2
  <2>5. \A j \in 1..k : HasCell(f[k], off, cells, j)
    BY <2>2, <2>3, <2>4
  <2>6. QED
    BY <2>1, <2>5
<1>9. n \in 0..n /\ \A j \in 1..n : HasCell(f[n], off, cells, j)
  BY <1>1, <1>8
<1>10. Layout(f[n], off, cells)
  BY <1>3, <1>7, <1>9 DEF Layout
<1>11. Join(cells) = f[n]
  BY JoinIsUpto DEF f
<1>12. QED
  BY <1>10, <1>11

-----------------------------------------------------------------------------
(* Splitting.                                                               *)

(* What is cut out of a first part of a line, between two separators.       *)
Begin(text, n) == SubSeq(text, 1, n)

IsPiece(part, line, cells, off, q, k, e) ==
    /\ cells \in Seq(Text) /\ Layout(line, off, cells)
    /\ q \in Nat /\ q < off[Len(cells)] /\ part = SubSeq(line, 1, q)
    /\ k \in 1..Len(cells) /\ e \in Nat /\ off[k - 1] <= e /\ e < off[k] /\ e <= q

LEMMA PieceOfPart ==
    ASSUME NEW part, NEW line, NEW cells, NEW off, NEW q, NEW k, NEW e,
           IsPiece(part, line, cells, off, q, k, e)
    PROVE  SubSeq(part, off[k - 1] + 1, e) = Begin(cells[k], e - off[k - 1])
<1> USE DEF IsPiece
<1> DEFINE cell == cells[k]
           start == off[k - 1]
           left == SubSeq(part, start + 1, e)
           right == SubSeq(cell, 1, e - start)
<1>1. line \in Seq(Tokens) /\ Len(line) = off[Len(cells)] /\ Offsets(off, cells)
      /\ HasCell(line, off, cells, k)
  BY DEF Layout, Text
<1>2. start \in Nat /\ off[k] \in Nat /\ Len(cell) \in Nat /\ off[k] = start + Len(cell) + 1
  BY <1>1, OffsetsGrow DEF Offsets
<1>3. \A i \in 1..q : line[i] \in Tokens
  <2>1. \A i \in 1..Len(line) : line[i] \in Tokens
    BY <1>1, ElementOfSeq
  <2>2. Len(line) \in Nat
    BY <1>1, LenProperties
  <2>3. QED
    BY <1>1, <2>1, <2>2
<1>4. part \in Seq(Tokens) /\ \A i \in 1..q : part[i] = line[i]
  BY <1>3, SubSeqProperties
<1>5. cell \in Seq(Tokens) /\ \A i \in 1..Len(cell) : cell[i] \in Tokens
  BY ElementOfSeq DEF Text
<1>6. \A p \in 1..Len(cell) : line[start + p] = cell[p]
  BY <1>1 DEF HasCell
<1> HIDE DEF cell, start
<1>7. \A p \in 1..(e - start) : p \in 1..Len(cell) /\ start + p \in 1..q
  <2> DEFINE l == Len(cell)
  <2>1. start \in Nat /\ l \in Nat /\ e \in start..q /\ e <= start + l
    BY <1>2 DEF start
  <2> HIDE DEF l
  <2>2. \A p \in 1..(e - start) : p \in 1..l /\ start + p \in 1..q
    BY <2>1
  <2>3. QED
    BY <2>2 DEF l
<1>8. \A i \in (start + 1)..e : part[i] \in Tokens
  BY <1>2, <1>3, <1>4
<1>9. /\ left \in Seq(Tokens) /\ Len(left) = e - start
      /\ \A i \in 1..(e - start) : left[i] = part[start + i]
  <2>1. /\ SubSeq(part, start + 1, e) \in Seq(Tokens)
        /\ Len(SubSeq(part, start + 1, e)) = IF start + 1 <= e THEN e - (start + 1) + 1 ELSE 0
        /\ \A i \in 1..(e - (start + 1) + 1) :
              SubSeq(part, start + 1, e)[i] = part[start + 1 + i - 1]
    BY <1>2, <1>8, SubSeqProperties
  <2>2. start <= e
    BY DEF start
  <2>3. \A i \in Int : start + 1 + i - 1 = start + i
    BY <1>2
  <2>4. QED
    BY <1>2, <2>1, <2>2, <2>3
<1>10. /\ right \in Seq(Tokens) /\ Len(right) = e - start
       /\ \A i \in 1..(e - start) : right[i] = cell[i]
  <2>1. \A i \in 1..(e - start) : cell[i] \in Tokens
    BY <1>5, <1>7
  <2>2. /\ SubSeq(cell, 1, e - start) \in Seq(Tokens)
        /\ Len(SubSeq(cell, 1, e - start)) = IF 1 <= e - start THEN e - start - 1 + 1 ELSE 0
        /\ \A i \in 1..(e - start - 1 + 1) : SubSeq(cell, 1, e - start)[i] = cell[1 + i - 1]
    BY <1>2, <2>1, SubSeqProperties
  <2>3. start <= e
    BY DEF start
  <2>4. QED
    BY <1>2, <2>2, <2>3
<1> HIDE DEF left, right
<1>11. \A i \in 1..(e - start) : left[i] = right[i]
  BY <1>4, <1>6, <1>7, <1>9, <1>10
<1>12. left = right
  BY <1>9, <1>10, <1>11, SeqEqual
<1>13. QED
  BY <1>12 DEF left, right, cell, start, Begin

(* The body of Split.                                                       *)
TabEnds(line) == {i \in 1..Len(line) : line[i] = Tab} \cup {Len(line) + 1}
StartAt(ends, k) == IF k = 1 THEN 1 ELSE EndAt(ends, k - 1) + 1
SplitAt(line, ends) ==
    [k \in 1..Cardinality(ends) |-> SubSeq(line, StartAt(ends, k), EndAt(ends, k) - 1)]

LEMMA SplitIsSplitAt == ASSUME NEW line PROVE Split(line) = SplitAt(line, TabEnds(line))
  BY DEF Split, SplitAt, TabEnds, EndAt, StartAt

(* The tabs of a first part of a line are those between its cells.          *)
LEMMA TabsOfPart ==
    ASSUME NEW cells \in Seq(Text), \A k \in 1..Len(cells) : Plain(cells[k]),
           NEW line, NEW off, Layout(line, off, cells),
           NEW q \in Nat, NEW k \in 1..Len(cells), off[k - 1] <= q, q < off[k]
    PROVE  {i \in 1..q : line[i] = Tab} = {off[j] : j \in 1..(k - 1)}
<1> DEFINE n == Len(cells)
<1>0. n \in Nat /\ \A j \in 1..n : j \in 0..n /\ j - 1 \in 0..n
  BY LenProperties
<1>1. Offsets(off, cells) /\ Len(line) = off[n] /\ \A j \in 1..n : HasCell(line, off, cells, j)
  BY DEF Layout
<1>2. /\ off \in [0..n -> Nat] /\ off[0] = 0
      /\ \A i, j \in 0..n : i < j => off[i] < off[j]
      /\ \A j \in 1..n : Len(cells[j]) \in Nat /\ off[j] = off[j - 1] + Len(cells[j]) + 1
  BY <1>1, OffsetsGrow DEF Offsets
<1> HIDE DEF n
<1>3. ASSUME NEW j \in 1..(k - 1) PROVE off[j] \in 1..q /\ line[off[j]] = Tab
  <2>1. j \in 1..n /\ j # n /\ k \in 1..n
    BY <1>0 DEF n
  <2>2. line[off[j]] = Tab
    BY <1>1, <2>1 DEF HasCell, Separator, n
  <2>3. j = k - 1 \/ off[j] < off[k - 1]
    BY <1>0, <1>2, <2>1
  <2>4. off[j] \in Nat /\ off[0] < off[j] /\ off[k - 1] \in Nat
    BY <1>0, <1>2, <2>1
  <2>5. QED
    BY <1>2, <2>2, <2>3, <2>4
<1>4. ASSUME NEW i \in 1..q, line[i] = Tab PROVE \E j \in 1..(k - 1) : i = off[j]
  <2>0. k \in 1..n /\ off[k] \in Nat
    BY <1>0, <1>2 DEF n
  <2>1. i - 1 \in Nat /\ i - 1 < off[n]
    <3>1. k = n \/ off[k] < off[n]
      BY <1>0, <1>2, <2>0
    <3>2. off[n] \in Nat
      BY <1>0, <1>2
    <3>3. QED
      BY <2>0, <3>1, <3>2
  <2>2. PICK j \in 1..n : off[j - 1] <= i - 1 /\ i - 1 < off[j]
    BY <1>0, <1>2, <2>1, FirstBeyond
  <2>3. off[j - 1] \in Nat /\ off[j] \in Nat /\ Len(cells[j]) \in Nat
        /\ off[j] = off[j - 1] + Len(cells[j]) + 1
    BY <1>0, <1>2
  <2>4. i = off[j]
    <3>1. ASSUME i # off[j] PROVE FALSE
      <4>1. i - off[j - 1] \in 1..Len(cells[j]) /\ off[j - 1] + (i - off[j - 1]) = i
        <5> DEFINE a == off[j - 1]
                   b == off[j]
                   l == Len(cells[j])
        <5>1. /\ a \in Nat /\ b \in Nat /\ l \in Nat /\ b = a + l + 1
              /\ i \in Nat /\ a <= i - 1 /\ i - 1 < b /\ i # b
          BY <2>2, <2>3, <3>1
        <5> HIDE DEF a, b, l
        <5>2. i - a \in 1..l /\ a + (i - a) = i
          BY <5>1, PlaceInCell
        <5>3. QED
          BY <5>2 DEF a, b, l
      <4>2. line[i] = cells[j][i - off[j - 1]]
        BY <1>1, <4>1 DEF HasCell
      <4>3. cells[j][i - off[j - 1]] \notin Separators
        BY <4>1 DEF Plain, n
      <4>4. QED
        BY <1>4, <4>2, <4>3 DEF Separators
    <3>2. QED
      BY <3>1
  <2>5. j < k
    <3>1. ASSUME ~(j < k) PROVE FALSE
      <4>1. j = k \/ off[k] < off[j]
        BY <1>0, <1>2, <2>0, <3>1
      <4>2. QED
        BY <2>0, <2>3, <2>4, <4>1
    <3>2. QED
      BY <3>1
  <2>6. QED
    BY <2>0, <2>4, <2>5
<1>5. QED
  BY <1>3, <1>4

LEMMA SplitPart ==
    ASSUME NEW cells \in Seq(Text), \A k \in 1..Len(cells) : Plain(cells[k]),
           NEW line, NEW off, Layout(line, off, cells),
           NEW q \in Nat, NEW k \in 1..Len(cells), off[k - 1] <= q, q < off[k]
    PROVE  LET fields == Split(SubSeq(line, 1, q))
           IN  /\ DOMAIN fields = 1..k /\ Len(fields) = k
               /\ \A j \in 1..(k - 1) : fields[j] = cells[j]
               /\ fields[k] = Begin(cells[k], q - off[k - 1])
<1> DEFINE n == Len(cells)
           part == SubSeq(line, 1, q)
           E == [j \in 1..k |-> IF j < k THEN off[j] ELSE q + 1]
           ends == TabEnds(part)
<1>0. n \in Nat /\ k \in 1..n /\ \A j \in 1..n : j \in 0..n /\ j - 1 \in 0..n
  BY LenProperties
<1>1. line \in Seq(Tokens) /\ Offsets(off, cells) /\ Len(line) = off[n]
  BY DEF Layout, Text
<1>2. /\ off \in [0..n -> Nat] /\ off[0] = 0
      /\ \A i, j \in 0..n : i < j => off[i] < off[j]
      /\ \A j \in 1..n : cells[j] \in Seq(Tokens) /\ Len(cells[j]) \in Nat
                         /\ off[j] = off[j - 1] + Len(cells[j]) + 1
  <2>1. \A j \in 1..Len(cells) : cells[j] \in Seq(Tokens)
    BY ElementOfSeq DEF Text
  <2>2. QED
    BY <1>1, <2>1, OffsetsGrow DEF Offsets
<1> HIDE DEF n
<1>3. q < off[n]
  <2>1. k = n \/ off[k] < off[n]
    BY <1>0, <1>2
  <2>2. off[n] \in Nat /\ off[k] \in Nat
    BY <1>0, <1>2
  <2>3. QED
    BY <2>1, <2>2
<1>4. part \in Seq(Tokens) /\ Len(part) = q /\ \A i \in 1..q : part[i] = line[i]
  <2>1. \A i \in 1..Len(line) : line[i] \in Tokens
    BY <1>1, ElementOfSeq
  <2>2. \A i \in 1..q : line[i] \in Tokens
    BY <1>0, <1>1, <1>2, <1>3, <2>1
  <2>3. QED
    BY <2>2, SubSeqProperties
<1> HIDE DEF part
<1>5. ends = {E[j] : j \in 1..k}
  <2>1. {i \in 1..q : line[i] = Tab} = {off[j] : j \in 1..(k - 1)}
    BY TabsOfPart
  <2>2. ends = {off[j] : j \in 1..(k - 1)} \cup {q + 1}
    BY <1>4, <2>1 DEF TabEnds
  <2>3. \A j \in 1..(k - 1) : j \in 1..k /\ E[j] = off[j]
    OBVIOUS
  <2>4. k \in 1..k /\ E[k] = q + 1
    BY <1>0
  <2>5. \A j \in 1..k : j \in 1..(k - 1) \/ j = k
    BY <1>0
  <2> HIDE DEF E, ends
  <2>6. QED
    BY <2>2, <2>3, <2>4, <2>5
<1>6. E \in [1..k -> Nat] /\ \A i, j \in 1..k : i < j => E[i] < E[j]
  <2>1. \A j \in 1..k : j \in 1..n /\ off[j] \in Nat
    BY <1>0, <1>2
  <2>2. ASSUME NEW j \in 1..k, j < k PROVE off[j] < q + 1
    <3>1. j = k - 1 \/ off[j] < off[k - 1]
      BY <1>0, <1>2, <2>2
    <3>2. off[j] \in Nat /\ off[k - 1] \in Nat
      BY <1>0, <1>2
    <3>3. QED
      BY <3>1, <3>2
  <2>3. \A i, j \in 1..k : i < j => off[i] < off[j]
    BY <1>0, <1>2, <2>1
  <2>4. QED
    BY <2>1, <2>2, <2>3
<1>7. Cardinality(ends) = k /\ \A j \in 1..k : EndAt(ends, j) = E[j]
  <2> HIDE DEF E, ends
  <2>1. k \in Nat
    BY <1>0
  <2>2. Cardinality(ends) = k
        /\ \A j \in 1..k : E[j] = EndAt(ends, j)
    BY <1>5, <1>6, <2>1, Ranks, ZenonT(60)
  <2>3. QED
    BY <2>2
<1>8. \A j \in 1..k : StartAt(ends, j) = off[j - 1] + 1
  <2>1. ASSUME NEW j \in 1..k, j # 1 PROVE EndAt(ends, j - 1) = off[j - 1]
    <3>1. j - 1 \in 1..k /\ j - 1 < k
      BY <1>0, <2>1
    <3>2. QED
      BY <1>7, <3>1
  <2>2. QED
    BY <1>2, <2>1 DEF StartAt
<1> DEFINE fields == SplitAt(part, ends)
<1>9. DOMAIN fields = 1..k /\ \A j \in 1..k : fields[j] = SubSeq(part, off[j - 1] + 1, E[j] - 1)
  <2> HIDE DEF E, ends
  <2>1. QED
    BY <1>7, <1>8 DEF SplitAt
<1>10. Len(fields) = k
  <2>1. ASSUME NEW j \in 1..k PROVE TRUE
    OBVIOUS
  <2>2. fields = [j \in 1..k |-> fields[j]]
    BY <1>7 DEF SplitAt
  <2>3. k \in Nat
    BY <1>0
  <2> HIDE DEF fields
  <2>4. QED
    BY <2>2, <2>3
<1>11. ASSUME NEW j \in 1..(k - 1) PROVE fields[j] = cells[j]
  <2>1. j \in 1..k /\ j < k /\ j \in 1..n /\ E[j] = off[j]
    BY <1>0
  <2>2. off[j] \in Nat /\ off[j - 1] \in Nat /\ Len(cells[j]) \in Nat
        /\ off[j] = off[j - 1] + Len(cells[j]) + 1
    BY <1>0, <1>2, <2>1
  <2>3. E[j] < q + 1
    <3>1. k \in 1..k /\ E[k] = q + 1
      BY <1>0
    <3>2. QED
      BY <1>6, <2>1, <3>1
  <2> DEFINE e == off[j] - 1
  <2>4. e \in Nat /\ off[j - 1] <= e /\ e < off[j] /\ e <= q /\ e - off[j - 1] = Len(cells[j])
    BY <2>1, <2>2, <2>3
  <2> HIDE DEF e
  <2>5. SubSeq(part, off[j - 1] + 1, e) = Begin(cells[j], e - off[j - 1])
    <3>1. j \in 1..Len(cells) /\ q < off[Len(cells)]
      BY <1>3, <2>1 DEF n
    <3>2. part = SubSeq(line, 1, q)
      BY DEF part
    <3>3. QED
      <4>1. IsPiece(part, line, cells, off, q, j, e)
        BY <2>4, <3>1, <3>2 DEF IsPiece
      <4>2. QED
        BY <4>1, PieceOfPart
  <2>6. Begin(cells[j], Len(cells[j])) = cells[j]
    BY <1>2, <2>1, SubSeqFull DEF Begin
  <2>7. fields[j] = SubSeq(part, off[j - 1] + 1, e)
    BY <1>9, <2>1 DEF e
  <2>8. QED
    BY <2>4, <2>5, <2>6, <2>7
<1>12. fields[k] = Begin(cells[k], q - off[k - 1])
  <2>1. k \in 1..k /\ E[k] = q + 1 /\ q + 1 - 1 = q
    BY <1>0
  <2>2. SubSeq(part, off[k - 1] + 1, q) = Begin(cells[k], q - off[k - 1])
    <3>1. k \in 1..Len(cells) /\ q < off[Len(cells)] /\ q <= q
      BY <1>3 DEF n
    <3>2. part = SubSeq(line, 1, q)
      BY DEF part
    <3>3. QED
      <4> HIDE DEF E, ends, fields
      <4>1. IsPiece(part, line, cells, off, q, k, q)
        BY <3>1, <3>2 DEF IsPiece
      <4>2. QED
        BY <4>1, PieceOfPart
  <2>3. fields[k] = SubSeq(part, off[k - 1] + 1, q)
    BY <1>9, <2>1
  <2>4. QED
    BY <2>2, <2>3
<1>13. Split(SubSeq(line, 1, q)) = fields
  BY SplitIsSplitAt DEF part
<1> HIDE DEF fields
<1>14. QED
  BY <1>9, <1>10, <1>11, <1>12, <1>13

-----------------------------------------------------------------------------
(* The values of fields.                                                    *)

Classes == {"required", "text", "name", "number", "optional", "side", "amount"}

LEMMA KindsAre ==
    Kinds = {"HELLO", "EVENT", "ACK", "PING", "WELCOME", "COMMAND", "ERROR", "PONG"}
  BY DEF Kinds, Schema

(* A field that is required is never the last of its frame: a cut that is   *)
(* taken for a whole frame cannot have emptied it.                          *)
LEMMA SchemaTyped ==
    ASSUME NEW kind \in Kinds
    PROVE  /\ Schema[kind] \in Seq(Classes)
           /\ Len(Schema[kind]) \in Nat /\ Len(Schema[kind]) >= 1
           /\ Schema[kind][Len(Schema[kind])] # "required"
<1>1. CASE kind = "HELLO"
  BY <1>1 DEF Schema, Classes
<1>2. CASE kind = "EVENT"
  BY <1>2 DEF Schema, Classes
<1>3. CASE kind = "ACK"
  BY <1>3 DEF Schema, Classes
<1>4. CASE kind = "PING"
  BY <1>4 DEF Schema, Classes
<1>5. CASE kind = "COMMAND"
  BY <1>5 DEF Schema, Classes
<1>6. CASE kind = "ERROR"
  BY <1>6 DEF Schema, Classes
<1>7. CASE kind = "WELCOME"
  BY <1>7 DEF Schema, Classes
<1>8. CASE kind = "PONG"
  BY <1>8 DEF Schema, Classes
<1>9. QED
  BY <1>1, <1>2, <1>3, <1>4, <1>5, <1>6, <1>7, <1>8, KindsAre

LEMMA FieldPlain ==
    ASSUME NEW text \in Text
    PROVE  /\ Field(text) = CarriedText(text)
           /\ Plain(Field(text))
           /\ Field(text) = <<>> <=> text = <<>>
<1>1. text \in Seq(Tokens) /\ Len(text) \in Nat /\ DOMAIN text = 1..Len(text)
      /\ \A i \in 1..Len(text) : text[i] \in Tokens
  BY LenProperties, ElementOfSeq DEF Text
<1> DEFINE n == Len(text)
           e(i) == IF text[i] \in Separators THEN " " ELSE text[i]
           field == [i \in 1..n |-> e(i)]
<1>2. Field(text) = field
  BY <1>1 DEF Field
<1>3. " " \in Tokens /\ " " \notin Separators
  BY DEF Tokens, Separators, Tab, Newline
<1>4. \A i \in 1..n : e(i) \in Tokens /\ e(i) \notin Separators
  BY <1>1, <1>3
<1> HIDE DEF e
<1>5. field \in Seq(Tokens) /\ Len(field) = n /\ \A i \in 1..n : field[i] = e(i)
  <2> HIDE DEF n
  <2>1. n \in Nat /\ \A i \in 1..n : e(i) \in Tokens
    BY <1>1, <1>4 DEF n
  <2>2. QED
    BY <2>1
<1> HIDE DEF field
<1>6. Plain(field)
  BY <1>4, <1>5 DEF Plain, Text
<1>7. field = <<>> <=> text = <<>>
  <2>1. field = <<>> <=> n = 0
    BY <1>5, EmptySeq
  <2>2. text = <<>> <=> n = 0
    BY <1>1, EmptySeq
  <2>3. QED
    BY <2>1, <2>2
<1>8. Field(text) = CarriedText(text)
  BY DEF Field, CarriedText
<1>9. QED
  BY <1>2, <1>6, <1>7, <1>8

LEMMA FieldKeepsPlain ==
    ASSUME NEW text \in Text, Plain(text) PROVE Field(text) = text
<1>1. Len(text) \in Nat /\ DOMAIN text = 1..Len(text) /\ text = [i \in 1..Len(text) |-> text[i]]
  BY LenProperties DEF Text
<1>2. \A i \in 1..Len(text) : text[i] \notin Separators
  BY DEF Plain
<1>3. Field(text) = [i \in 1..Len(text) |-> text[i]]
  BY <1>1, <1>2 DEF Field
<1>4. QED
  BY <1>1, <1>3

LEMMA NamesPlain ==
    ASSUME NEW text \in Text, text \in Names PROVE Plain(text) /\ text # <<>>
<1>1. \A i \in 1..Len(text) : text[i] \notin Separators
  BY DEF Names, Separators, Tab, Newline
<1>2. text # <<>>
  BY DEF Names
<1>3. QED
  BY <1>1, <1>2 DEF Plain

LEMMA NumbersPlain ==
    ASSUME NEW text \in Text, IsNumber(text) PROVE Plain(text) /\ text # <<>>
<1>1. DOMAIN text = 1..Len(text)
  BY LenProperties DEF Text
<1>2. \A i \in 1..Len(text) : text[i] \notin Separators
  BY <1>1 DEF IsNumber, Digits, Separators, Tab, Newline
<1>3. QED
  BY <1>2 DEF Plain, IsNumber

LEMMA CellOfText ==
    ASSUME NEW class \in Classes, NEW text, IsText(class, text)
    PROVE  /\ text \in Text /\ Plain(Field(text))
           /\ Field(text) = CarriedText(text)
           /\ Field(text) = <<>> <=> text = <<>>
           /\ class \in {"name", "side", "number", "amount"} => Field(text) = text /\ text # <<>>
<1>1. text \in Text
  BY DEF IsText, Text
<1>2. ASSUME class \in {"name", "side"} PROVE Field(text) = text /\ text # <<>>
  BY <1>1, <1>2, NamesPlain, FieldKeepsPlain DEF IsText
<1>3. ASSUME class \in {"number", "amount"} PROVE Field(text) = text /\ text # <<>>
  BY <1>1, <1>3, NumbersPlain, FieldKeepsPlain DEF IsText
<1>4. QED
  BY <1>1, <1>2, <1>3, FieldPlain

(* What is parsed out of the cell of a value.                               *)
LEMMA CellOfValue ==
    ASSUME NEW class \in Classes, NEW value, IsValue(class, value)
    PROVE  LET cell == EncodeValue(class, value)
           IN  /\ Plain(cell)
               /\ Accepts(class, cell) <=> (class = "required" => value # <<>>)
               /\ ParseValue(class, cell) = CarriedValue(class, value)
<1>1. CASE ~Optional(class)
  <2>1. IsText(class, value) /\ EncodeValue(class, value) = Field(value)
    BY <1>1 DEF IsValue, EncodeValue
  <2>2. /\ Plain(Field(value)) /\ Field(value) = CarriedText(value)
        /\ Field(value) = <<>> <=> value = <<>>
        /\ class \in {"name", "side", "number", "amount"} => Field(value) = value
    BY <2>1, CellOfText
  <2>3. class \in {"required", "text", "name", "number"}
    BY <1>1 DEF Classes, Optional
  <2>4. Accepts(class, Field(value)) <=> (class = "required" => value # <<>>)
    <3>1. CASE class = "required"
      BY <2>2, <3>1 DEF Accepts
    <3>2. CASE class = "text"
      BY <3>2 DEF Accepts
    <3>3. CASE class = "name"
      BY <2>1, <2>2, <3>3 DEF Accepts, IsText
    <3>4. CASE class = "number"
      BY <2>1, <2>2, <3>4 DEF Accepts, IsText
    <3>5. QED
      BY <2>3, <3>1, <3>2, <3>3, <3>4
  <2>5. ParseValue(class, Field(value)) = CarriedValue(class, value)
    BY <1>1, <2>2 DEF ParseValue, CarriedValue
  <2>6. QED
    BY <2>1, <2>2, <2>4, <2>5
<1>2. CASE Optional(class) /\ value = <<>>
  <2>1. EncodeValue(class, value) = <<>>
    BY <1>2 DEF EncodeValue
  <2>2. class \in {"optional", "side", "amount"}
    BY <1>2 DEF Optional
  <2>3. Plain(<<>>)
    BY DEF Plain, Text
  <2>4. Accepts(class, <<>>)
    BY <2>2 DEF Accepts
  <2>5. ParseValue(class, <<>>) = CarriedValue(class, value)
    BY <1>2 DEF ParseValue, CarriedValue
  <2>6. QED
    BY <2>1, <2>2, <2>3, <2>4, <2>5
<1>3. CASE Optional(class) /\ value # <<>>
  <2> DEFINE text == value[1]
  <2>1. value = <<text>> /\ IsText(class, text) /\ EncodeValue(class, value) = Field(text)
    BY <1>3 DEF IsValue, EncodeValue
  <2> HIDE DEF text
  <2>2. /\ Plain(Field(text)) /\ Field(text) = CarriedText(text)
        /\ Field(text) = <<>> <=> text = <<>>
        /\ class \in {"name", "side", "number", "amount"} => Field(text) = text
    BY <2>1, CellOfText
  <2>3. class \in {"optional", "side", "amount"}
    BY <1>3 DEF Optional
  <2>4. Accepts(class, Field(text))
    <3>1. CASE class = "optional"
      BY <3>1 DEF Accepts
    <3>2. CASE class = "side"
      BY <2>1, <2>2, <3>2 DEF Accepts, IsText
    <3>3. CASE class = "amount"
      BY <2>1, <2>2, <3>3 DEF Accepts, IsText
    <3>4. QED
      BY <2>3, <3>1, <3>2, <3>3
  <2>5. CarriedValue(class, value) = IF text = <<>> THEN <<>> ELSE <<CarriedText(text)>>
    <3>1. value[1] = text /\ value # <<>> /\ (value = <<<<>>>> <=> text = <<>>)
      BY <1>3, <2>1
    <3>2. QED
      BY <1>3, <3>1 DEF CarriedValue
  <2>6. ParseValue(class, Field(text)) = IF text = <<>> THEN <<>> ELSE <<CarriedText(text)>>
    BY <1>3, <2>2 DEF ParseValue
  <2>7. QED
    BY <2>1, <2>2, <2>3, <2>4, <2>5, <2>6
<1>4. QED
  BY <1>1, <1>2, <1>3

-----------------------------------------------------------------------------
(* The line of a frame.                                                     *)

LEMMA FrameTyped ==
    ASSUME NEW frame, IsFrame(frame)
    PROVE  LET n == Len(Schema[frame.kind])
           IN  /\ frame.kind \in Kinds /\ n \in Nat /\ n >= 1
               /\ DOMAIN Schema[frame.kind] = 1..n /\ DOMAIN frame.fields = 1..n
               /\ Len(frame.fields) = n
               /\ \A i \in 1..n : /\ Schema[frame.kind][i] \in Classes
                                  /\ IsValue(Schema[frame.kind][i], frame.fields[i])
<1> DEFINE n == Len(Schema[frame.kind])
<1>1. frame.kind \in Kinds /\ frame = [kind |-> frame.kind, fields |-> frame.fields]
  BY DEF IsFrame
<1>2. Schema[frame.kind] \in Seq(Classes) /\ n \in Nat /\ n >= 1
  BY <1>1, SchemaTyped
<1>3. DOMAIN Schema[frame.kind] = 1..n /\ \A i \in 1..n : Schema[frame.kind][i] \in Classes
  BY <1>2, LenProperties, ElementOfSeq
<1>4. DOMAIN frame.fields = 1..n
      /\ \A i \in 1..n : IsValue(Schema[frame.kind][i], frame.fields[i])
  BY <1>3 DEF IsFrame
<1>5. Len(frame.fields) = n
  <2> HIDE DEF n
  <2>1. n \in Nat
    BY <1>2
  <2>2. QED
    BY <1>4, <2>1
<1>6. QED
  BY <1>1, <1>2, <1>3, <1>4, <1>5

LEMMA CellsTyped ==
    ASSUME NEW frame, IsFrame(frame)
    PROVE  LET n == Len(Schema[frame.kind])
           IN  /\ Cells(frame) \in Seq(Text) /\ Len(Cells(frame)) = n + 2
               /\ \A k \in 1..(n + 2) : Plain(Cells(frame)[k])
               /\ Cells(frame)[1] = <<frame.kind>> /\ Cells(frame)[2] = Version
               /\ \A i \in 1..n : Cells(frame)[i + 2] =
                                     EncodeValue(Schema[frame.kind][i], frame.fields[i])
<1> DEFINE n == Len(Schema[frame.kind])
           cell(i) == EncodeValue(Schema[frame.kind][i], frame.fields[i])
           values == [i \in 1..n |-> cell(i)]
           head == <<<<frame.kind>>, Version>>
<1>1. /\ frame.kind \in Kinds /\ n \in Nat /\ DOMAIN frame.fields = 1..n
      /\ \A i \in 1..n : Schema[frame.kind][i] \in Classes
                         /\ IsValue(Schema[frame.kind][i], frame.fields[i])
  BY FrameTyped
<1>2. \A i \in 1..n : Plain(cell(i))
  BY <1>1, CellOfValue
<1>3. Plain(<<frame.kind>>) /\ Plain(Version)
  <2>1. frame.kind \in Tokens /\ frame.kind \notin Separators
    BY <1>1, KindsAre DEF Tokens, Separators, Tab, Newline
  <2>2. "1" \in Tokens /\ "1" \notin Separators
    BY DEF Tokens, Digits, Separators, Tab, Newline
  <2>3. QED
    BY <2>1, <2>2 DEF Plain, Text, Version
<1>4. head \in Seq(Text) /\ Len(head) = 2 /\ head[1] = <<frame.kind>> /\ head[2] = Version
  BY <1>3 DEF Plain
<1>5. Cells(frame) = head \o values
  BY <1>1 DEF Cells
<1> HIDE DEF cell, n
<1>6. \A i \in 1..n : cell(i) \in Text
  BY <1>2 DEF Plain
<1>7. values \in Seq(Text) /\ Len(values) = n /\ \A i \in 1..n : values[i] = cell(i)
  BY <1>1, <1>6
<1> DEFINE cells == head \o values
<1> HIDE DEF head, values
<1>8. /\ cells \in Seq(Text) /\ Len(cells) = n + 2
      /\ \A k \in 1..(n + 2) : cells[k] = IF k <= 2 THEN head[k] ELSE values[k - 2]
  <2>1. /\ head \o values \in Seq(Text) /\ Len(head \o values) = Len(head) + Len(values)
        /\ \A k \in 1..(Len(head) + Len(values)) :
              (head \o values)[k] = IF k <= Len(head) THEN head[k] ELSE values[k - Len(head)]
    BY <1>4, <1>7, ConcatProperties
  <2>2. QED
    BY <1>1, <1>4, <1>7, <2>1
<1> HIDE DEF cells
<1>9. cells[1] = <<frame.kind>> /\ cells[2] = Version
  BY <1>1, <1>4, <1>8
<1>10. \A i \in 1..n : cells[i + 2] = cell(i)
  <2>1. ASSUME NEW i \in 1..n PROVE cells[i + 2] = cell(i)
    <3>1. i + 2 \in 1..(n + 2) /\ ~(i + 2 <= 2) /\ i + 2 - 2 = i
      BY <1>1
    <3>2. QED
      BY <1>7, <1>8, <3>1
  <2>2. QED
    BY <2>1
<1>11. ASSUME NEW k \in 1..(n + 2) PROVE Plain(cells[k])
  <2>1. k = 1 \/ k = 2 \/ (k - 2 \in 1..n /\ k - 2 + 2 = k)
    BY <1>1
  <2>2. QED
    BY <1>2, <1>3, <1>9, <1>10, <2>1
<1>12. cells = Cells(frame)
  BY <1>5 DEF cells
<1>13. QED
  BY <1>8, <1>9, <1>10, <1>11, <1>12 DEF n, cell

(* A line has one newline, its last token.                                  *)
IsLine(line) ==
    /\ line \in Seq(Tokens) /\ Len(line) \in Nat /\ Len(line) >= 1
    /\ line[Len(line)] = Newline
    /\ \A p \in 1..(Len(line) - 1) : line[p] # Newline

LEMMA LayoutIsLine ==
    ASSUME NEW cells \in Seq(Text), Len(cells) >= 1, \A k \in 1..Len(cells) : Plain(cells[k]),
           NEW line, NEW off, Layout(line, off, cells)
    PROVE  IsLine(line)
<1> DEFINE n == Len(cells)
<1>0. n \in Nat /\ n >= 1 /\ \A j \in 1..n : j \in 0..n /\ j - 1 \in 0..n
  BY LenProperties
<1>1. Offsets(off, cells) /\ Len(line) = off[n] /\ \A j \in 1..n : HasCell(line, off, cells, j)
      /\ line \in Seq(Tokens)
  BY DEF Layout, Text
<1>2. /\ off \in [0..n -> Nat] /\ off[0] = 0
      /\ \A i, j \in 0..n : i < j => off[i] < off[j]
      /\ \A j \in 1..n : Len(cells[j]) \in Nat /\ off[j] = off[j - 1] + Len(cells[j]) + 1
  BY <1>1, OffsetsGrow DEF Offsets
<1>3. \A j \in 1..n : Plain(cells[j])
  OBVIOUS
<1>4. \A j \in 1..n : line[off[j]] = IF j = n THEN Newline ELSE Tab
  BY <1>1 DEF HasCell, Separator
<1>a. line \in Seq(Tokens) /\ Len(line) = off[n]
  BY <1>1
<1> HIDE DEF n
<1>5. off[n] \in Nat /\ off[n] >= 1 /\ line[off[n]] = Newline
  BY <1>0, <1>2, <1>4
<1>6. ASSUME NEW p \in 1..(off[n] - 1), line[p] = Newline PROVE FALSE
  <2>1. p - 1 \in Nat /\ p - 1 < off[n]
    BY <1>5
  <2>2. PICK j \in 1..n : off[j - 1] <= p - 1 /\ p - 1 < off[j]
    BY <1>0, <1>2, <2>1, FirstBeyond
  <2>3. off[j - 1] \in Nat /\ off[j] \in Nat /\ Len(cells[j]) \in Nat
        /\ off[j] = off[j - 1] + Len(cells[j]) + 1
    BY <1>0, <1>2
  <2>4. CASE p = off[j]
    <3>1. j # n
      BY <1>5, <2>4
    <3>2. QED
      BY <1>4, <1>6, <2>4, <3>1 DEF Tab, Newline
  <2>5. CASE p # off[j]
    <3>1. p - off[j - 1] \in 1..Len(cells[j]) /\ off[j - 1] + (p - off[j - 1]) = p
      BY <2>2, <2>3, <2>5
    <3>2. line[p] = cells[j][p - off[j - 1]]
      BY <1>1, <3>1 DEF HasCell
    <3>3. cells[j][p - off[j - 1]] \notin Separators
      BY <1>3, <3>1 DEF Plain
    <3>4. QED
      BY <1>6, <3>2, <3>3 DEF Separators
  <2>6. QED
    BY <2>4, <2>5
<1>8. Len(line) \in Nat /\ Len(line) >= 1 /\ line[Len(line)] = Newline
  BY <1>a, <1>5
<1>9. \A p \in 1..(Len(line) - 1) : line[p] # Newline
  BY <1>a, <1>6
<1>10. QED
  BY <1>a, <1>8, <1>9 DEF IsLine

LEMMA EncodedIsLine == ASSUME NEW frame, IsFrame(frame) PROVE IsLine(EncodeFrame(frame))
<1> DEFINE n == Len(Schema[frame.kind])
           cells == Cells(frame)
<1>1. cells \in Seq(Text) /\ Len(cells) = n + 2 /\ \A k \in 1..(n + 2) : Plain(cells[k])
  BY CellsTyped
<1>2. n \in Nat
  BY FrameTyped
<1> HIDE DEF n, cells
<1>3. PICK off : Layout(Join(cells), off, cells)
  BY <1>1, JoinLayout
<1>4. IsLine(Join(cells))
  BY <1>1, <1>2, <1>3, LayoutIsLine
<1>5. QED
  BY <1>4 DEF EncodeFrame, cells

-----------------------------------------------------------------------------
(* Parsing a line, and a line that is cut.                                  *)

(* The body of Parse.                                                       *)
FieldAt(fields, i) == IF i \in DOMAIN fields THEN fields[i] ELSE <<>>
KindOf(fields, kinds) ==
    IF Len(fields[1]) = 1 /\ fields[1][1] \in kinds THEN fields[1][1] ELSE "none"
ParsedAs(kind, fields) ==
    [i \in DOMAIN Schema[kind] |-> ParseValue(Schema[kind][i], FieldAt(fields, i + 2))]
Parses(kind, fields) ==
    /\ kind # "none"
    /\ HasFields(fields, Len(Schema[kind]) + 2)
    /\ FieldAt(fields, 2) = Version
    /\ \A i \in DOMAIN Schema[kind] : Accepts(Schema[kind][i], FieldAt(fields, i + 2))
    /\ kind = "EVENT" => ValidEvent(ParsedAs(kind, fields))
ParseFields(fields, kinds) ==
    IF Parses(KindOf(fields, kinds), fields)
    THEN [kind |-> KindOf(fields, kinds), fields |-> ParsedAs(KindOf(fields, kinds), fields)]
    ELSE NoFrame

LEMMA ParseIsParseFields ==
    ASSUME NEW line, NEW kinds
    PROVE  Parse(line, kinds) = ParseFields(Split(StripLineEnd(line)), kinds)
  BY DEF Parse, ParseFields, Parses, ParsedAs, KindOf, FieldAt

(* What is parsed is a frame of one of the kinds, with its fields.          *)
LEMMA ParseTyped ==
    ASSUME NEW line, NEW kinds, kinds \subseteq Kinds
    PROVE  LET frame == Parse(line, kinds)
           IN  frame = NoFrame \/ /\ frame.kind \in kinds
                                  /\ DOMAIN frame.fields = DOMAIN Schema[frame.kind]
<1> DEFINE fields == Split(StripLineEnd(line))
           kind == KindOf(fields, kinds)
<1>1. Parse(line, kinds) = ParseFields(fields, kinds)
  BY ParseIsParseFields
<1>2. kind \in kinds \/ kind = "none"
  BY DEF KindOf
<1>3. "none" \notin kinds
  BY KindsAre
<1>4. ParseFields(fields, kinds) =
         IF Parses(kind, fields) THEN [kind |-> kind, fields |-> ParsedAs(kind, fields)]
         ELSE NoFrame
  BY DEF ParseFields
<1>5. DOMAIN ParsedAs(kind, fields) = DOMAIN Schema[kind]
  BY DEF ParsedAs
<1>6. Parses(kind, fields) => kind # "none"
  BY DEF Parses
<1> HIDE DEF kind, fields
<1>7. QED
  BY <1>1, <1>2, <1>4, <1>5, <1>6

LEMMA ValidEventCarried ==
    ASSUME NEW frame, IsFrame(frame), frame.kind = "EVENT", NEW parsed,
           \A i \in {4, 7, 8} :
              parsed[i] = CarriedValue(Schema[frame.kind][i], frame.fields[i])
    PROVE  ValidEvent(parsed) <=> ValidEvent(frame.fields)
<1>1. /\ Schema[frame.kind][4] = "name" /\ Schema[frame.kind][7] = "side"
      /\ Schema[frame.kind][8] = "number"
      /\ DOMAIN Schema[frame.kind] = 1..14
  BY DEF Schema
<1>2. \A i \in {4, 7, 8} : IsValue(Schema[frame.kind][i], frame.fields[i])
  <2>1. DOMAIN frame.fields = 1..14
    BY <1>1 DEF IsFrame
  <2>2. QED
    BY <2>1 DEF IsFrame
<1>3. ASSUME NEW i \in {4, 8} PROVE parsed[i] = frame.fields[i]
  <2> DEFINE class == Schema[frame.kind][i]
             text == frame.fields[i]
  <2>1. class \in {"name", "number"} /\ IsValue(class, text)
    BY <1>1, <1>2
  <2>2. parsed[i] = CarriedValue(class, text)
    OBVIOUS
  <2> HIDE DEF class, text
  <2>3. IsText(class, text) /\ class \in Classes
    BY <2>1 DEF IsValue, Optional, Classes
  <2>4. CarriedText(text) = text
    BY <2>1, <2>3, CellOfText
  <2>5. parsed[i] = text
    BY <2>1, <2>2, <2>4 DEF CarriedValue, Optional
  <2>6. QED
    BY <2>5 DEF text
<1>4. parsed[7] = <<>> <=> frame.fields[7] = <<>>
  <2> DEFINE value == frame.fields[7]
  <2>1. IsValue("side", value) /\ parsed[7] = CarriedValue("side", value)
    BY <1>1, <1>2
  <2> HIDE DEF value
  <2>2. CASE value = <<>>
    BY <2>1, <2>2 DEF CarriedValue, Optional, value
  <2>3. CASE value # <<>>
    <3>1. value = <<value[1]>> /\ IsText("side", value[1])
      BY <2>1, <2>3 DEF IsValue, Optional
    <3>2. value[1] # <<>>
      BY <3>1, CellOfText DEF Classes
    <3>3. value # <<<<>>>>
      BY <3>1, <3>2
    <3>4. parsed[7] = <<CarriedText(value[1])>>
      BY <2>1, <2>3, <3>3 DEF CarriedValue, Optional
    <3>5. QED
      BY <2>3, <3>4 DEF value
  <2>4. QED
    BY <2>2, <2>3
<1>5. parsed[4] = frame.fields[4] /\ parsed[8] = frame.fields[8]
  BY <1>3
<1>6. QED
  BY <1>4, <1>5 DEF ValidEvent

LEMMA ParseCells ==
    ASSUME NEW frame, IsFrame(frame), NEW kinds, kinds \subseteq Kinds, frame.kind \in kinds,
           NEW k \in 1..(Len(Schema[frame.kind]) + 2),
           NEW fields, DOMAIN fields = 1..k, Len(fields) = k,
           \A j \in 1..(k - 1) : fields[j] = Cells(frame)[j]
    PROVE  LET got == ParseFields(fields, kinds)
           IN  /\ got # NoFrame => Sendable(frame) /\ SameButLast(got, Carried(frame))
               /\ k = Len(Schema[frame.kind]) + 2 /\ fields[k] = Cells(frame)[k]
                     => got = IF Sendable(frame) THEN Carried(frame) ELSE NoFrame
<1> DEFINE kind == frame.kind
           schema == Schema[kind]
           n == Len(schema)
           values == frame.fields
           carried(i) == CarriedValue(schema[i], values[i])
           parsed == ParsedAs(kind, fields)
           got == ParseFields(fields, kinds)
<1>1. /\ kind \in Kinds /\ n \in Nat /\ n >= 1 /\ Len(values) = n
      /\ DOMAIN schema = 1..n /\ DOMAIN values = 1..n
      /\ \A i \in 1..n : schema[i] \in Classes /\ IsValue(schema[i], values[i])
  BY FrameTyped
<1>2. /\ Cells(frame)[1] = <<kind>> /\ Cells(frame)[2] = Version
      /\ \A i \in 1..n : Cells(frame)[i + 2] = EncodeValue(schema[i], values[i])
  BY CellsTyped
<1>3. k \in 1..(n + 2)
  OBVIOUS
<1>4. "none" \notin Kinds
  BY KindsAre
<1>5. CASE k = 1
  <2>1. ASSUME Parses(KindOf(fields, kinds), fields) PROVE FALSE
    <3> DEFINE some == KindOf(fields, kinds)
    <3>1. some \in kinds \/ some = "none"
      BY DEF KindOf
    <3>2. some # "none" /\ Len(fields) = Len(Schema[some]) + 2
      BY <2>1 DEF Parses, HasFields
    <3> HIDE DEF some
    <3>3. Len(Schema[some]) \in Nat
      BY <3>1, <3>2, SchemaTyped
    <3> DEFINE m == Len(Schema[some])
    <3>4. m \in Nat /\ m + 2 = 1
      BY <1>5, <3>2, <3>3
    <3> HIDE DEF m
    <3>5. QED
      BY <3>4
  <2>2. got = NoFrame
    BY <2>1 DEF ParseFields
  <2>3. k # n + 2
    BY <1>1, <1>5
  <2>4. QED
    BY <2>2, <2>3
<1>6. CASE k # 1
  <2>1. 1 \in 1..(k - 1) /\ fields[1] = <<kind>>
    BY <1>2, <1>3, <1>6
  <2>2. KindOf(fields, kinds) = kind
    BY <2>1 DEF KindOf
  <2>3. got = IF Parses(kind, fields) THEN [kind |-> kind, fields |-> parsed] ELSE NoFrame
    BY <2>2 DEF ParseFields
  <2>4. CASE k # n + 2
    <3>1. ~Parses(kind, fields)
      BY <2>4 DEF Parses, HasFields
    <3>2. QED
      BY <2>3, <2>4, <3>1
  <2>5. CASE k = n + 2
    <3>1. FieldAt(fields, 2) = Version /\ HasFields(fields, n + 2)
      <4>1. 2 \in 1..(k - 1) /\ 2 \in 1..k
        BY <1>1, <2>5
      <4>2. fields[2] = Version
        BY <1>2, <4>1
      <4>3. QED
        BY <2>5, <4>1, <4>2 DEF FieldAt, HasFields
    <3>2. \A i \in 1..(n - 1) : FieldAt(fields, i + 2) = EncodeValue(schema[i], values[i])
      <4>1. \A i \in 1..(n - 1) : i \in 1..n /\ i + 2 \in 1..(k - 1) /\ i + 2 \in 1..k
        BY <1>1, <2>5
      <4> HIDE DEF n, schema, values
      <4>2. QED
        BY <1>2, <4>1 DEF FieldAt
    <3>3. DOMAIN parsed = 1..n
          /\ \A i \in 1..n : parsed[i] = ParseValue(schema[i], FieldAt(fields, i + 2))
      BY <1>1 DEF ParsedAs
    <3>4. \A i \in 1..(n - 1) :
             /\ parsed[i] = carried(i)
             /\ Accepts(schema[i], FieldAt(fields, i + 2))
                   <=> (schema[i] = "required" => values[i] # <<>>)
      <4>1. \A i \in 1..(n - 1) : i \in 1..n
        BY <1>1
      <4> HIDE DEF n, schema, values, parsed
      <4>2. QED
        BY <1>1, <3>2, <3>3, <4>1, CellOfValue
    <3>5. schema[n] # "required"
      BY <1>1, SchemaTyped
    <3>6. kind = "EVENT" => (ValidEvent(parsed) <=> ValidEvent(values))
      <4>1. ASSUME kind = "EVENT" PROVE ValidEvent(parsed) <=> ValidEvent(values)
        <5>1. n = 14
          BY <4>1 DEF Schema
        <5>2. \A i \in {4, 7, 8} : parsed[i] = carried(i)
          <6>1. \A i \in {4, 7, 8} : i \in 1..(n - 1)
            BY <5>1
          <6>2. QED
            BY <3>4, <6>1
        <5> HIDE DEF parsed
        <5>3. QED
          BY <4>1, <5>2, ValidEventCarried
      <4>2. QED
        BY <4>1
    <3>7. Parses(kind, fields)
             <=> /\ \A i \in 1..n : Accepts(schema[i], FieldAt(fields, i + 2))
                 /\ kind = "EVENT" => ValidEvent(parsed)
      BY <1>1, <1>4, <3>1 DEF Parses
    <3>8. Sendable(frame)
             <=> /\ \A i \in 1..n : schema[i] = "required" => values[i] # <<>>
                 /\ kind = "EVENT" => ValidEvent(values)
      BY <1>1 DEF Sendable
    <3>9. Carried(frame) = [kind |-> kind, fields |-> [i \in 1..n |-> carried(i)]]
      BY <1>1 DEF Carried
    <3>10. \A i \in 1..n : i \in 1..(n - 1) \/ i = n
      BY <1>1
    <3> HIDE DEF parsed, schema, values, n, carried, kind
    <3>11. Parses(kind, fields) => Sendable(frame)
      <4>1. \A i \in 1..(n - 1) : i \in 1..n
        BY <1>1
      <4>2. QED
        BY <3>4, <3>5, <3>6, <3>7, <3>8, <3>10, <4>1
    <3>12. ASSUME Parses(kind, fields) PROVE SameButLast(got, Carried(frame))
      <4> DEFINE full == [i \in 1..n |-> carried(i)]
      <4>1. got.kind = kind /\ got.fields = parsed
        BY <2>3, <3>12
      <4>2. Carried(frame).kind = kind /\ Carried(frame).fields = full
        BY <3>9
      <4>3. Len(full) = n /\ DOMAIN full = 1..n
        BY <1>1
      <4>4. \A i \in 1..(n - 1) : i \in 1..n /\ full[i] = parsed[i]
        BY <1>1, <3>4
      <4> HIDE DEF full, got
      <4>5. QED
        BY <3>3, <4>1, <4>2, <4>3, <4>4 DEF SameButLast
    <3>13. got # NoFrame => Sendable(frame) /\ SameButLast(got, Carried(frame))
      BY <2>3, <3>11, <3>12
    <3>14. ASSUME fields[k] = Cells(frame)[k]
           PROVE  got = IF Sendable(frame) THEN Carried(frame) ELSE NoFrame
      <4>1. n \in 1..n /\ k \in 1..k /\ k = n + 2
        BY <1>1, <1>3, <2>5 DEF n
      <4>2. FieldAt(fields, n + 2) = EncodeValue(schema[n], values[n])
        BY <1>2, <3>14, <4>1 DEF FieldAt
      <4>3. /\ parsed[n] = carried(n)
            /\ Accepts(schema[n], FieldAt(fields, n + 2))
        BY <1>1, <3>3, <3>5, <4>1, <4>2, CellOfValue DEF carried
      <4>4. \A i \in 1..n : parsed[i] = carried(i)
        BY <3>4, <3>10, <4>3
      <4>5. Parses(kind, fields) <=> Sendable(frame)
        BY <3>4, <3>5, <3>6, <3>7, <3>8, <3>10, <3>11, <4>3
      <4>6. parsed = [i \in 1..n |-> carried(i)]
        <5>1. parsed = [i \in 1..n |-> parsed[i]]
          BY <1>1 DEF parsed, ParsedAs, schema, kind
        <5>2. QED
          BY <4>4, <5>1
      <4>7. QED
        BY <2>3, <3>9, <4>5, <4>6
    <3>15. QED
      BY <3>13, <3>14
  <2>6. QED
    BY <2>4, <2>5
<1>7. QED
  BY <1>5, <1>6

(* A first part of the line of a frame is taken for the frame, less its     *)
(* last field, or for nothing; all of it, for what the frame carries.       *)
LEMMA ParsePart ==
    ASSUME NEW frame, IsFrame(frame), NEW kinds, kinds \subseteq Kinds, frame.kind \in kinds,
           NEW q \in Nat, q < Len(EncodeFrame(frame))
    PROVE  LET got == ParseFields(Split(SubSeq(EncodeFrame(frame), 1, q)), kinds)
           IN  /\ got # NoFrame => Sendable(frame) /\ SameButLast(got, Carried(frame))
               /\ q = Len(EncodeFrame(frame)) - 1
                     => got = IF Sendable(frame) THEN Carried(frame) ELSE NoFrame
<1> DEFINE n == Len(Schema[frame.kind])
           cells == Cells(frame)
           line == EncodeFrame(frame)
           fields == Split(SubSeq(line, 1, q))
<1>1. /\ cells \in Seq(Text) /\ Len(cells) = n + 2
      /\ \A k \in 1..(n + 2) : Plain(cells[k])
  BY CellsTyped
<1>2. n \in Nat
  BY FrameTyped
<1> HIDE DEF cells
<1>3. PICK off : Layout(line, off, cells)
  BY <1>1, JoinLayout DEF EncodeFrame, cells
<1>4. Offsets(off, cells) /\ Len(line) = off[n + 2]
  BY <1>1, <1>3 DEF Layout
<1>5. off \in [0..(n + 2) -> Nat] /\ off[0] = 0
      /\ \A i \in 1..(n + 2) : off[i] = off[i - 1] + Len(cells[i]) + 1
  BY <1>1, <1>4 DEF Offsets
<1> HIDE DEF n, line, fields
<1>6. PICK k \in 1..(n + 2) : off[k - 1] <= q /\ q < off[k]
  <2>1. q < off[n + 2]
    BY <1>4 DEF line
  <2>2. n + 2 \in Nat
    BY <1>2
  <2>3. QED
    BY <1>5, <2>1, <2>2, FirstBeyond
<1>7. /\ DOMAIN fields = 1..k /\ Len(fields) = k
      /\ \A j \in 1..(k - 1) : fields[j] = cells[j]
      /\ fields[k] = Begin(cells[k], q - off[k - 1])
  <2>1. k \in 1..Len(cells) /\ \A i \in 1..Len(cells) : Plain(cells[i])
    BY <1>1, <1>6
  <2>2. QED
    BY <1>1, <1>3, <1>6, <2>1, SplitPart DEF fields
<1>8. ASSUME q = Len(line) - 1 PROVE k = n + 2 /\ fields[k] = cells[k]
  <2>1. k = n + 2
    <3>1. \A i, j \in 0..Len(cells) : i < j => off[i] < off[j]
      BY <1>1, <1>4, OffsetsGrow
    <3>2. k # n + 2 => off[k] < off[n + 2]
      BY <1>1, <1>2, <1>6, <3>1
    <3>3. off[k] \in Nat /\ off[n + 2] \in Nat
      BY <1>2, <1>5
    <3>4. QED
      BY <1>4, <1>6, <1>8, <3>2, <3>3
  <2>2. cells[k] \in Text
    BY <1>1, <1>6, ElementOfSeq
  <2>3. Len(cells[k]) \in Nat /\ Begin(cells[k], Len(cells[k])) = cells[k]
    BY <2>2, LenProperties, SubSeqFull DEF Text, Begin
  <2>4. q - off[k - 1] = Len(cells[k])
    <3>1. off[k] = off[k - 1] + Len(cells[k]) + 1 /\ off[k - 1] \in Nat
      BY <1>2, <1>5, <1>6
    <3>2. q = off[k] - 1
      BY <1>4, <1>8, <2>1
    <3>3. QED
      BY <2>3, <3>1, <3>2
  <2>5. QED
    BY <1>7, <2>1, <2>3, <2>4
<1> DEFINE got == ParseFields(fields, kinds)
<1>9. /\ got # NoFrame => Sendable(frame) /\ SameButLast(got, Carried(frame))
      /\ k = n + 2 /\ fields[k] = cells[k]
            => got = IF Sendable(frame) THEN Carried(frame) ELSE NoFrame
  BY <1>6, <1>7, ParseCells DEF n, cells
<1>10. /\ got # NoFrame => Sendable(frame) /\ SameButLast(got, Carried(frame))
       /\ q = Len(line) - 1 => got = IF Sendable(frame) THEN Carried(frame) ELSE NoFrame
  BY <1>8, <1>9
<1>11. QED
  BY <1>10 DEF fields, line

(* The whole line of a frame.                                               *)
LEMMA ParseLine ==
    ASSUME NEW frame, IsFrame(frame), NEW kinds, kinds \subseteq Kinds, frame.kind \in kinds
    PROVE  Parse(EncodeFrame(frame), kinds) = IF Sendable(frame) THEN Carried(frame) ELSE NoFrame
<1> DEFINE line == EncodeFrame(frame)
           q == Len(line) - 1
<1>1. line \in Seq(Tokens) /\ Len(line) \in Nat /\ Len(line) >= 1 /\ line[Len(line)] = Newline
  BY EncodedIsLine DEF IsLine
<1>2. q \in Nat /\ q < Len(line)
  BY <1>1
<1>3. StripLineEnd(line) = SubSeq(line, 1, q)
  <2>1. line # <<>>
    BY <1>1
  <2>2. Last(line) = Newline
    BY <1>1 DEF Last
  <2>3. QED
    BY <2>1, <2>2 DEF StripLineEnd, Front
<1>4. Parse(line, kinds) = ParseFields(Split(SubSeq(line, 1, q)), kinds)
  BY <1>3, ParseIsParseFields
<1>5. ParseFields(Split(SubSeq(line, 1, q)), kinds)
         = IF Sendable(frame) THEN Carried(frame) ELSE NoFrame
  <2> HIDE DEF q
  <2>1. q = Len(EncodeFrame(frame)) - 1 /\ q < Len(EncodeFrame(frame)) /\ q \in Nat
    BY <1>2 DEF q
  <2>2. QED
    BY <2>1, ParsePart
<1>6. QED
  BY <1>4, <1>5

(* The line of a frame that is cut.                                         *)
LEMMA ParseCut ==
    ASSUME NEW frame, IsFrame(frame), NEW kinds, kinds \subseteq Kinds, frame.kind \in kinds,
           NEW q \in Nat, q < Len(EncodeFrame(frame)),
           NEW cut, cut \in Seq(Tokens), Len(cut) = q,
           \A p \in 1..q : cut[p] = EncodeFrame(frame)[p]
    PROVE  LET got == Parse(cut, kinds)
           IN  got # NoFrame => Sendable(frame) /\ SameButLast(got, Carried(frame))
<1> DEFINE line == EncodeFrame(frame)
           part == SubSeq(line, 1, q)
<1>1. line \in Seq(Tokens) /\ Len(line) \in Nat
      /\ \A p \in 1..(Len(line) - 1) : line[p] # Newline
  BY EncodedIsLine DEF IsLine
<1>2. part \in Seq(Tokens) /\ Len(part) = q /\ \A p \in 1..q : part[p] = line[p]
  <2>1. \A p \in 1..q : line[p] \in Tokens
    BY <1>1, ElementOfSeq
  <2>2. QED
    BY <2>1, SubSeqProperties
<1> HIDE DEF part
<1>3. cut = part
  BY <1>2, SeqEqual
<1>4. StripLineEnd(cut) = cut
  <2>1. ASSUME cut # <<>> PROVE Last(cut) # Newline
    <3>1. q \in 1..q /\ q \in 1..(Len(line) - 1)
      BY <1>1, <2>1, EmptySeq
    <3>2. cut[q] = line[q]
      BY <3>1
    <3>3. QED
      BY <1>1, <3>1, <3>2 DEF Last
  <2>2. QED
    BY <2>1 DEF StripLineEnd
<1>5. Parse(cut, kinds) = ParseFields(Split(SubSeq(line, 1, q)), kinds)
  BY <1>3, <1>4, ParseIsParseFields DEF part
<1>6. QED
  BY <1>5, ParsePart

-----------------------------------------------------------------------------
(* One direction of the connection: of the frames that were sent, those     *)
(* that have been read, and those whose lines are on the stream.            *)

Sent == Hellos \cup AgentFrames \cup Commands \cup {Welcome}
Heard(kinds) == {Parse(line, kinds) : line \in Seq(Tokens)} \ {NoFrame}
LineOf(all, k) == EncodeFrame(all[k])

(* Of all, the first m have been read: at[i] is where the frame heard as    *)
(* the i-th is among them.                                                  *)
Reads(all, got, m, at, writer) ==
    /\ m \in 0..Len(all) /\ at \in [1..Len(got) -> 1..m]
    /\ \A i, j \in 1..Len(got) : i < j => at[i] < at[j]
    /\ \A i \in 1..Len(got) : Sendable(all[at[i]])
    /\ \A k \in 1..m : Sendable(all[k]) => \E j \in 1..Len(got) : at[j] = k
    /\ \A i \in 1..Len(got) :
          /\ SameButLast(got[i], Carried(all[at[i]]))
          /\ got[i] = Carried(all[at[i]]) \/ (writer = "gone" /\ at[i] = Len(all))

(* The lines of the others are on the stream: ends[k] is where that of the  *)
(* k-th ends.  Only the last may be cut, and only when its writer has gone. *)
Waits(all, stream, m, ends, writer) ==
    /\ ends \in [m..Len(all) -> Nat] /\ ends[m] = 0
    /\ \A k \in (m + 1)..Len(all) : ends[k] = ends[k - 1] + Len(LineOf(all, k))
    /\ \A j, k \in m..Len(all) : j <= k => ends[j] <= ends[k]
    /\ stream \in Seq(Tokens) /\ Len(stream) <= ends[Len(all)]
    /\ writer # "gone" => Len(stream) = ends[Len(all)]
    /\ \A k \in m..(Len(all) - 1) : ends[k] <= Len(stream)
    /\ \A k \in (m + 1)..Len(all) : \A p \in 1..Len(LineOf(all, k)) :
          ends[k - 1] + p <= Len(stream) => stream[ends[k - 1] + p] = LineOf(all, k)[p]

Direction(all, got, stream, writer, reader) ==
    \E m \in 0..Len(all) : \E at \in [1..Len(got) -> 1..m] :
        /\ Reads(all, got, m, at, writer)
        /\ reader # "gone" => \E ends \in [m..Len(all) -> Nat] : Waits(all, stream, m, ends, writer)

LEMMA WelcomeIsFrame == IsFrame(Welcome) /\ Sendable(Welcome)
<1>1. Schema["WELCOME"] = <<"number">>
  BY DEF Schema
<1> DEFINE text == <<"1", "0">>
<1>2. "1" \in Tokens /\ "0" \in Tokens /\ "1" \in Digits /\ "0" \in Digits
  BY DEF Tokens, Digits
<1>3. text \in Seq(Tokens) /\ IsNumber(text)
  BY <1>2 DEF IsNumber
<1> HIDE DEF text
<1>4. IsValue("number", text)
  BY <1>3 DEF IsValue, IsText, Optional
<1>5. Welcome = [kind |-> "WELCOME", fields |-> <<text>>]
  BY DEF Welcome, text
<1>6. IsFrame(Welcome)
  BY <1>1, <1>4, <1>5, KindsAre DEF IsFrame
<1>7. Sendable(Welcome)
  BY <1>1, <1>5 DEF Sendable
<1>8. QED
  BY <1>6, <1>7

LEMMA SentAreFrames == \A frame \in Sent : IsFrame(frame)
  BY WireAssumption, WelcomeIsFrame DEF Sent

LEMMA LinesOf ==
    ASSUME NEW all \in Seq(Sent), NEW k \in 1..Len(all)
    PROVE  IsFrame(all[k]) /\ IsLine(LineOf(all, k))
<1>1. all[k] \in Sent
  BY ElementOfSeq
<1>2. QED
  BY <1>1, SentAreFrames, EncodedIsLine DEF LineOf

(* A side that goes, and the stream of a reader that has gone.              *)
LEMMA DirectionEnds ==
    ASSUME NEW all, NEW got, NEW stream, NEW writer, NEW reader,
           Direction(all, got, stream, writer, reader),
           NEW stream2, NEW writer2, NEW reader2,
           writer = "gone" => writer2 = "gone", reader = "gone" => reader2 = "gone",
           reader2 = "gone" \/ stream2 = stream
    PROVE  Direction(all, got, stream2, writer2, reader2)
<1>1. PICK m \in 0..Len(all) : \E at \in [1..Len(got) -> 1..m] :
        /\ Reads(all, got, m, at, writer)
        /\ reader # "gone" => \E ends \in [m..Len(all) -> Nat] : Waits(all, stream, m, ends, writer)
  BY DEF Direction
<1>2. PICK at \in [1..Len(got) -> 1..m] :
        /\ Reads(all, got, m, at, writer)
        /\ reader # "gone" => \E ends \in [m..Len(all) -> Nat] : Waits(all, stream, m, ends, writer)
  BY <1>1
<1>3. Reads(all, got, m, at, writer2)
  BY <1>2 DEF Reads
<1>4. ASSUME reader2 # "gone"
      PROVE  \E ends \in [m..Len(all) -> Nat] : Waits(all, stream2, m, ends, writer2)
  <2>1. PICK ends \in [m..Len(all) -> Nat] : Waits(all, stream, m, ends, writer)
    BY <1>2, <1>4
  <2>2. Waits(all, stream2, m, ends, writer2)
    BY <1>4, <2>1 DEF Waits
  <2>3. QED
    BY <2>2
<1>5. QED
  BY <1>3, <1>4 DEF Direction

(* Another frame is written.                                                *)
LEMMA ReadsAppend ==
    ASSUME NEW all \in Seq(Sent), NEW got, NEW m, NEW at, NEW writer, writer # "gone",
           Reads(all, got, m, at, writer), NEW frame \in Sent, NEW writer2
    PROVE  Reads(Append(all, frame), got, m, at, writer2)
<1> DEFINE more == Append(all, frame)
<1>1. Len(more) = Len(all) + 1 /\ Len(all) \in Nat /\ \A k \in 1..Len(all) : more[k] = all[k]
  BY AppendProperties, LenProperties
<1>2. m \in 0..Len(all) /\ at \in [1..Len(got) -> 1..m]
  BY DEF Reads
<1>3. \A k \in 1..m : more[k] = all[k]
  BY <1>1, <1>2
<1>4. \A i \in 1..Len(got) : at[i] \in 1..m /\ more[at[i]] = all[at[i]]
  BY <1>2, <1>3
<1> HIDE DEF more
<1>5. m \in 0..Len(more)
  BY <1>1, <1>2
<1>6. Reads(more, got, m, at, writer2)
  BY <1>2, <1>3, <1>4, <1>5 DEF Reads
<1>7. QED
  BY <1>6 DEF more

LEMMA WaitsAppend ==
    ASSUME NEW all \in Seq(Sent), NEW stream, NEW m \in 0..Len(all), NEW ends, NEW writer,
           writer # "gone", Waits(all, stream, m, ends, writer), NEW frame \in Sent,
           NEW writer2
    PROVE  \E ends2 \in [m..Len(Append(all, frame)) -> Nat] :
              Waits(Append(all, frame), stream \o EncodeFrame(frame), m, ends2, writer2)
<1> DEFINE more == Append(all, frame)
           n == Len(all)
           line == EncodeFrame(frame)
           longer == stream \o line
<1>1. Len(more) = n + 1 /\ n \in Nat /\ more[n + 1] = frame
      /\ \A k \in 1..n : more[k] = all[k]
  BY AppendProperties, LenProperties
<1>2. line \in Seq(Tokens) /\ Len(line) \in Nat /\ Len(line) >= 1
  BY SentAreFrames, EncodedIsLine DEF IsLine
<1>3. /\ ends \in [m..n -> Nat] /\ ends[m] = 0 /\ stream \in Seq(Tokens) /\ Len(stream) = ends[n]
      /\ \A k \in (m + 1)..n : ends[k] = ends[k - 1] + Len(LineOf(all, k))
      /\ \A j, k \in m..n : j <= k => ends[j] <= ends[k]
      /\ \A k \in m..(n - 1) : ends[k] <= Len(stream)
  BY DEF Waits
<1>4. \A k \in (m + 1)..n : \A p \in 1..Len(LineOf(all, k)) :
          ends[k - 1] + p <= Len(stream) => stream[ends[k - 1] + p] = LineOf(all, k)[p]
  BY DEF Waits
<1>5. /\ longer \in Seq(Tokens) /\ Len(longer) = Len(stream) + Len(line)
      /\ \A p \in 1..(Len(stream) + Len(line)) :
            longer[p] = IF p <= Len(stream) THEN stream[p] ELSE line[p - Len(stream)]
  <2> HIDE DEF line
  <2>1. stream \in Seq(Tokens) /\ line \in Seq(Tokens)
    BY <1>2, <1>3
  <2>2. QED
    BY <2>1, ConcatProperties
<1>6. /\ LineOf(more, n + 1) = line
      /\ \A k \in (m + 1)..n : LineOf(more, k) = LineOf(all, k)
  BY <1>1 DEF LineOf
<1> DEFINE ends2 == [k \in m..(n + 1) |-> IF k <= n THEN ends[k] ELSE ends[n] + Len(line)]
<1> HIDE DEF more, n, line, longer
<1>7. m \in Nat /\ m <= n /\ n \in m..n /\ ends[n] \in Nat
  <2>1. m \in 0..n
    BY DEF n
  <2>2. QED
    BY <1>1, <1>3, <2>1
<1>8. /\ ends2 \in [m..(n + 1) -> Nat] /\ ends2[n + 1] = ends[n] + Len(line)
      /\ \A k \in m..n : k \in m..(n + 1) /\ ends2[k] = ends[k] /\ ends[k] \in Nat
  BY <1>1, <1>2, <1>3, <1>7
<1> HIDE DEF ends2
<1>9. \A k \in m..(n + 1) : k \in m..n \/ k = n + 1
  BY <1>1, <1>7
<1>10. ends2[m] = 0
  BY <1>3, <1>7, <1>8
<1>11. \A k \in (m + 1)..(n + 1) : ends2[k] = ends2[k - 1] + Len(LineOf(more, k))
  <2>1. ASSUME NEW k \in (m + 1)..n PROVE ends2[k] = ends2[k - 1] + Len(LineOf(more, k))
    <3>1. k \in m..n /\ k - 1 \in m..n
      BY <1>7
    <3>2. QED
      BY <1>3, <1>6, <1>8, <3>1
  <2>2. ASSUME NEW k \in (m + 1)..(n + 1) PROVE ends2[k] = ends2[k - 1] + Len(LineOf(more, k))
    <3>1. k \in (m + 1)..n \/ k = n + 1
      BY <1>1, <1>7
    <3>2. CASE k \in (m + 1)..n
      BY <2>1, <3>2
    <3>3. CASE k = n + 1
      <4>1. k - 1 = n /\ LineOf(more, k) = line /\ ends2[k] = ends2[n + 1]
        BY <1>6, <1>7, <3>3
      <4>2. QED
        BY <1>7, <1>8, <4>1
    <3>4. QED
      BY <3>1, <3>2, <3>3
  <2>3. QED
    BY <2>2
<1>12. \A j, k \in m..(n + 1) : j <= k => ends2[j] <= ends2[k]
  <2>1. \A j \in m..n : ends[j] <= ends[n]
    BY <1>3, <1>7
  <2>2. \A j \in m..n : ends2[j] <= ends2[n + 1]
    BY <1>2, <1>7, <1>8, <2>1
  <2>3. \A j, k \in m..n : j <= k => ends2[j] <= ends2[k]
    BY <1>3, <1>8
  <2>4. ends2[n + 1] <= ends2[n + 1]
    BY <1>2, <1>7, <1>8
  <2>5. \A k \in m..n : ~(n + 1 <= k)
    BY <1>7
  <2>6. QED
    BY <1>9, <2>2, <2>3, <2>4, <2>5
<1>13. Len(longer) = ends2[n + 1] /\ Len(longer) <= ends2[n + 1]
  BY <1>2, <1>3, <1>5, <1>7, <1>8
<1>14. \A k \in m..n : ends2[k] <= Len(longer)
  BY <1>9, <1>12, <1>13, <1>7
<1>15. ASSUME NEW k \in (m + 1)..(n + 1), NEW p \in 1..Len(LineOf(more, k)),
              ends2[k - 1] + p <= Len(longer)
       PROVE  longer[ends2[k - 1] + p] = LineOf(more, k)[p]
  <2>1. CASE k = n + 1
    <3>1. k - 1 = n /\ ends2[k - 1] = Len(stream) /\ LineOf(more, k) = line
      BY <1>3, <1>6, <1>7, <1>8, <2>1
    <3>2. p \in 1..Len(line) /\ Len(stream) \in Nat
      BY <1>3, <1>7, <3>1
    <3>3. /\ Len(stream) + p \in 1..(Len(stream) + Len(line))
          /\ ~(Len(stream) + p <= Len(stream)) /\ Len(stream) + p - Len(stream) = p
      BY <1>2, <3>2
    <3>4. longer[Len(stream) + p] = line[p]
      BY <1>5, <3>3
    <3>5. QED
      BY <3>1, <3>4
  <2>2. CASE k \in (m + 1)..n
    <3>1. k \in m..n /\ k - 1 \in m..n /\ LineOf(more, k) = LineOf(all, k)
      BY <1>6, <1>7, <2>2
    <3>2. ends2[k - 1] = ends[k - 1] /\ ends[k - 1] \in Nat /\ ends[k] \in Nat
          /\ ends[k] = ends[k - 1] + Len(LineOf(all, k)) /\ ends[k] <= ends[n]
      BY <1>3, <1>7, <1>8, <2>2, <3>1
    <3>3. Len(LineOf(all, k)) \in Nat
      <4>1. k \in 1..Len(all)
        BY <1>7, <2>2 DEF n
      <4>2. QED
        BY <4>1, LinesOf DEF IsLine
    <3>4. p \in 1..Len(LineOf(all, k)) /\ ends[k - 1] + p <= Len(stream)
          /\ ends[k - 1] + p \in 1..(Len(stream) + Len(line))
      BY <1>2, <1>3, <1>7, <3>1, <3>2, <3>3
    <3>5. stream[ends[k - 1] + p] = LineOf(all, k)[p]
      BY <1>4, <2>2, <3>4
    <3>6. longer[ends[k - 1] + p] = stream[ends[k - 1] + p]
      BY <1>5, <3>4
    <3>7. QED
      BY <3>1, <3>2, <3>5, <3>6
  <2>3. k = n + 1 \/ k \in (m + 1)..n
    BY <1>7
  <2>4. QED
    BY <2>1, <2>2, <2>3
<1>16. Waits(more, longer, m, ends2, writer2)
  <2> DEFINE len == Len(more)
  <2>1. len = n + 1 /\ len - 1 = n
    BY <1>1
  <2> HIDE DEF len
  <2>2. /\ ends2 \in [m..len -> Nat] /\ ends2[m] = 0
        /\ \A k \in (m + 1)..len : ends2[k] = ends2[k - 1] + Len(LineOf(more, k))
        /\ \A j, k \in m..len : j <= k => ends2[j] <= ends2[k]
    BY <1>8, <1>10, <1>11, <1>12, <2>1
  <2>3. /\ longer \in Seq(Tokens) /\ Len(longer) <= ends2[len] /\ Len(longer) = ends2[len]
        /\ \A k \in m..(len - 1) : ends2[k] <= Len(longer)
    BY <1>5, <1>13, <1>14, <2>1
  <2>4. \A k \in (m + 1)..len : \A p \in 1..Len(LineOf(more, k)) :
          ends2[k - 1] + p <= Len(longer) => longer[ends2[k - 1] + p] = LineOf(more, k)[p]
    BY <1>15, <2>1
  <2>5. QED
    BY <2>2, <2>3, <2>4 DEF Waits, len
<1>17. ends2 \in [m..Len(more) -> Nat]
  BY <1>1, <1>8
<1>18. QED
  BY <1>16, <1>17 DEF more, longer, line

LEMMA DirectionAppends ==
    ASSUME NEW all \in Seq(Sent), NEW got, NEW stream, NEW writer, NEW reader,
           Direction(all, got, stream, writer, reader), writer # "gone",
           NEW frame \in Sent, NEW stream2, NEW writer2, NEW reader2,
           reader = "gone" => reader2 = "gone",
           reader2 = "gone" \/ stream2 = stream \o EncodeFrame(frame)
    PROVE  Direction(Append(all, frame), got, stream2, writer2, reader2)
<1> DEFINE more == Append(all, frame)
<1>1. PICK m \in 0..Len(all) : \E at \in [1..Len(got) -> 1..m] :
        /\ Reads(all, got, m, at, writer)
        /\ reader # "gone" => \E ends \in [m..Len(all) -> Nat] : Waits(all, stream, m, ends, writer)
  BY DEF Direction
<1>2. PICK at \in [1..Len(got) -> 1..m] :
        /\ Reads(all, got, m, at, writer)
        /\ reader # "gone" => \E ends \in [m..Len(all) -> Nat] : Waits(all, stream, m, ends, writer)
  BY <1>1
<1>3. Reads(more, got, m, at, writer2)
  BY <1>2, ReadsAppend
<1>4. m \in 0..Len(more)
  BY <1>3 DEF Reads
<1>5. ASSUME reader2 # "gone"
      PROVE  \E ends \in [m..Len(more) -> Nat] : Waits(more, stream2, m, ends, writer2)
  <2>1. stream2 = stream \o EncodeFrame(frame)
    BY <1>5
  <2>2. PICK ends \in [m..Len(all) -> Nat] : Waits(all, stream, m, ends, writer)
    BY <1>2, <1>5
  <2>3. \E ends2 \in [m..Len(more) -> Nat] :
           Waits(more, stream \o EncodeFrame(frame), m, ends2, writer2)
    BY <2>2, WaitsAppend
  <2>4. QED
    BY <2>1, <2>3
<1> HIDE DEF more
<1>6. Direction(more, got, stream2, writer2, reader2)
  BY <1>3, <1>4, <1>5 DEF Direction
<1>7. QED
  BY <1>6 DEF more

(* The writer goes, and a part of its last line is not written.             *)
LEMMA CutsTyped ==
    ASSUME NEW stream \in Seq(Tokens), NEW cut \in Cuts(stream)
    PROVE  /\ cut \in Seq(Tokens)
           /\ \E n \in 0..Len(stream) :
                 /\ Len(cut) = n /\ \A p \in 1..n : cut[p] = stream[p]
                 /\ \A p \in (n + 1)..(Len(stream) - 1) : stream[p] # Newline
<1>1. PICK n \in 0..Len(stream) :
         /\ cut = SubSeq(stream, 1, n)
         /\ \A p \in (n + 1)..(Len(stream) - 1) : stream[p] # Newline
  BY DEF Cuts
<1>2. Len(stream) \in Nat /\ \A p \in 1..Len(stream) : stream[p] \in Tokens
  BY LenProperties, ElementOfSeq
<1>3. \A p \in 1..n : stream[p] \in Tokens
  BY <1>2
<1>4. cut \in Seq(Tokens) /\ Len(cut) = n /\ \A p \in 1..n : cut[p] = stream[p]
  BY <1>1, <1>2, <1>3, SubSeqProperties
<1>5. QED
  BY <1>1, <1>4

(* Of two lines, the first ends before the last place of a stream.          *)
LEMMA TwoLines ==
    ASSUME NEW a \in Nat, NEW b \in Nat, NEW c \in Nat, NEW l \in Nat, NEW x \in Nat,
           l >= 1, x >= 1, b = a + l, c = b + x, NEW e \in Nat, c <= e
    PROVE  a + l <= e /\ l \in 1..l /\ b <= e - 1
  OBVIOUS

LEMMA WaitsCut ==
    ASSUME NEW all \in Seq(Sent), NEW stream, NEW m \in 0..Len(all), NEW ends, NEW writer,
           writer # "gone", Waits(all, stream, m, ends, writer), NEW cut \in Cuts(stream)
    PROVE  Waits(all, cut, m, ends, "gone")
<1> DEFINE n == Len(all)
<1>1. /\ ends \in [m..n -> Nat] /\ ends[m] = 0 /\ stream \in Seq(Tokens) /\ Len(stream) = ends[n]
      /\ \A k \in (m + 1)..n : ends[k] = ends[k - 1] + Len(LineOf(all, k))
      /\ \A j, k \in m..n : j <= k => ends[j] <= ends[k]
  BY DEF Waits
<1>2. \A k \in (m + 1)..n : \A p \in 1..Len(LineOf(all, k)) :
          ends[k - 1] + p <= Len(stream) => stream[ends[k - 1] + p] = LineOf(all, k)[p]
  BY DEF Waits
<1>3. n \in Nat /\ m \in Nat /\ m <= n /\ n \in m..n
  BY LenProperties
<1>4. \A k \in (m + 1)..n : IsLine(LineOf(all, k))
  <2>1. \A k \in (m + 1)..n : k \in 1..n
    BY <1>3
  <2>2. QED
    BY <2>1, LinesOf
<1>5. cut \in Seq(Tokens)
  BY <1>1, CutsTyped
<1>6. PICK q \in 0..Len(stream) :
         /\ Len(cut) = q /\ \A p \in 1..q : cut[p] = stream[p]
         /\ \A p \in (q + 1)..(Len(stream) - 1) : stream[p] # Newline
  BY <1>1, CutsTyped
<1> HIDE DEF n
<1>7. ends[n] \in Nat /\ Len(stream) \in Nat /\ q \in Nat /\ q <= ends[n]
  BY <1>1, <1>3, <1>6
<1>8. ASSUME NEW k \in m..(n - 1) PROVE ends[k] <= q
  <2>1. CASE k = m
    BY <1>1, <1>7, <2>1
  <2>2. CASE k # m
    <3>1. k \in (m + 1)..n /\ k + 1 \in (m + 1)..n /\ k \in m..n /\ k - 1 \in m..n
          /\ k + 1 \in m..n /\ k + 1 - 1 = k
      BY <1>3, <2>2
    <3> DEFINE line == LineOf(all, k)
               next == LineOf(all, k + 1)
    <3>2. Len(line) \in Nat /\ Len(line) >= 1 /\ line[Len(line)] = Newline
          /\ Len(next) \in Nat /\ Len(next) >= 1
      BY <1>4, <3>1 DEF IsLine
    <3>3. /\ ends[k] \in Nat /\ ends[k - 1] \in Nat /\ ends[k + 1] \in Nat
          /\ ends[k] = ends[k - 1] + Len(line) /\ ends[k + 1] = ends[k] + Len(next)
          /\ ends[k + 1] <= ends[n]
      BY <1>1, <1>3, <3>1
    <3>4. /\ ends[k - 1] + Len(line) <= Len(stream) /\ Len(line) \in 1..Len(line)
          /\ ends[k] <= Len(stream) - 1
      <4> HIDE DEF line, next
      <4>1. Len(stream) = ends[n]
        BY <1>1
      <4>2. /\ ends[k - 1] + Len(line) <= ends[n] /\ Len(line) \in 1..Len(line)
            /\ ends[k] <= ends[n] - 1
        BY <1>7, <3>2, <3>3, TwoLines, Zenon
      <4>3. QED
        BY <4>1, <4>2
    <3>5. stream[ends[k]] = Newline
      BY <1>2, <3>1, <3>2, <3>3, <3>4
    <3>6. ~(ends[k] \in (q + 1)..(Len(stream) - 1))
      BY <1>6, <3>5
    <3>7. QED
      <4> DEFINE e == ends[k]
                 len == Len(stream)
      <4>1. /\ e \in Nat /\ len \in Nat /\ q \in Nat /\ e <= len - 1
            /\ ~(e \in (q + 1)..(len - 1))
        BY <1>7, <3>3, <3>4, <3>6
      <4> HIDE DEF e, len
      <4>2. e <= q
        BY <4>1
      <4>3. QED
        BY <4>2 DEF e
  <2>3. QED
    BY <2>1, <2>2
<1>9. ASSUME NEW k \in (m + 1)..n, NEW p \in 1..Len(LineOf(all, k)), ends[k - 1] + p <= Len(cut)
      PROVE  cut[ends[k - 1] + p] = LineOf(all, k)[p]
  <2>1. k - 1 \in m..n
    BY <1>3
  <2>2. Len(LineOf(all, k)) \in Nat /\ ends[k - 1] \in Nat
    BY <1>1, <1>4, <2>1 DEF IsLine
  <2>3. ends[k - 1] + p \in 1..q /\ ends[k - 1] + p <= Len(stream)
    BY <1>1, <1>6, <1>7, <1>9, <2>2
  <2>4. QED
    BY <1>2, <1>6, <2>3
<1>10. Len(cut) <= ends[n] /\ \A k \in m..(n - 1) : ends[k] <= Len(cut)
  BY <1>6, <1>7, <1>8
<1>11. QED
  BY <1>1, <1>5, <1>9, <1>10 DEF Waits, n

LEMMA DirectionCut ==
    ASSUME NEW all \in Seq(Sent), NEW got, NEW stream, NEW writer, NEW reader,
           Direction(all, got, stream, writer, reader), writer # "gone",
           NEW cut \in Cuts(stream)
    PROVE  Direction(all, got, cut, "gone", reader)
<1>1. PICK m \in 0..Len(all) : \E at \in [1..Len(got) -> 1..m] :
        /\ Reads(all, got, m, at, writer)
        /\ reader # "gone" => \E ends \in [m..Len(all) -> Nat] : Waits(all, stream, m, ends, writer)
  BY DEF Direction
<1>2. PICK at \in [1..Len(got) -> 1..m] :
        /\ Reads(all, got, m, at, writer)
        /\ reader # "gone" => \E ends \in [m..Len(all) -> Nat] : Waits(all, stream, m, ends, writer)
  BY <1>1
<1>3. Reads(all, got, m, at, "gone")
  BY <1>2 DEF Reads
<1>4. ASSUME reader # "gone"
      PROVE  \E ends \in [m..Len(all) -> Nat] : Waits(all, cut, m, ends, "gone")
  <2>1. PICK ends \in [m..Len(all) -> Nat] : Waits(all, stream, m, ends, writer)
    BY <1>2, <1>4
  <2>2. Waits(all, cut, m, ends, "gone")
    BY <2>1, WaitsCut
  <2>3. QED
    BY <2>2
<1>5. QED
  BY <1>3, <1>4 DEF Direction

(* A frame is read: it is not sendable, or it is heard.                     *)
LEMMA ReadsSkip ==
    ASSUME NEW all \in Seq(Sent), NEW got, NEW m, NEW at, NEW writer,
           Reads(all, got, m, at, writer), m < Len(all), ~Sendable(all[m + 1])
    PROVE  Reads(all, got, m + 1, at, writer)
<1>1. Len(all) \in Nat /\ m \in 0..Len(all) /\ at \in [1..Len(got) -> 1..m]
  BY LenProperties DEF Reads
<1>2. m + 1 \in 0..Len(all) /\ at \in [1..Len(got) -> 1..(m + 1)]
  BY <1>1
<1>3. \A k \in 1..(m + 1) : k \in 1..m \/ k = m + 1
  BY <1>1
<1>4. QED
  BY <1>2, <1>3 DEF Reads

LEMMA ReadsMore ==
    ASSUME NEW all \in Seq(Sent), NEW S, NEW got \in Seq(S), NEW m, NEW at, NEW writer,
           Reads(all, got, m, at, writer), m < Len(all), Sendable(all[m + 1]),
           NEW frame \in S, SameButLast(frame, Carried(all[m + 1])),
           frame = Carried(all[m + 1]) \/ (writer = "gone" /\ m + 1 = Len(all))
    PROVE  \E at2 \in [1..Len(Append(got, frame)) -> 1..(m + 1)] :
              Reads(all, Append(got, frame), m + 1, at2, writer)
<1> DEFINE n == Len(got)
           more == Append(got, frame)
<1>1. Len(more) = n + 1 /\ n \in Nat /\ more[n + 1] = frame /\ \A i \in 1..n : more[i] = got[i]
  BY AppendProperties, LenProperties
<1>2. Len(all) \in Nat /\ m \in 0..Len(all) /\ at \in [1..n -> 1..m]
  BY LenProperties DEF Reads
<1>3. /\ \A i, j \in 1..n : i < j => at[i] < at[j]
      /\ \A i \in 1..n : Sendable(all[at[i]])
      /\ \A k \in 1..m : Sendable(all[k]) => \E j \in 1..n : at[j] = k
      /\ \A i \in 1..n :
          /\ SameButLast(got[i], Carried(all[at[i]]))
          /\ got[i] = Carried(all[at[i]]) \/ (writer = "gone" /\ at[i] = Len(all))
  BY DEF Reads
<1> DEFINE at2 == [i \in 1..(n + 1) |-> IF i <= n THEN at[i] ELSE m + 1]
<1> HIDE DEF n, more
<1>4. \A i \in 1..(n + 1) : i \in 1..n \/ i = n + 1
  BY <1>1
<1>5. /\ at2 \in [1..(n + 1) -> 1..(m + 1)] /\ at2[n + 1] = m + 1
      /\ \A i \in 1..n : i \in 1..(n + 1) /\ at2[i] = at[i] /\ at[i] \in 1..m
  BY <1>1, <1>2
<1> HIDE DEF at2
<1>6. m + 1 \in 0..Len(all)
  BY <1>2
<1>7. \A i, j \in 1..(n + 1) : i < j => at2[i] < at2[j]
  <2>1. \A i, j \in 1..n : i < j => at2[i] < at2[j]
    BY <1>3, <1>5
  <2>2. \A i \in 1..n : at2[i] < at2[n + 1]
    BY <1>2, <1>5
  <2>3. \A j \in 1..(n + 1) : ~(n + 1 < j)
    BY <1>1
  <2>4. QED
    BY <1>4, <2>1, <2>2, <2>3
<1>8. \A i \in 1..(n + 1) : Sendable(all[at2[i]])
  BY <1>3, <1>4, <1>5
<1>9. \A k \in 1..(m + 1) : Sendable(all[k]) => \E j \in 1..(n + 1) : at2[j] = k
  <2>1. ASSUME NEW k \in 1..m, Sendable(all[k]) PROVE \E j \in 1..(n + 1) : at2[j] = k
    BY <1>3, <1>5, <2>1
  <2>2. n + 1 \in 1..(n + 1)
    BY <1>1
  <2>3. \A k \in 1..(m + 1) : k \in 1..m \/ k = m + 1
    BY <1>2
  <2>4. QED
    BY <1>5, <2>1, <2>2, <2>3
<1>10. \A i \in 1..(n + 1) :
          /\ SameButLast(more[i], Carried(all[at2[i]]))
          /\ more[i] = Carried(all[at2[i]]) \/ (writer = "gone" /\ at2[i] = Len(all))
  <2>1. \A i \in 1..n :
          /\ SameButLast(more[i], Carried(all[at2[i]]))
          /\ more[i] = Carried(all[at2[i]]) \/ (writer = "gone" /\ at2[i] = Len(all))
    BY <1>1, <1>3, <1>5
  <2>2. /\ SameButLast(more[n + 1], Carried(all[at2[n + 1]]))
        /\ more[n + 1] = Carried(all[at2[n + 1]]) \/ (writer = "gone" /\ at2[n + 1] = Len(all))
    BY <1>1, <1>5
  <2>3. QED
    BY <1>4, <2>1, <2>2
<1>11. Reads(all, more, m + 1, at2, writer)
  BY <1>1, <1>5, <1>6, <1>7, <1>8, <1>9, <1>10 DEF Reads
<1>12. at2 \in [1..Len(more) -> 1..(m + 1)]
  BY <1>1, <1>5
<1>13. QED
  BY <1>11, <1>12 DEF more

(* Where the next line of a stream ends.                                    *)
LEMMA FirstLine ==
    ASSUME NEW stream \in Seq(Tokens), NEW n \in 1..Len(stream), stream[n] = Newline,
           \A p \in 1..(n - 1) : stream[p] # Newline
    PROVE  LineEnd(stream) = n
<1> DEFINE T == {i \in DOMAIN stream : stream[i] = Newline}
<1>1. Len(stream) \in Nat /\ DOMAIN stream = 1..Len(stream)
  BY LenProperties
<1>2. n \in T /\ \A y \in T : n <= y
  BY <1>1
<1>3. T \subseteq Nat /\ T # {}
  BY <1>1, <1>2
<1>4. LineEnd(stream) = Min(T)
  BY <1>3 DEF LineEnd
<1> HIDE DEF T
<1>5. \A x \in T : (\A y \in T : x <= y) => x = n
  BY <1>2, <1>3
<1>6. Min(T) = n
  BY <1>2, <1>5 DEF Min
<1>7. QED
  BY <1>4, <1>6

LEMMA LastLine ==
    ASSUME NEW stream \in Seq(Tokens), \A p \in 1..Len(stream) : stream[p] # Newline
    PROVE  /\ ~HasLine(stream)
           /\ NextLine(stream) = stream /\ Rest(stream) = <<>>
<1>1. Len(stream) \in Nat /\ DOMAIN stream = 1..Len(stream)
  BY LenProperties
<1>2. ~HasLine(stream)
  BY <1>1 DEF HasLine
<1>3. LineEnd(stream) = Len(stream)
  BY <1>1 DEF LineEnd
<1>4. NextLine(stream) = stream
  BY <1>3, SubSeqFull DEF NextLine
<1>5. Rest(stream) = <<>>
  <2> DEFINE n == Len(stream)
  <2>1. n + 1 \in Int /\ n \in Int /\ n < n + 1
    BY <1>1
  <2>2. Rest(stream) = SubSeq(stream, n + 1, n)
    BY <1>3 DEF Rest
  <2> HIDE DEF n
  <2>3. QED
    BY <2>1, <2>2, SubSeqEmpty
<1>6. QED
  BY <1>2, <1>4, <1>5

(* The rest of the stream, when a whole line has been read.                 *)
LEMMA WaitsRest ==
    ASSUME NEW all \in Seq(Sent), NEW stream, NEW m \in 0..Len(all), NEW ends, NEW writer,
           Waits(all, stream, m, ends, writer), m < Len(all),
           ends[m + 1] <= Len(stream)
    PROVE  /\ NextLine(stream) = LineOf(all, m + 1)
           /\ \E ends2 \in [(m + 1)..Len(all) -> Nat] :
                 Waits(all, Rest(stream), m + 1, ends2, writer)
<1> DEFINE n == Len(all)
           line == LineOf(all, m + 1)
           size == Len(line)
           len == Len(stream)
           rest == Rest(stream)
<1>1. n \in Nat /\ m \in Nat /\ m < n
  BY LenProperties
<1>2. line \in Seq(Tokens) /\ size \in Nat /\ size >= 1
      /\ line[size] = Newline /\ \A p \in 1..(size - 1) : line[p] # Newline
  <2>1. m + 1 \in 1..Len(all)
    BY <1>1
  <2>2. QED
    BY <2>1, LinesOf DEF IsLine
<1>3. /\ ends \in [m..n -> Nat] /\ ends[m] = 0 /\ stream \in Seq(Tokens) /\ len <= ends[n]
      /\ writer # "gone" => len = ends[n]
      /\ \A k \in (m + 1)..n : ends[k] = ends[k - 1] + Len(LineOf(all, k))
      /\ \A j, k \in m..n : j <= k => ends[j] <= ends[k]
      /\ \A k \in m..(n - 1) : ends[k] <= len
  BY DEF Waits
<1>4. \A k \in (m + 1)..n : \A p \in 1..Len(LineOf(all, k)) :
          ends[k - 1] + p <= len => stream[ends[k - 1] + p] = LineOf(all, k)[p]
  BY DEF Waits
<1>5. len \in Nat /\ \A p \in 1..len : stream[p] \in Tokens
  BY <1>3, LenProperties, ElementOfSeq
<1> HIDE DEF n, size, len, line, rest
<1>6. ends[m + 1] = size /\ size <= len
  <2>1. m + 1 \in (m + 1)..n /\ m + 1 - 1 = m
    BY <1>1
  <2>2. ends[m + 1] = 0 + size
    BY <1>3, <2>1 DEF size, line
  <2>3. ends[m + 1] <= len
    BY DEF len
  <2>4. QED
    BY <1>2, <2>2, <2>3
<1>7. \A p \in 1..size : stream[p] = line[p]
  <2>1. m + 1 \in (m + 1)..n /\ m + 1 - 1 = m
    BY <1>1
  <2>2. ASSUME NEW p \in 1..size PROVE stream[p] = line[p]
    <3>1. ends[m + 1 - 1] + p = p /\ p <= len /\ p \in 1..Len(LineOf(all, m + 1))
      BY <1>2, <1>3, <1>5, <1>6, <2>1 DEF size, line
    <3>2. QED
      BY <1>4, <2>1, <3>1 DEF line
  <2>3. QED
    BY <2>2
<1>8. LineEnd(stream) = size
  <2>1. size \in 1..Len(stream)
    BY <1>2, <1>5, <1>6 DEF len
  <2>2. stream[size] = Newline /\ \A p \in 1..(size - 1) : stream[p] # Newline
    BY <1>2, <1>7
  <2>3. QED
    BY <1>3, <2>1, <2>2, FirstLine
<1>9. NextLine(stream) = line
  <2> DEFINE next == SubSeq(stream, 1, size)
  <2>1. \A p \in 1..size : stream[p] \in Tokens
    BY <1>2, <1>5, <1>6
  <2>2. next \in Seq(Tokens) /\ Len(next) = size /\ \A p \in 1..size : next[p] = stream[p]
    BY <1>2, <2>1, SubSeqProperties
  <2>3. NextLine(stream) = next
    BY <1>8 DEF NextLine
  <2> HIDE DEF next
  <2>4. next = line
    BY <1>2, <1>7, <2>2, SeqEqual DEF size
  <2>5. QED
    BY <2>3, <2>4
<1>10. /\ rest \in Seq(Tokens) /\ Len(rest) = len - size
       /\ \A p \in 1..(len - size) : rest[p] = stream[size + p]
  <2>1. \A p \in (size + 1)..len : stream[p] \in Tokens
    BY <1>2, <1>5
  <2>2. rest = SubSeq(stream, size + 1, len)
    BY <1>8 DEF rest, Rest, len
  <2>3. /\ SubSeq(stream, size + 1, len) \in Seq(Tokens)
        /\ Len(SubSeq(stream, size + 1, len))
              = IF size + 1 <= len THEN len - (size + 1) + 1 ELSE 0
        /\ \A p \in 1..(len - (size + 1) + 1) :
              SubSeq(stream, size + 1, len)[p] = stream[size + 1 + p - 1]
    BY <1>2, <1>5, <2>1, SubSeqProperties
  <2>4. len - (size + 1) + 1 = len - size /\ \A p \in Int : size + 1 + p - 1 = size + p
    BY <1>2, <1>5
  <2>5. QED
    BY <1>2, <1>5, <1>6, <2>2, <2>3, <2>4
<1> DEFINE ends2 == [k \in (m + 1)..n |-> ends[k] - size]
<1>11. \A k \in (m + 1)..n : k \in m..n /\ m + 1 \in m..n /\ ends[k] \in Nat /\ size <= ends[k]
  BY <1>1, <1>3, <1>6
<1>12. /\ ends2 \in [(m + 1)..n -> Nat] /\ ends2[m + 1] = 0
       /\ \A k \in (m + 1)..n : ends2[k] = ends[k] - size
  <2>1. m + 1 \in (m + 1)..n
    BY <1>1
  <2>2. \A k \in (m + 1)..n : ends[k] - size \in Nat
    BY <1>2, <1>11
  <2>3. QED
    BY <1>2, <1>6, <2>1, <2>2
<1> HIDE DEF ends2
<1>13. \A k \in (m + 2)..n : /\ k \in (m + 1)..n /\ k - 1 \in (m + 1)..n
                              /\ k - 1 \in m..n
                              /\ ends2[k] = ends2[k - 1] + Len(LineOf(all, k))
  <2>1. ASSUME NEW k \in (m + 2)..n PROVE ends2[k] = ends2[k - 1] + Len(LineOf(all, k))
    <3>1. k \in (m + 1)..n /\ k - 1 \in (m + 1)..n /\ k \in 1..Len(all)
      BY <1>1 DEF n
    <3> DEFINE l == Len(LineOf(all, k))
    <3>2. l \in Nat
      BY <3>1, LinesOf DEF IsLine
    <3> HIDE DEF l
    <3>3. ends[k] = ends[k - 1] + l /\ ends[k] \in Nat /\ ends[k - 1] \in Nat
      BY <1>3, <1>11, <3>1 DEF l
    <3>4. ends2[k] = ends[k] - size /\ ends2[k - 1] = ends[k - 1] - size
      BY <1>12, <3>1
    <3>5. ends2[k] = ends2[k - 1] + l
      BY <1>2, <3>2, <3>3, <3>4
    <3>6. QED
      BY <3>5 DEF l
  <2>2. \A k \in (m + 2)..n : k \in (m + 1)..n /\ k - 1 \in (m + 1)..n /\ k - 1 \in m..n
    BY <1>1
  <2>3. QED
    BY <2>1, <2>2
<1>14. \A j, k \in (m + 1)..n : j <= k => ends2[j] <= ends2[k]
  BY <1>2, <1>3, <1>11, <1>12
<1>15. n \in (m + 1)..n /\ ends[n] \in Nat /\ ends2[n] = ends[n] - size
  BY <1>1, <1>11, <1>12
<1>16. Len(rest) <= ends2[n] /\ (writer # "gone" => Len(rest) = ends2[n])
  BY <1>2, <1>3, <1>5, <1>10, <1>15
<1>17. \A k \in (m + 1)..(n - 1) : ends2[k] <= Len(rest)
  <2>1. \A k \in (m + 1)..(n - 1) : k \in m..(n - 1) /\ k \in (m + 1)..n
    BY <1>1
  <2>2. QED
    BY <1>2, <1>3, <1>5, <1>10, <1>11, <1>12, <2>1
<1>18. ASSUME NEW k \in (m + 2)..n, NEW p \in 1..Len(LineOf(all, k)),
              ends2[k - 1] + p <= Len(rest)
       PROVE  rest[ends2[k - 1] + p] = LineOf(all, k)[p]
  <2>1. k \in (m + 1)..n /\ k - 1 \in (m + 1)..n /\ k \in 1..Len(all)
    BY <1>1 DEF n
  <2>2. p \in Nat /\ 1 <= p
    <3>1. Len(LineOf(all, k)) \in Nat
      BY <2>1, LinesOf DEF IsLine
    <3>2. QED
      BY <3>1
  <2>3. ends[k - 1] \in Nat /\ ends2[k - 1] = ends[k - 1] - size /\ size <= ends[k - 1]
    BY <1>11, <1>12, <2>1
  <2>4. ends2[k - 1] + p \in 1..(len - size) /\ size + (ends2[k - 1] + p) = ends[k - 1] + p
        /\ ends[k - 1] + p <= len
    <3> DEFINE before == ends[k - 1]
               after == ends2[k - 1]
    <3>1. before \in Nat /\ after = before - size /\ size <= before /\ after + p <= len - size
      BY <1>10, <1>18, <2>3
    <3> HIDE DEF before, after
    <3>2. /\ after + p \in 1..(len - size) /\ size + (after + p) = before + p
          /\ before + p <= len
      BY <1>2, <1>5, <2>2, <3>1
    <3>3. QED
      BY <3>2 DEF before, after
  <2>5. rest[ends2[k - 1] + p] = stream[ends[k - 1] + p]
    BY <1>10, <2>4
  <2>6. stream[ends[k - 1] + p] = LineOf(all, k)[p]
    BY <1>4, <2>1, <2>4
  <2>7. QED
    BY <2>5, <2>6
<1>19. Waits(all, rest, m + 1, ends2, writer)
  <2>1. m + 1 + 1 = m + 2
    BY <1>1
  <2>2. QED
    BY <1>10, <1>12, <1>13, <1>14, <1>16, <1>17, <1>18, <2>1 DEF Waits, n
<1>20. QED
  BY <1>9, <1>12, <1>19 DEF rest, line, n

LEMMA NextLineTyped ==
    ASSUME NEW stream \in Seq(Tokens)
    PROVE  NextLine(stream) \in Seq(Tokens) /\ Rest(stream) \in Seq(Tokens)
<1> DEFINE T == {i \in DOMAIN stream : stream[i] = Newline}
<1>1. Len(stream) \in Nat /\ DOMAIN stream = 1..Len(stream)
      /\ \A p \in 1..Len(stream) : stream[p] \in Tokens
  BY LenProperties, ElementOfSeq
<1>2. T \subseteq Nat /\ T \subseteq 1..Len(stream)
  BY <1>1
<1>3. LineEnd(stream) = IF T = {} THEN Len(stream) ELSE Min(T)
  BY DEF LineEnd
<1> HIDE DEF T
<1>4. T # {} => Min(T) \in T
  <2>1. ASSUME T # {} PROVE \E x \in T : \A y \in T : x <= y
    BY <1>2, <2>1, Least
  <2>2. QED
    BY <2>1 DEF Min
<1> DEFINE n == LineEnd(stream)
<1>5. n \in 0..Len(stream)
  <2>1. CASE T = {}
    BY <1>1, <1>3, <2>1
  <2>2. CASE T # {}
    <3>1. n = Min(T) /\ Min(T) \in 1..Len(stream)
      BY <1>2, <1>3, <1>4, <2>2
    <3> HIDE DEF n
    <3>2. QED
      BY <1>1, <3>1
  <2>3. QED
    BY <2>1, <2>2
<1>6. NextLine(stream) = SubSeq(stream, 1, n) /\ Rest(stream) = SubSeq(stream, n + 1, Len(stream))
  BY DEF NextLine, Rest
<1> HIDE DEF n
<1>7. /\ \A p \in 1..n : stream[p] \in Tokens
      /\ \A p \in (n + 1)..Len(stream) : stream[p] \in Tokens
      /\ n \in Int /\ n + 1 \in Int /\ Len(stream) \in Int
  BY <1>1, <1>5
<1>8. SubSeq(stream, 1, n) \in Seq(Tokens)
  BY <1>7, SubSeqProperties
<1>9. SubSeq(stream, n + 1, Len(stream)) \in Seq(Tokens)
  BY <1>7, SubSeqProperties
<1>10. QED
  BY <1>6, <1>8, <1>9

LEMMA CarriedFacts ==
    ASSUME NEW frame, IsFrame(frame)
    PROVE  /\ Carried(frame) # NoFrame /\ Carried(frame).kind = frame.kind
           /\ SameButLast(Carried(frame), Carried(frame))
<1>1. Carried(frame).kind = frame.kind
  BY DEF Carried
<1>2. frame.kind \in Kinds
  BY DEF IsFrame
<1>3. NoFrame.kind = "none" /\ "none" \notin Kinds
  BY KindsAre DEF NoFrame
<1>4. SameButLast(Carried(frame), Carried(frame))
  BY DEF SameButLast
<1>5. QED
  BY <1>1, <1>2, <1>3, <1>4

LEMMA DirectionReads ==
    ASSUME NEW all \in Seq(Sent), NEW kinds, kinds \subseteq Kinds,
           \A k \in 1..Len(all) : all[k].kind \in kinds,
           NEW got \in Seq(Heard(kinds)), NEW stream, NEW writer, NEW reader, reader # "gone",
           Direction(all, got, stream, writer, reader), CanRead(stream, writer),
           NEW frame, frame = Parse(NextLine(stream), kinds),
           NEW got2, got2 = IF frame = NoFrame THEN got ELSE Append(got, frame)
    PROVE  Direction(all, got2, Rest(stream), writer, reader)
<1>1. PICK m \in 0..Len(all) : \E at \in [1..Len(got) -> 1..m] :
        /\ Reads(all, got, m, at, writer)
        /\ reader # "gone" => \E ends \in [m..Len(all) -> Nat] : Waits(all, stream, m, ends, writer)
  BY DEF Direction
<1>2. PICK at \in [1..Len(got) -> 1..m] :
        /\ Reads(all, got, m, at, writer)
        /\ reader # "gone" => \E ends \in [m..Len(all) -> Nat] : Waits(all, stream, m, ends, writer)
  BY <1>1
<1>3. PICK ends \in [m..Len(all) -> Nat] : Waits(all, stream, m, ends, writer)
  BY <1>2
<1>4. /\ ends[m] = 0 /\ stream \in Seq(Tokens) /\ Len(stream) <= ends[Len(all)]
      /\ writer # "gone" => Len(stream) = ends[Len(all)]
      /\ \A k \in (m + 1)..Len(all) : ends[k] = ends[k - 1] + Len(LineOf(all, k))
      /\ \A k \in m..(Len(all) - 1) : ends[k] <= Len(stream)
  BY <1>3 DEF Waits
<1>5. Len(all) \in Nat /\ Len(stream) \in Nat
  BY <1>4, LenProperties
<1>6. stream # <<>>
  BY <1>4 DEF CanRead, HasLine
<1>7. m < Len(all)
  <2>1. Len(stream) # 0
    BY <1>4, <1>6, EmptySeq
  <2>2. QED
    BY <1>4, <1>5, <2>1
<1>8. m + 1 \in 1..Len(all)
  BY <1>5, <1>7
<1> DEFINE sent1 == all[m + 1]
           line == LineOf(all, m + 1)
<1>9. IsFrame(sent1) /\ sent1.kind \in kinds /\ IsLine(line) /\ line = EncodeFrame(sent1)
  BY <1>8, LinesOf DEF LineOf
<1>10. ends[m + 1] = Len(line) /\ Len(line) \in Nat /\ ends[m + 1] \in Nat
  <2>1. m + 1 \in (m + 1)..Len(all) /\ m + 1 - 1 = m
    BY <1>8
  <2>2. Len(line) \in Nat
    BY <1>9 DEF IsLine
  <2> HIDE DEF line
  <2>3. ends[m + 1] = 0 + Len(line)
    BY <1>4, <2>1 DEF line
  <2>4. QED
    BY <2>2, <2>3
<1>11. frame # NoFrame => frame \in Heard(kinds)
  <2>1. NextLine(stream) \in Seq(Tokens)
    BY <1>4, NextLineTyped
  <2>2. QED
    BY <2>1 DEF Heard
<1>12. CASE ends[m + 1] <= Len(stream)
  <2>1. /\ NextLine(stream) = line
        /\ \E ends2 \in [(m + 1)..Len(all) -> Nat] : Waits(all, Rest(stream), m + 1, ends2, writer)
    BY <1>3, <1>7, <1>12, WaitsRest
  <2>2. frame = IF Sendable(sent1) THEN Carried(sent1) ELSE NoFrame
    <3> HIDE DEF sent1, line
    <3>1. Parse(EncodeFrame(sent1), kinds) = IF Sendable(sent1) THEN Carried(sent1) ELSE NoFrame
      BY <1>9, ParseLine
    <3>2. QED
      BY <1>9, <2>1, <3>1
  <2>3. m + 1 \in 0..Len(all)
    BY <1>8
  <2>4. CASE ~Sendable(sent1)
    <3>1. got2 = got
      BY <2>2, <2>4
    <3>2. Reads(all, got, m + 1, at, writer)
      BY <1>2, <1>7, <2>4, ReadsSkip
    <3>3. at \in [1..Len(got) -> 1..(m + 1)]
      BY <3>2 DEF Reads
    <3>4. QED
      BY <2>1, <2>3, <3>1, <3>2, <3>3 DEF Direction
  <2>5. CASE Sendable(sent1)
    <3>1. frame = Carried(sent1) /\ frame # NoFrame /\ SameButLast(frame, Carried(sent1))
      BY <1>9, <2>2, <2>5, CarriedFacts
    <3>2. got2 = Append(got, frame) /\ frame \in Heard(kinds)
      BY <1>11, <3>1
    <3>3. \E at2 \in [1..Len(Append(got, frame)) -> 1..(m + 1)] :
              Reads(all, Append(got, frame), m + 1, at2, writer)
      BY <1>2, <1>7, <2>5, <3>1, <3>2, ReadsMore
    <3>4. QED
      BY <2>1, <2>3, <3>2, <3>3 DEF Direction
  <2>6. QED
    BY <2>4, <2>5
<1>13. CASE ~(ends[m + 1] <= Len(stream))
  <2>1. m + 1 = Len(all) /\ Len(all) - 1 = m
    <3>1. ~(m + 1 \in m..(Len(all) - 1))
      BY <1>4, <1>13
    <3>2. QED
      BY <1>5, <1>7, <3>1
  <2>2. writer = "gone"
    BY <1>4, <1>5, <1>10, <1>13, <2>1
  <2>3. \A p \in 1..Len(stream) : p \in 1..(Len(line) - 1) /\ stream[p] = line[p]
    <3>1. m + 1 \in (m + 1)..Len(all) /\ m + 1 - 1 = m
      BY <1>8
    <3>2. ASSUME NEW p \in 1..Len(stream) PROVE p \in 1..(Len(line) - 1) /\ stream[p] = line[p]
      <4>1. p \in 1..(Len(line) - 1) /\ p \in 1..Len(line) /\ ends[m + 1 - 1] + p = p
            /\ p <= Len(stream)
        BY <1>4, <1>5, <1>10, <1>13, <3>1
      <4>2. \A i \in 1..Len(LineOf(all, m + 1)) : ends[m + 1 - 1] + i <= Len(stream)
               => stream[ends[m + 1 - 1] + i] = LineOf(all, m + 1)[i]
        BY <1>3, <3>1 DEF Waits
      <4>3. QED
        BY <4>1, <4>2
    <3>3. QED
      BY <3>2
  <2>4. \A p \in 1..Len(stream) : stream[p] # Newline
    BY <1>9, <2>3 DEF IsLine
  <2>5. NextLine(stream) = stream /\ Rest(stream) = <<>>
    BY <1>4, <2>4, LastLine
  <2>6. frame # NoFrame => Sendable(sent1) /\ SameButLast(frame, Carried(sent1))
    <3> DEFINE q == Len(stream)
    <3>1. q \in Nat /\ q < Len(EncodeFrame(sent1)) /\ frame = Parse(stream, kinds)
      BY <1>5, <1>9, <1>10, <1>13, <2>5
    <3>2. \A p \in 1..q : stream[p] = EncodeFrame(sent1)[p]
      BY <1>9, <2>3
    <3> HIDE DEF sent1, q
    <3>3. Len(stream) = q
      BY DEF q
    <3>4. Parse(stream, kinds) # NoFrame
             => Sendable(sent1) /\ SameButLast(Parse(stream, kinds), Carried(sent1))
      BY <1>4, <1>9, <3>1, <3>2, <3>3, ParseCut
    <3>5. QED
      BY <3>1, <3>4
  <2>7. CASE frame = NoFrame
    <3>1. got2 = got
      BY <2>7
    <3>2. Waits(all, <<>>, m, ends, writer)
      <4>1. <<>> \in Seq(Tokens) /\ Len(<<>>) = 0
        BY EmptySeq
      <4>2. \A k \in m..(Len(all) - 1) : ends[k] <= 0
        BY <1>4, <2>1
      <4>3. \A k \in (m + 1)..Len(all) : \A p \in 1..Len(LineOf(all, k)) :
               ~(ends[k - 1] + p <= 0)
        <5>1. ASSUME NEW k \in (m + 1)..Len(all), NEW p \in 1..Len(LineOf(all, k))
              PROVE  ~(ends[k - 1] + p <= 0)
          <6>1. k = m + 1 /\ k - 1 = m
            BY <2>1
          <6>2. QED
            BY <1>4, <6>1
        <5>2. QED
          BY <5>1
      <4>4. Len(all) \in m..Len(all) /\ 0 <= ends[Len(all)]
        BY <1>5, <1>7
      <4>5. QED
        BY <1>3, <2>2, <4>1, <4>2, <4>3, <4>4 DEF Waits
    <3>3. QED
      BY <1>2, <2>5, <3>1, <3>2 DEF Direction
  <2>8. CASE frame # NoFrame
    <3>1. got2 = Append(got, frame) /\ frame \in Heard(kinds)
      BY <1>11, <2>8
    <3>2. \E at2 \in [1..Len(Append(got, frame)) -> 1..(m + 1)] :
              Reads(all, Append(got, frame), m + 1, at2, writer)
      BY <1>2, <1>7, <2>1, <2>2, <2>6, <2>8, <3>1, ReadsMore
    <3> DEFINE n == m + 1
               none == [k \in n..n |-> 0]
    <3>3. n \in Nat /\ n = Len(all)
      BY <2>1
    <3> HIDE DEF n
    <3>4. none \in [n..n -> Nat] /\ none[n] = 0 /\ \A k \in n..n : none[k] = 0
      BY <3>3
    <3> HIDE DEF none
    <3>5. Waits(all, <<>>, n, none, writer)
      <4>1. <<>> \in Seq(Tokens) /\ Len(<<>>) = 0
        BY EmptySeq
      <4>2. (n + 1)..n = {} /\ n..(n - 1) = {}
        BY <3>3
      <4>3. 0 <= 0 /\ \A j, k \in n..n : none[j] <= none[k]
        BY <3>4
      <4>4. QED
        BY <2>2, <3>3, <3>4, <4>1, <4>2, <4>3 DEF Waits
    <3>6. n \in 0..Len(all)
      BY <3>3
    <3>7. QED
      BY <2>5, <3>1, <3>2, <3>3, <3>4, <3>5, <3>6 DEF Direction, n
  <2>9. QED
    BY <2>7, <2>8
<1>14. QED
  BY <1>12, <1>13

-----------------------------------------------------------------------------
(* The invariant.                                                           *)

Sides == {"client", "server"}
ServerKinds == Kinds \ AgentKinds

TypeInv ==
    /\ client \in {"off", "hello", "ready", "gone"}
    /\ server \in {"hello", "greeting", "registering", "serving", "gone"}
    /\ toServer \in Seq(Tokens) /\ toClient \in Seq(Tokens)
    /\ sent \in [Sides -> Seq(Sent)] /\ DOMAIN heard = Sides
    /\ heard["server"] \in Seq(Heard(AgentKinds))
    /\ heard["client"] \in Seq(Heard(ServerKinds))

(* The server has taken a HELLO of the account it knows.                    *)
Accepted ==
    /\ heard["server"] # <<>>
    /\ heard["server"][1].kind = "HELLO" /\ heard["server"][1].fields = Known

(* Where each side is in the handshake.                                     *)
PlaceInv ==
    /\ client = "off" => server = "hello" /\ toServer = <<>> /\ sent["client"] = <<>>
    /\ client \in {"off", "hello"} => heard["client"] = <<>>
    /\ client = "ready" => heard["client"] # <<>>
    /\ server = "hello" => heard["server"] = <<>>
    /\ server \in {"hello", "greeting"} => sent["server"] = <<>> /\ toClient = <<>>
    /\ server \in {"registering", "serving"} => sent["server"] # <<>>

AcceptInv ==
    \/ server \in {"greeting", "registering", "serving"}
    \/ sent["server"] # <<>>
    \/ Len(heard["server"]) > 1
    => Accepted

(* Who writes what.                                                         *)
WrittenInv ==
    /\ \A k \in 1..Len(sent["server"]) :
          IF k = 1 THEN sent["server"][k] = Welcome ELSE sent["server"][k] \in Commands
    /\ \A k \in 1..Len(sent["client"]) : sent["client"][k] \in Hellos \cup AgentFrames

DirectionInv ==
    /\ Direction(sent["client"], heard["server"], toServer, client, server)
    /\ Direction(sent["server"], heard["client"], toClient, server, client)

Inv == TypeInv /\ PlaceInv /\ AcceptInv /\ WrittenInv /\ DirectionInv

LEMMA HeardFrames ==
    ASSUME NEW kinds, kinds \subseteq Kinds, NEW frame \in Heard(kinds)
    PROVE  /\ frame # NoFrame /\ frame.kind \in kinds
           /\ DOMAIN frame.fields = DOMAIN Schema[frame.kind]
  BY ParseTyped DEF Heard

LEMMA KindsOfSides == AgentKinds \subseteq Kinds /\ ServerKinds \subseteq Kinds
  BY KindsAre DEF AgentKinds, ServerKinds

(* What a reader hears.                                                     *)
LEMMA Hearing ==
    ASSUME NEW reader \in Sides, NEW kinds, DOMAIN heard = Sides,
           heard[reader] \in Seq(Heard(kinds)), NEW stream \in Seq(Tokens),
           NEW frame, frame = Parse(NextLine(stream), kinds), Hear(reader, frame)
    PROVE  /\ DOMAIN heard' = Sides
           /\ heard'[reader] = IF frame = NoFrame THEN heard[reader]
                               ELSE Append(heard[reader], frame)
           /\ \A s \in Sides : s # reader => heard'[s] = heard[s]
           /\ heard'[reader] \in Seq(Heard(kinds))
           /\ frame # NoFrame => Len(heard'[reader]) = Len(heard[reader]) + 1
                                 /\ heard'[reader] # <<>>
                                 /\ heard'[reader][Len(heard[reader]) + 1] = frame
           /\ heard[reader] # <<>> => heard'[reader] # <<>> /\ heard'[reader][1] = heard[reader][1]
<1>1. NextLine(stream) \in Seq(Tokens)
  BY NextLineTyped
<1>2. frame # NoFrame => frame \in Heard(kinds)
  BY <1>1 DEF Heard
<1> DEFINE got == heard[reader]
<1>3. heard' = IF frame = NoFrame THEN heard ELSE [heard EXCEPT ![reader] = Append(got, frame)]
  BY DEF Hear
<1>4. DOMAIN heard' = Sides
  BY <1>3
<1>5. heard'[reader] = IF frame = NoFrame THEN got ELSE Append(got, frame)
  BY <1>3
<1>6. \A s \in Sides : s # reader => heard'[s] = heard[s]
  BY <1>3
<1> DEFINE got2 == heard'[reader]
<1>7. got2 = IF frame = NoFrame THEN got ELSE Append(got, frame)
  BY <1>5
<1>8. got \in Seq(Heard(kinds))
  OBVIOUS
<1> HIDE DEF got, got2
<1>9. CASE frame = NoFrame
  BY <1>4, <1>6, <1>7, <1>8, <1>9 DEF got, got2
<1>10. CASE frame # NoFrame
  <2>1. /\ got2 \in Seq(Heard(kinds)) /\ got2 # <<>> /\ Len(got2) = Len(got) + 1
        /\ \A i \in 1..Len(got) : got2[i] = got[i]
        /\ got2[Len(got) + 1] = frame
    BY <1>2, <1>7, <1>8, <1>10, AppendProperties
  <2>2. got # <<>> => got2[1] = got[1]
    <3>1. got # <<>> => 1 \in 1..Len(got)
      BY <1>8, EmptySeq
    <3>2. QED
      BY <2>1, <3>1
  <2>3. QED
    BY <1>4, <1>6, <1>7, <1>10, <2>1, <2>2 DEF got, got2
<1>11. QED
  BY <1>9, <1>10

LEMMA Writing ==
    ASSUME NEW writer \in Sides, NEW frame \in Sent, sent \in [Sides -> Seq(Sent)],
           Write(writer, frame)
    PROVE  /\ sent' \in [Sides -> Seq(Sent)]
           /\ sent'[writer] = Append(sent[writer], frame)
           /\ sent'[writer] # <<>>
           /\ Len(sent'[writer]) = Len(sent[writer]) + 1
           /\ \A k \in 1..Len(sent[writer]) : sent'[writer][k] = sent[writer][k]
           /\ sent'[writer][Len(sent[writer]) + 1] = frame
           /\ \A s \in Sides : s # writer => sent'[s] = sent[s]
<1> DEFINE all == sent[writer]
<1>1. sent' = [sent EXCEPT ![writer] = Append(all, frame)] /\ all \in Seq(Sent)
  BY DEF Write
<1> HIDE DEF all
<1>2. /\ Append(all, frame) \in Seq(Sent) /\ Append(all, frame) # <<>>
      /\ Len(Append(all, frame)) = Len(all) + 1
      /\ \A k \in 1..Len(all) : Append(all, frame)[k] = all[k]
      /\ Append(all, frame)[Len(all) + 1] = frame
  BY <1>1, AppendProperties
<1>3. sent'[writer] = Append(all, frame) /\ sent' \in [Sides -> Seq(Sent)]
      /\ \A s \in Sides : s # writer => sent'[s] = sent[s]
  BY <1>1, <1>2
<1>4. QED
  BY <1>2, <1>3 DEF all

LEMMA TypeStep ==
    ASSUME TypeInv, Next
    PROVE  TypeInv'
<1> USE DEF Sides
<1>0. TypeInv
  OBVIOUS
<1>a. /\ \A frame \in Sent : EncodeFrame(frame) \in Seq(Tokens)
      /\ <<>> \in Seq(Tokens)
  BY SentAreFrames, EncodedIsLine DEF IsLine
<1>b. \A stream \in Seq(Tokens) : NextLine(stream) \in Seq(Tokens) /\ Rest(stream) \in Seq(Tokens)
                                  /\ \A cut \in Cuts(stream) : cut \in Seq(Tokens)
  BY NextLineTyped, CutsTyped
<1>c. \A frame \in Sent, stream \in Seq(Tokens) : stream \o EncodeFrame(frame) \in Seq(Tokens)
  BY <1>a, ConcatProperties
<1>1. ASSUME NEW hello \in Hellos, Connect(hello) PROVE TypeInv'
  <2>1. hello \in Sent
    BY DEF Sent
  <2>2. sent' \in [Sides -> Seq(Sent)]
    BY <1>0, <1>1, <2>1, Writing DEF Connect, TypeInv
  <2>3. QED
    BY <1>0, <1>1, <1>a, <2>1, <2>2 DEF Connect, TypeInv
<1>2. CASE Connected
  <2> DEFINE frame == Parse(NextLine(toClient), ServerKinds)
  <2>1. Hear("client", frame)
    BY <1>2 DEF Connected, ServerKinds
  <2> HIDE DEF frame
  <2>2. DOMAIN heard' = Sides /\ heard'["client"] \in Seq(Heard(ServerKinds))
        /\ heard'["server"] = heard["server"]
    BY <1>0, <2>1, Hearing DEF frame, TypeInv
  <2>3. client' \in {"ready", "gone"} /\ toClient' \in {Rest(toClient), <<>>}
        /\ UNCHANGED <<server, toServer, sent>>
    BY <1>2 DEF Connected
  <2>4. QED
    BY <1>0, <1>a, <1>b, <2>2, <2>3 DEF TypeInv
<1>3. ASSUME NEW frame \in AgentFrames, ClientSends(frame) PROVE TypeInv'
  <2>1. frame \in Sent
    BY DEF Sent
  <2>2. sent' \in [Sides -> Seq(Sent)]
    BY <1>0, <1>3, <2>1, Writing DEF ClientSends, TypeInv
  <2>3. QED
    BY <1>0, <1>3, <1>c, <2>1, <2>2 DEF ClientSends, TypeInv
<1>4. CASE ClientReads
  <2> DEFINE frame == Parse(NextLine(toClient), ServerKinds)
  <2>1. Hear("client", frame)
    BY <1>4 DEF ClientReads, ServerKinds
  <2> HIDE DEF frame
  <2>2. DOMAIN heard' = Sides /\ heard'["client"] \in Seq(Heard(ServerKinds))
        /\ heard'["server"] = heard["server"]
    BY <1>0, <2>1, Hearing DEF frame, TypeInv
  <2>3. toClient' = Rest(toClient) /\ UNCHANGED <<client, server, toServer, sent>>
    BY <1>4 DEF ClientReads
  <2>4. QED
    BY <1>0, <1>b, <2>2, <2>3 DEF TypeInv
<1>5. CASE ClientGoes
  BY <1>0, <1>5, <1>a, <1>b DEF ClientGoes, TypeInv
<1>6. CASE ServerAccepts
  <2> DEFINE frame == Parse(NextLine(toServer), AgentKinds)
  <2>1. Hear("server", frame)
    BY <1>6 DEF ServerAccepts
  <2> HIDE DEF frame
  <2>2. DOMAIN heard' = Sides /\ heard'["server"] \in Seq(Heard(AgentKinds))
        /\ heard'["client"] = heard["client"]
    BY <1>0, <2>1, Hearing DEF frame, TypeInv
  <2>3. server' \in {"greeting", "gone"} /\ toServer' \in {Rest(toServer), <<>>}
        /\ UNCHANGED <<client, toClient, sent>>
    BY <1>6 DEF ServerAccepts
  <2>4. QED
    BY <1>0, <1>a, <1>b, <2>2, <2>3 DEF TypeInv
<1>7. CASE ServerGreets
  <2>1. Welcome \in Sent
    BY DEF Sent
  <2>2. sent' \in [Sides -> Seq(Sent)]
    BY <1>0, <1>7, <2>1, Writing DEF ServerGreets, TypeInv
  <2>3. toClient' \in Seq(Tokens)
    BY <1>7, <1>a, <2>1 DEF ServerGreets
  <2>4. QED
    BY <1>0, <1>7, <2>2, <2>3 DEF ServerGreets, TypeInv
<1>8. CASE ServerRegisters
  BY <1>0, <1>8 DEF ServerRegisters, TypeInv
<1>9. ASSUME NEW frame \in Commands, ServerSends(frame) PROVE TypeInv'
  <2>1. frame \in Sent
    BY DEF Sent
  <2>2. sent' \in [Sides -> Seq(Sent)]
    BY <1>0, <1>9, <2>1, Writing DEF ServerSends, TypeInv
  <2>3. QED
    BY <1>0, <1>9, <1>c, <2>1, <2>2 DEF ServerSends, TypeInv
<1>10. CASE ServerReads
  <2> DEFINE frame == Parse(NextLine(toServer), AgentKinds)
  <2>1. Hear("server", frame)
    BY <1>10 DEF ServerReads
  <2> HIDE DEF frame
  <2>2. DOMAIN heard' = Sides /\ heard'["server"] \in Seq(Heard(AgentKinds))
        /\ heard'["client"] = heard["client"]
    BY <1>0, <2>1, Hearing DEF frame, TypeInv
  <2>3. server' \in {server, "gone"} /\ toServer' \in {Rest(toServer), <<>>}
        /\ (toClient' = toClient \/ toClient' \in Cuts(toClient))
        /\ UNCHANGED <<client, sent>>
    BY <1>10 DEF ServerReads
  <2>4. QED
    BY <1>0, <1>a, <1>b, <2>2, <2>3 DEF TypeInv
<1>11. CASE ServerGoes
  BY <1>0, <1>11, <1>a, <1>b DEF ServerGoes, TypeInv
<1>12. QED
  BY <1>1, <1>2, <1>3, <1>4, <1>5, <1>6, <1>7, <1>8, <1>9, <1>10, <1>11 DEF Next

(* What a step does to what has been heard.                                 *)
LEMMA HearingSteps ==
    ASSUME TypeInv, Next
    PROVE  /\ ServerAccepts \/ ServerReads \/ heard'["server"] = heard["server"]
           /\ Connected \/ ClientReads \/ heard'["client"] = heard["client"]
<1> USE DEF Sides
<1>0. TypeInv
  OBVIOUS
<1>1. CASE Connected \/ ClientReads
  <2> DEFINE frame == Parse(NextLine(toClient), ServerKinds)
  <2>1. Hear("client", frame)
    BY <1>1 DEF Connected, ClientReads, ServerKinds
  <2> HIDE DEF frame
  <2>2. heard'["server"] = heard["server"]
    BY <1>0, <2>1, Hearing DEF frame, TypeInv
  <2>3. QED
    BY <1>1, <2>2
<1>2. CASE ServerAccepts \/ ServerReads
  <2> DEFINE frame == Parse(NextLine(toServer), AgentKinds)
  <2>1. Hear("server", frame)
    BY <1>2 DEF ServerAccepts, ServerReads
  <2> HIDE DEF frame
  <2>2. heard'["client"] = heard["client"]
    BY <1>0, <2>1, Hearing DEF frame, TypeInv
  <2>3. QED
    BY <1>2, <2>2
<1>3. CASE \/ \E hello \in Hellos : Connect(hello)
           \/ \E frame \in AgentFrames : ClientSends(frame)
           \/ ClientGoes \/ ServerGreets \/ ServerRegisters
           \/ \E frame \in Commands : ServerSends(frame)
           \/ ServerGoes
  <2>1. heard' = heard
    BY <1>3 DEF Connect, ClientSends, ClientGoes, ServerGreets, ServerRegisters,
                ServerSends, ServerGoes
  <2>2. QED
    BY <2>1
<1>4. QED
  BY <1>1, <1>2, <1>3 DEF Next

(* ... and to what has been written.                                        *)
LEMMA WritingSteps ==
    ASSUME TypeInv, Next
    PROVE  /\ \/ sent'["client"] = sent["client"]
              \/ \E frame \in Hellos \cup AgentFrames :
                    /\ client # "gone" /\ client' # "gone"
                    /\ sent'["client"] = Append(sent["client"], frame)
           /\ \/ sent'["server"] = sent["server"]
              \/ ServerGreets /\ sent'["server"] = Append(sent["server"], Welcome)
              \/ \E frame \in Commands :
                    ServerSends(frame) /\ sent'["server"] = Append(sent["server"], frame)
<1> USE DEF Sides
<1>0. TypeInv
  OBVIOUS
<1>1. ASSUME NEW hello \in Hellos, Connect(hello)
      PROVE  /\ sent'["server"] = sent["server"]
             /\ client # "gone" /\ client' # "gone"
             /\ sent'["client"] = Append(sent["client"], hello)
  <2>1. hello \in Sent /\ Write("client", hello)
    BY <1>1 DEF Connect, Sent
  <2>2. QED
    BY <1>0, <1>1, <2>1, Writing DEF Connect, TypeInv
<1>2. ASSUME NEW frame \in AgentFrames, ClientSends(frame)
      PROVE  /\ sent'["server"] = sent["server"]
             /\ client # "gone" /\ client' # "gone"
             /\ sent'["client"] = Append(sent["client"], frame)
  <2>1. frame \in Sent /\ Write("client", frame)
    BY <1>2 DEF ClientSends, Sent
  <2>2. QED
    BY <1>0, <1>2, <2>1, Writing DEF ClientSends, TypeInv
<1>3. ASSUME ServerGreets
      PROVE  /\ sent'["client"] = sent["client"]
             /\ sent'["server"] = Append(sent["server"], Welcome)
  <2>1. Welcome \in Sent /\ Write("server", Welcome)
    BY <1>3 DEF ServerGreets, Sent
  <2>2. QED
    BY <1>0, <2>1, Writing DEF TypeInv
<1>4. ASSUME NEW frame \in Commands, ServerSends(frame)
      PROVE  /\ sent'["client"] = sent["client"]
             /\ sent'["server"] = Append(sent["server"], frame)
  <2>1. frame \in Sent /\ Write("server", frame)
    BY <1>4 DEF ServerSends, Sent
  <2>2. QED
    BY <1>0, <2>1, Writing DEF TypeInv
<1>5. ASSUME Connected \/ ClientReads \/ ClientGoes \/ ServerAccepts \/ ServerRegisters
             \/ ServerReads \/ ServerGoes
      PROVE  sent' = sent
  BY <1>5 DEF Connected, ClientReads, ClientGoes, ServerAccepts, ServerRegisters,
              ServerReads, ServerGoes
<1>6. QED
  BY <1>1, <1>2, <1>3, <1>4, <1>5 DEF Next

LEMMA WrittenStep ==
    ASSUME TypeInv, PlaceInv, WrittenInv, Next
    PROVE  WrittenInv'
<1>0. /\ sent["client"] \in Seq(Sent) /\ sent["server"] \in Seq(Sent)
      /\ \A k \in 1..Len(sent["server"]) :
            IF k = 1 THEN sent["server"][k] = Welcome ELSE sent["server"][k] \in Commands
      /\ \A k \in 1..Len(sent["client"]) : sent["client"][k] \in Hellos \cup AgentFrames
  BY DEF TypeInv, Sides, WrittenInv
<1> DEFINE mine == sent["client"]
           mine2 == sent'["client"]
           theirs == sent["server"]
           theirs2 == sent'["server"]
<1>1. /\ \/ mine2 = mine
         \/ \E frame \in Hellos \cup AgentFrames : mine2 = Append(mine, frame)
      /\ \/ theirs2 = theirs
         \/ ServerGreets /\ theirs2 = Append(theirs, Welcome)
         \/ \E frame \in Commands : ServerSends(frame) /\ theirs2 = Append(theirs, frame)
  BY WritingSteps
<1>2. ServerGreets => theirs = <<>>
  BY DEF ServerGreets, PlaceInv
<1>3. \A frame \in Commands : ServerSends(frame) => theirs # <<>>
  BY DEF ServerSends, Registered, PlaceInv
<1> HIDE DEF mine, mine2, theirs, theirs2
<1>4. \A k \in 1..Len(mine2) : mine2[k] \in Hellos \cup AgentFrames
  <2>1. mine \in Seq(Sent) /\ \A k \in 1..Len(mine) : mine[k] \in Hellos \cup AgentFrames
    BY <1>0 DEF mine
  <2>2. CASE mine2 = mine
    BY <2>1, <2>2
  <2>3. ASSUME NEW frame \in Hellos \cup AgentFrames, mine2 = Append(mine, frame)
        PROVE  \A k \in 1..Len(mine2) : mine2[k] \in Hellos \cup AgentFrames
    <3>1. frame \in Sent
      BY DEF Sent
    <3>2. Len(mine2) = Len(mine) + 1 /\ \A k \in 1..Len(mine) : mine2[k] = mine[k]
      BY <2>1, <2>3, <3>1, AppendProperties
    <3>3. mine2[Len(mine) + 1] = frame /\ Len(mine) \in Nat
      BY <2>1, <2>3, <3>1, AppendProperties, LenProperties
    <3>4. \A k \in 1..Len(mine2) : k \in 1..Len(mine) \/ k = Len(mine) + 1
      BY <3>2, <3>3
    <3>5. QED
      BY <2>1, <3>2, <3>3, <3>4
  <2>4. QED
    BY <1>1, <2>2, <2>3
<1>5. \A k \in 1..Len(theirs2) : IF k = 1 THEN theirs2[k] = Welcome ELSE theirs2[k] \in Commands
  <2>1. theirs \in Seq(Sent)
        /\ \A k \in 1..Len(theirs) : IF k = 1 THEN theirs[k] = Welcome ELSE theirs[k] \in Commands
    BY <1>0 DEF theirs
  <2>2. CASE theirs2 = theirs
    BY <2>1, <2>2
  <2>3. ASSUME NEW frame \in Commands \cup {Welcome}, theirs2 = Append(theirs, frame),
               IF theirs = <<>> THEN frame = Welcome ELSE frame \in Commands
        PROVE  \A k \in 1..Len(theirs2) :
                  IF k = 1 THEN theirs2[k] = Welcome ELSE theirs2[k] \in Commands
    <3>1. frame \in Sent
      BY DEF Sent
    <3>2. Len(theirs2) = Len(theirs) + 1 /\ \A k \in 1..Len(theirs) : theirs2[k] = theirs[k]
      BY <2>1, <2>3, <3>1, AppendProperties
    <3>3. theirs2[Len(theirs) + 1] = frame /\ Len(theirs) \in Nat
          /\ (Len(theirs) = 0 <=> theirs = <<>>)
      BY <2>1, <2>3, <3>1, AppendProperties, LenProperties, EmptySeq
    <3>4. \A k \in 1..Len(theirs2) : k \in 1..Len(theirs) \/ k = Len(theirs) + 1
      BY <3>2, <3>3
    <3>5. Len(theirs) + 1 = 1 <=> theirs = <<>>
      BY <3>3
    <3>6. QED
      BY <2>1, <2>3, <3>2, <3>3, <3>4, <3>5
  <2>4. QED
    BY <1>1, <1>2, <1>3, <2>2, <2>3
<1>6. QED
  BY <1>4, <1>5 DEF WrittenInv, mine2, theirs2

LEMMA AcceptStep ==
    ASSUME TypeInv, PlaceInv, AcceptInv, Next
    PROVE  AcceptInv'
<1>0. TypeInv /\ PlaceInv /\ AcceptInv
  OBVIOUS
<1>1. CASE ServerAccepts
  <2> DEFINE frame == Parse(NextLine(toServer), AgentKinds)
             got == heard["server"]
             got2 == heard'["server"]
  <2>1. /\ Hear("server", frame) /\ server = "hello" /\ sent' = sent
        /\ server' = IF frame.kind = "HELLO" /\ frame.fields = Known THEN "greeting" ELSE "gone"
    BY <1>1 DEF ServerAccepts
  <2>2. got = <<>> /\ sent'["server"] = <<>>
    BY <1>0, <2>1 DEF PlaceInv
  <2>3. got \in Seq(Heard(AgentKinds)) /\ toServer \in Seq(Tokens) /\ DOMAIN heard = Sides
    BY <1>0 DEF TypeInv
  <2>4. frame.kind = "HELLO" => frame # NoFrame
    BY DEF NoFrame
  <2> HIDE DEF frame
  <2>5. /\ got2 = IF frame = NoFrame THEN got ELSE Append(got, frame)
        /\ frame # NoFrame => Len(got2) = Len(got) + 1 /\ got2 # <<>> /\ got2[Len(got) + 1] = frame
    BY <2>1, <2>3, Hearing DEF frame, Sides
  <2> HIDE DEF got, got2
  <2>6. Len(got) = 0
    BY <2>2
  <2>7. Len(got2) <= 1 /\ (frame # NoFrame => got2 # <<>> /\ got2[1] = frame)
    <3>1. CASE frame = NoFrame
      BY <2>5, <2>6, <3>1
    <3>2. CASE frame # NoFrame
      BY <2>5, <2>6, <3>2
    <3>3. QED
      BY <3>1, <3>2
  <2>8. ~(Len(got2) > 1)
    <3>1. Len(got2) \in Nat
      BY <2>5, <2>6
    <3>2. QED
      BY <2>7, <3>1
  <2>9. server' \in {"greeting", "registering", "serving"}
           => got2 # <<>> /\ got2[1].kind = "HELLO" /\ got2[1].fields = Known
    BY <2>1, <2>4, <2>7
  <2>10. QED
    BY <2>2, <2>8, <2>9 DEF AcceptInv, Accepted, got2
<1>2. CASE ServerReads
  <2> DEFINE frame == Parse(NextLine(toServer), AgentKinds)
  <2>1. Hear("server", frame) /\ server = "serving"
    BY <1>2 DEF ServerReads
  <2>2. Accepted
    BY <1>0, <2>1 DEF AcceptInv
  <2> HIDE DEF frame
  <2>3. heard'["server"] # <<>> /\ heard'["server"][1] = heard["server"][1]
    BY <1>0, <2>1, <2>2, Hearing DEF frame, Sides, TypeInv, Accepted
  <2>4. Accepted'
    BY <2>2, <2>3 DEF Accepted
  <2>5. QED
    BY <2>4 DEF AcceptInv
<1>3. CASE ~ServerAccepts /\ ~ServerReads
  <2>1. heard'["server"] = heard["server"]
    BY <1>0, <1>3, HearingSteps
  <2>2. Accepted' <=> Accepted
    BY <2>1 DEF Accepted
  <2>3. server' \in {"greeting", "registering", "serving"}
           => server \in {"greeting", "registering", "serving"}
    BY <1>3 DEF Next, Connect, Connected, ClientSends, ClientReads, ClientGoes, ServerGreets,
                ServerRegisters, ServerSends, ServerGoes
  <2>4. sent'["server"] # <<>>
           => sent["server"] # <<>> \/ server \in {"greeting", "registering", "serving"}
    BY <1>0, WritingSteps DEF ServerGreets, ServerSends, Registered
  <2>5. QED
    BY <1>0, <2>1, <2>2, <2>3, <2>4 DEF AcceptInv
<1>4. QED
  BY <1>1, <1>2, <1>3

LEMMA NothingToRead == \A writer : ~CanRead(<<>>, writer)
  BY DEF CanRead, HasLine

LEMMA PlaceStep ==
    ASSUME TypeInv, PlaceInv, Next
    PROVE  PlaceInv'
<1> USE DEF Sides
<1>0. TypeInv /\ PlaceInv
  OBVIOUS
<1>a. /\ sent["client"] \in Seq(Sent) /\ sent["server"] \in Seq(Sent)
      /\ heard["server"] \in Seq(Heard(AgentKinds)) /\ heard["client"] \in Seq(Heard(ServerKinds))
  BY <1>0 DEF TypeInv
<1>b. \A frame \in Sent : /\ Append(sent["client"], frame) # <<>>
                          /\ Append(sent["server"], frame) # <<>>
  BY <1>a, AppendProperties
<1>c. Hellos \cup AgentFrames \subseteq Sent /\ Commands \cup {Welcome} \subseteq Sent
  BY DEF Sent
<1>1. ASSUME NEW hello \in Hellos, Connect(hello) PROVE PlaceInv'
  <2>1. /\ client = "off" /\ client' = "hello" /\ UNCHANGED <<server, toClient, heard>>
        /\ Write("client", hello)
    BY <1>1 DEF Connect
  <2>2. sent'["server"] = sent["server"]
    BY <1>0, <1>c, <2>1, Writing DEF TypeInv
  <2>3. QED
    BY <1>0, <2>1, <2>2 DEF PlaceInv
<1>2. CASE Connected
  <2> DEFINE frame == Parse(NextLine(toClient), ServerKinds)
  <2>1. /\ Hear("client", frame) /\ client = "hello" /\ CanRead(toClient, server)
        /\ client' = IF frame.kind = "WELCOME" THEN "ready" ELSE "gone"
        /\ UNCHANGED <<server, toServer, sent>>
    BY <1>2 DEF Connected, ServerKinds
  <2>2. frame.kind = "WELCOME" => frame # NoFrame
    BY DEF NoFrame
  <2> HIDE DEF frame
  <2>3. heard'["server"] = heard["server"] /\ (frame # NoFrame => heard'["client"] # <<>>)
    BY <1>0, <2>1, Hearing DEF frame, TypeInv
  <2>4. ~(server \in {"hello", "greeting"})
    BY <1>0, <2>1, NothingToRead DEF PlaceInv
  <2>5. QED
    BY <1>0, <2>1, <2>2, <2>3, <2>4 DEF PlaceInv
<1>3. ASSUME NEW frame \in AgentFrames, ClientSends(frame) PROVE PlaceInv'
  <2>1. /\ client = "ready" /\ UNCHANGED <<client, server, toClient, heard>>
        /\ Write("client", frame)
    BY <1>3 DEF ClientSends
  <2>2. sent'["server"] = sent["server"]
    BY <1>0, <1>c, <2>1, Writing DEF TypeInv
  <2>3. QED
    BY <1>0, <2>1, <2>2 DEF PlaceInv
<1>4. CASE ClientReads
  <2> DEFINE frame == Parse(NextLine(toClient), ServerKinds)
  <2>1. /\ Hear("client", frame) /\ client = "ready" /\ CanRead(toClient, server)
        /\ UNCHANGED <<client, server, toServer, sent>>
    BY <1>4 DEF ClientReads, ServerKinds
  <2> HIDE DEF frame
  <2>2. heard'["server"] = heard["server"]
        /\ (heard["client"] # <<>> => heard'["client"] # <<>>)
    BY <1>0, <2>1, Hearing DEF frame, TypeInv
  <2>3. ~(server \in {"hello", "greeting"})
    BY <1>0, <2>1, NothingToRead DEF PlaceInv
  <2>4. QED
    BY <1>0, <2>1, <2>2, <2>3 DEF PlaceInv
<1>5. CASE ClientGoes
  BY <1>0, <1>5 DEF ClientGoes, PlaceInv
<1>6. CASE ServerAccepts
  <2> DEFINE frame == Parse(NextLine(toServer), AgentKinds)
  <2>1. /\ Hear("server", frame) /\ server = "hello" /\ CanRead(toServer, client)
        /\ server' \in {"greeting", "gone"} /\ UNCHANGED <<client, toClient, sent>>
    BY <1>6 DEF ServerAccepts
  <2> HIDE DEF frame
  <2>2. heard'["client"] = heard["client"]
    BY <1>0, <2>1, Hearing DEF frame, TypeInv
  <2>3. client # "off"
    BY <1>0, <2>1, NothingToRead DEF PlaceInv
  <2>4. QED
    BY <1>0, <2>1, <2>2, <2>3 DEF PlaceInv
<1>7. CASE ServerGreets
  <2>1. /\ server = "greeting" /\ server' = "registering" /\ Write("server", Welcome)
        /\ UNCHANGED <<client, toServer, heard>>
    BY <1>7 DEF ServerGreets
  <2>2. sent'["client"] = sent["client"] /\ sent'["server"] # <<>>
    BY <1>0, <1>c, <2>1, Writing DEF TypeInv
  <2>3. QED
    BY <1>0, <2>1, <2>2 DEF PlaceInv
<1>8. CASE ServerRegisters
  BY <1>0, <1>8 DEF ServerRegisters, PlaceInv
<1>9. ASSUME NEW frame \in Commands, ServerSends(frame) PROVE PlaceInv'
  <2>1. /\ server = "serving" /\ Write("server", frame)
        /\ UNCHANGED <<client, server, toServer, heard>>
    BY <1>9 DEF ServerSends, Registered
  <2>2. sent'["client"] = sent["client"] /\ sent'["server"] # <<>>
    BY <1>0, <1>c, <2>1, Writing DEF TypeInv
  <2>3. QED
    BY <1>0, <2>1, <2>2 DEF PlaceInv
<1>10. CASE ServerReads
  <2> DEFINE frame == Parse(NextLine(toServer), AgentKinds)
  <2>1. /\ Hear("server", frame) /\ server = "serving" /\ CanRead(toServer, client)
        /\ server' \in {"serving", "gone"} /\ UNCHANGED <<client, sent>>
    BY <1>10 DEF ServerReads
  <2> HIDE DEF frame
  <2>2. heard'["client"] = heard["client"]
    BY <1>0, <2>1, Hearing DEF frame, TypeInv
  <2>3. client # "off"
    BY <1>0, <2>1, NothingToRead DEF PlaceInv
  <2>4. QED
    BY <1>0, <2>1, <2>2, <2>3 DEF PlaceInv
<1>11. CASE ServerGoes
  BY <1>0, <1>11 DEF ServerGoes, PlaceInv
<1>12. QED
  BY <1>1, <1>2, <1>3, <1>4, <1>5, <1>6, <1>7, <1>8, <1>9, <1>10, <1>11 DEF Next

(* The two directions under each step.                                      *)
ToServerInv == Direction(sent["client"], heard["server"], toServer, client, server)
ToClientInv == Direction(sent["server"], heard["client"], toClient, server, client)

LEMMA AgentFrameKinds ==
    ASSUME NEW frame \in Hellos \cup AgentFrames PROVE frame.kind \in AgentKinds
  BY WireAssumption DEF AgentKinds

LEMMA ServerFrameKinds ==
    ASSUME NEW frame \in Commands \cup {Welcome}
    PROVE  frame.kind \in ServerKinds /\ (frame.kind = "WELCOME" <=> frame = Welcome)
<1>1. Welcome.kind = "WELCOME" /\ "WELCOME" \in ServerKinds
  BY KindsAre DEF Welcome, ServerKinds, AgentKinds
<1>2. \A command \in Commands : command.kind \in ServerKinds /\ command.kind # "WELCOME"
  BY WireAssumption DEF ServerKinds
<1>3. QED
  BY <1>1, <1>2

LEMMA ServerHears ==
    ASSUME TypeInv, WrittenInv, ToServerInv, server # "gone", CanRead(toServer, client),
           Hear("server", Parse(NextLine(toServer), AgentKinds))
    PROVE  Direction(sent["client"], heard'["server"], Rest(toServer), client, server)
<1> DEFINE frame == Parse(NextLine(toServer), AgentKinds)
           all == sent["client"]
           got == heard["server"]
           got2 == heard'["server"]
<1>1. /\ all \in Seq(Sent) /\ got \in Seq(Heard(AgentKinds)) /\ toServer \in Seq(Tokens)
      /\ DOMAIN heard = Sides
  BY DEF TypeInv, Sides
<1>2. \A k \in 1..Len(all) : all[k].kind \in AgentKinds
  BY AgentFrameKinds DEF WrittenInv
<1>3. Hear("server", frame)
  OBVIOUS
<1> HIDE DEF frame
<1>4. got2 = IF frame = NoFrame THEN got ELSE Append(got, frame)
  BY <1>1, <1>3, Hearing DEF Sides, frame
<1>5. Direction(all, got, toServer, client, server)
  BY DEF ToServerInv
<1> HIDE DEF all, got, got2
<1>6. frame = Parse(NextLine(toServer), AgentKinds)
  BY DEF frame
<1>7. Direction(all, got2, Rest(toServer), client, server)
  BY <1>1, <1>2, <1>4, <1>5, <1>6, KindsOfSides, DirectionReads
<1>8. QED
  BY <1>7 DEF all, got2

LEMMA ClientHears ==
    ASSUME TypeInv, WrittenInv, ToClientInv, client # "gone", CanRead(toClient, server),
           Hear("client", Parse(NextLine(toClient), ServerKinds))
    PROVE  Direction(sent["server"], heard'["client"], Rest(toClient), server, client)
<1> DEFINE frame == Parse(NextLine(toClient), ServerKinds)
           all == sent["server"]
           got == heard["client"]
           got2 == heard'["client"]
<1>1. /\ all \in Seq(Sent) /\ got \in Seq(Heard(ServerKinds)) /\ toClient \in Seq(Tokens)
      /\ DOMAIN heard = Sides
  BY DEF TypeInv, Sides
<1>2. \A k \in 1..Len(all) : all[k].kind \in ServerKinds
  BY ServerFrameKinds DEF WrittenInv
<1>3. Hear("client", frame)
  OBVIOUS
<1> HIDE DEF frame
<1>4. got2 = IF frame = NoFrame THEN got ELSE Append(got, frame)
  BY <1>1, <1>3, Hearing DEF Sides, frame
<1>5. Direction(all, got, toClient, server, client)
  BY DEF ToClientInv
<1> HIDE DEF all, got, got2
<1>6. frame = Parse(NextLine(toClient), ServerKinds)
  BY DEF frame
<1>7. Direction(all, got2, Rest(toClient), server, client)
  BY <1>1, <1>2, <1>4, <1>5, <1>6, KindsOfSides, DirectionReads
<1>8. QED
  BY <1>7 DEF all, got2

LEMMA ToServerStep ==
    ASSUME TypeInv, PlaceInv, WrittenInv, ToServerInv, Next
    PROVE  ToServerInv'
<1> USE DEF Sides
<1>0. TypeInv /\ PlaceInv /\ WrittenInv /\ ToServerInv
  OBVIOUS
<1> DEFINE mine == sent["client"]
           mine2 == sent'["client"]
           got == heard["server"]
           got2 == heard'["server"]
<1>a. mine \in Seq(Sent) /\ toServer \in Seq(Tokens) /\ sent \in [Sides -> Seq(Sent)]
  BY <1>0 DEF TypeInv
<1>b. Direction(mine, got, toServer, client, server)
  BY <1>0 DEF ToServerInv
<1>c. ASSUME Direction(mine2, got2, toServer', client', server') PROVE ToServerInv'
  BY <1>c DEF ToServerInv
<1>d. ServerAccepts \/ ServerReads \/ got2 = got
  BY <1>0, HearingSteps
<1>1. ASSUME NEW hello \in Hellos, Connect(hello) PROVE ToServerInv'
  <2>1. /\ client = "off" /\ server' = server /\ toServer' = EncodeFrame(hello)
        /\ heard' = heard /\ Write("client", hello)
    BY <1>1 DEF Connect
  <2>2. hello \in Sent
    BY DEF Sent
  <2>3. mine2 = Append(mine, hello)
    BY <1>a, <2>1, <2>2, Writing
  <2>4. toServer = <<>> /\ EncodeFrame(hello) \in Seq(Tokens)
    BY <1>0, <2>1, <2>2, SentAreFrames, EncodedIsLine DEF PlaceInv, IsLine
  <2>5. toServer' = toServer \o EncodeFrame(hello)
    BY <2>1, <2>4, ConcatEmptySeq
  <2> HIDE DEF mine, mine2, got, got2
  <2>6. got2 = got
    BY <2>1 DEF got, got2
  <2>7. Direction(Append(mine, hello), got, toServer', client', server')
    BY <1>a, <1>b, <2>1, <2>2, <2>5, DirectionAppends
  <2>8. QED
    BY <1>c, <2>3, <2>6, <2>7
<1>2. ASSUME NEW frame \in AgentFrames, ClientSends(frame) PROVE ToServerInv'
  <2>1. /\ client = "ready" /\ server' = server /\ toServer' = toServer \o EncodeFrame(frame)
        /\ heard' = heard /\ Write("client", frame)
    BY <1>2 DEF ClientSends
  <2>2. frame \in Sent
    BY DEF Sent
  <2>3. mine2 = Append(mine, frame)
    BY <1>a, <2>1, <2>2, Writing
  <2> HIDE DEF mine, mine2, got, got2
  <2>4. got2 = got
    BY <2>1 DEF got, got2
  <2>5. Direction(Append(mine, frame), got, toServer', client', server')
    BY <1>a, <1>b, <2>1, <2>2, DirectionAppends
  <2>6. QED
    BY <1>c, <2>3, <2>4, <2>5
<1>3. CASE ServerAccepts \/ ServerReads
  <2> DEFINE frame == Parse(NextLine(toServer), AgentKinds)
  <2>1. /\ server # "gone" /\ CanRead(toServer, client) /\ Hear("server", frame)
        /\ client' = client /\ sent' = sent
        /\ server' = "gone" \/ toServer' = Rest(toServer)
    BY <1>3 DEF ServerAccepts, ServerReads
  <2>2. Direction(mine, got2, Rest(toServer), client, server)
    BY <1>0, <2>1, ServerHears
  <2>3. mine2 = mine
    BY <2>1
  <2> HIDE DEF mine, mine2, got, got2, frame
  <2>4. Direction(mine, got2, toServer', client', server')
    BY <2>1, <2>2, DirectionEnds
  <2>5. QED
    BY <1>c, <2>3, <2>4
<1>4. CASE ClientGoes
  <2>1. /\ client # "gone" /\ client' = "gone" /\ toServer' \in Cuts(toServer)
        /\ server' = server /\ sent' = sent /\ heard' = heard
    BY <1>4 DEF ClientGoes
  <2>2. mine2 = mine /\ got2 = got
    BY <2>1
  <2> HIDE DEF mine, mine2, got, got2
  <2>3. Direction(mine, got, toServer', "gone", server)
    BY <1>a, <1>b, <2>1, DirectionCut
  <2>4. QED
    BY <1>c, <2>1, <2>2, <2>3
<1>5. CASE \/ Connected \/ ClientReads \/ ServerGreets \/ ServerRegisters
           \/ \E frame \in Commands : ServerSends(frame)
           \/ ServerGoes
  <2>1. /\ client = "gone" => client' = "gone"
        /\ server = "gone" => server' = "gone"
        /\ server' = "gone" \/ toServer' = toServer
    BY <1>5 DEF Connected, ClientReads, ServerGreets, ServerRegisters, ServerSends,
                Registered, ServerGoes
  <2>2. ~(ServerAccepts \/ ServerReads) => got2 = got
    BY <1>d
  <2>3. ASSUME NEW frame \in Commands \cup {Welcome}, Write("server", frame) PROVE mine2 = mine
    <3>1. frame \in Sent
      BY DEF Sent
    <3>2. QED
      BY <1>a, <2>3, <3>1, Writing
  <2>4. mine2 = mine
    BY <1>5, <2>3 DEF Connected, ClientReads, ServerGreets, ServerRegisters, ServerSends, ServerGoes
  <2> HIDE DEF mine, mine2, got, got2
  <2>5. CASE ServerAccepts \/ ServerReads
    BY <1>3, <2>5
  <2>6. CASE got2 = got
    <3>1. Direction(mine, got, toServer', client', server')
      BY <1>b, <2>1, DirectionEnds
    <3>2. QED
      BY <1>c, <2>4, <2>6, <3>1
  <2>7. QED
    BY <2>2, <2>5, <2>6
<1>6. QED
  BY <1>0, <1>1, <1>2, <1>3, <1>4, <1>5 DEF Next

LEMMA ToClientStep ==
    ASSUME TypeInv, PlaceInv, WrittenInv, ToClientInv, Next
    PROVE  ToClientInv'
<1> USE DEF Sides
<1>0. TypeInv /\ PlaceInv /\ WrittenInv /\ ToClientInv
  OBVIOUS
<1> DEFINE mine == sent["server"]
           mine2 == sent'["server"]
           got == heard["client"]
           got2 == heard'["client"]
<1>a. mine \in Seq(Sent) /\ toClient \in Seq(Tokens) /\ sent \in [Sides -> Seq(Sent)]
  BY <1>0 DEF TypeInv
<1>b. Direction(mine, got, toClient, server, client)
  BY <1>0 DEF ToClientInv
<1>c. ASSUME Direction(mine2, got2, toClient', server', client') PROVE ToClientInv'
  BY <1>c DEF ToClientInv
<1>d. Connected \/ ClientReads \/ got2 = got
  BY <1>0, HearingSteps
<1>1. CASE ServerGreets
  <2>1. /\ server = "greeting" /\ client' = client
        /\ client' = "gone" \/ toClient' = EncodeFrame(Welcome)
        /\ heard' = heard /\ Write("server", Welcome)
    BY <1>1 DEF ServerGreets
  <2>2. Welcome \in Sent
    BY DEF Sent
  <2>3. mine2 = Append(mine, Welcome)
    BY <1>a, <2>1, <2>2, Writing
  <2>4. toClient = <<>> /\ EncodeFrame(Welcome) \in Seq(Tokens)
    BY <1>0, <2>1, <2>2, SentAreFrames, EncodedIsLine DEF PlaceInv, IsLine
  <2>5. client' = "gone" \/ toClient' = toClient \o EncodeFrame(Welcome)
    BY <2>1, <2>4, ConcatEmptySeq
  <2> HIDE DEF mine, mine2, got, got2
  <2>6. got2 = got
    BY <2>1 DEF got, got2
  <2>7. Direction(Append(mine, Welcome), got, toClient', server', client')
    BY <1>a, <1>b, <2>1, <2>2, <2>5, DirectionAppends
  <2>8. QED
    BY <1>c, <2>3, <2>6, <2>7
<1>2. ASSUME NEW frame \in Commands, ServerSends(frame) PROVE ToClientInv'
  <2>1. /\ server # "gone" /\ client' = client /\ toClient' = toClient \o EncodeFrame(frame)
        /\ heard' = heard /\ Write("server", frame)
    BY <1>2 DEF ServerSends, Registered
  <2>2. frame \in Sent
    BY DEF Sent
  <2>3. mine2 = Append(mine, frame)
    BY <1>a, <2>1, <2>2, Writing
  <2> HIDE DEF mine, mine2, got, got2
  <2>4. got2 = got
    BY <2>1 DEF got, got2
  <2>5. Direction(Append(mine, frame), got, toClient', server', client')
    BY <1>a, <1>b, <2>1, <2>2, DirectionAppends
  <2>6. QED
    BY <1>c, <2>3, <2>4, <2>5
<1>3. CASE Connected \/ ClientReads
  <2> DEFINE frame == Parse(NextLine(toClient), ServerKinds)
  <2>1. /\ client # "gone" /\ CanRead(toClient, server) /\ Hear("client", frame)
        /\ server' = server /\ sent' = sent
        /\ client' = "gone" \/ toClient' = Rest(toClient)
    BY <1>3 DEF Connected, ClientReads, ServerKinds
  <2>2. Direction(mine, got2, Rest(toClient), server, client)
    BY <1>0, <2>1, ClientHears
  <2>3. mine2 = mine
    BY <2>1
  <2> HIDE DEF mine, mine2, got, got2, frame
  <2>4. Direction(mine, got2, toClient', server', client')
    BY <2>1, <2>2, DirectionEnds
  <2>5. QED
    BY <1>c, <2>3, <2>4
<1>4. CASE (ServerReads \/ ServerGoes) /\ server' = "gone"
  <2>1. /\ server # "gone" /\ server' = "gone" /\ toClient' \in Cuts(toClient)
        /\ client' = client /\ sent' = sent
    BY <1>4 DEF ServerReads, ServerGoes
  <2>2. mine2 = mine
    BY <2>1
  <2> HIDE DEF mine, mine2, got, got2
  <2>3. Direction(mine, got, toClient', "gone", client)
    BY <1>a, <1>b, <2>1, DirectionCut
  <2>4. CASE Connected \/ ClientReads
    BY <1>3, <2>4
  <2>5. CASE got2 = got
    BY <1>c, <2>1, <2>2, <2>3, <2>5
  <2>6. QED
    BY <1>d, <2>4, <2>5
<1>5. CASE \/ \E hello \in Hellos : Connect(hello)
           \/ \E frame \in AgentFrames : ClientSends(frame)
           \/ ClientGoes \/ ServerAccepts \/ ServerRegisters
           \/ ServerReads /\ server' # "gone"
  <2>1. /\ client = "gone" => client' = "gone"
        /\ server = "gone" => server' = "gone"
        /\ client' = "gone" \/ toClient' = toClient
    BY <1>5 DEF Connect, ClientSends, ClientGoes, ServerAccepts, ServerRegisters, ServerReads
  <2>2. ASSUME NEW frame \in Hellos \cup AgentFrames, Write("client", frame) PROVE mine2 = mine
    <3>1. frame \in Sent
      BY DEF Sent
    <3>2. QED
      BY <1>a, <2>2, <3>1, Writing
  <2>3. mine2 = mine
    BY <1>5, <2>2 DEF Connect, ClientSends, ClientGoes, ServerAccepts, ServerRegisters, ServerReads
  <2> HIDE DEF mine, mine2, got, got2
  <2>4. CASE Connected \/ ClientReads
    BY <1>3, <2>4
  <2>5. CASE got2 = got
    <3>1. Direction(mine, got, toClient', server', client')
      BY <1>b, <2>1, DirectionEnds
    <3>2. QED
      BY <1>c, <2>3, <2>5, <3>1
  <2>6. QED
    BY <1>d, <2>4, <2>5
<1>6. ServerGoes => server' = "gone"
  BY DEF ServerGoes
<1>7. QED
  BY <1>0, <1>1, <1>2, <1>3, <1>4, <1>5, <1>6 DEF Next

LEMMA NothingSent ==
    ASSUME NEW writer, NEW reader, writer # "gone"
    PROVE  Direction(<<>>, <<>>, <<>>, writer, reader)
<1> DEFINE none == <<>>
           ends == [k \in 0..0 |-> 0]
           at == [i \in 1..0 |-> 0]
<1>1. Len(none) = 0 /\ none \in Seq(Tokens)
  OBVIOUS
<1> HIDE DEF none
<1>2. at \in [1..Len(none) -> 1..0] /\ 0 \in 0..Len(none)
  BY <1>1
<1>3. Reads(none, none, 0, at, writer)
  BY <1>1, <1>2 DEF Reads
<1>4. ends \in [0..Len(none) -> Nat] /\ ends[0] = 0
  BY <1>1
<1>5. \A k \in (0 + 1)..Len(none) : FALSE
  BY <1>1
<1>6. \A j \in 0..Len(none) : ends[j] = 0
  BY <1>1
<1>7. Waits(none, none, 0, ends, writer)
  BY <1>1, <1>4, <1>5, <1>6 DEF Waits
<1> HIDE DEF ends, at
<1>8. Direction(none, none, none, writer, reader)
  BY <1>2, <1>3, <1>4, <1>7 DEF Direction
<1>9. QED
  BY <1>8 DEF none

LEMMA InvHolds == Spec => []Inv
<1>1. Init => Inv
  <2> SUFFICES ASSUME Init PROVE Inv
    OBVIOUS
  <2>1. /\ client = "off" /\ server = "hello" /\ toServer = <<>> /\ toClient = <<>>
        /\ sent = [s \in Sides |-> <<>>] /\ heard = [s \in Sides |-> <<>>]
    BY DEF Init, Sides
  <2>2. /\ sent["client"] = <<>> /\ sent["server"] = <<>>
        /\ heard["client"] = <<>> /\ heard["server"] = <<>>
    BY <2>1 DEF Sides
  <2>3. TypeInv
    BY <2>1, <2>2 DEF TypeInv, Sides
  <2>4. PlaceInv /\ WrittenInv
    BY <2>1, <2>2 DEF PlaceInv, WrittenInv
  <2>5. AcceptInv
    BY <2>1, <2>2 DEF AcceptInv
  <2>6. DirectionInv
    BY <2>1, <2>2, NothingSent DEF DirectionInv
  <2>7. QED
    BY <2>3, <2>4, <2>5, <2>6 DEF Inv
<1>2. Inv /\ [Next]_vars => Inv'
  <2>1. ASSUME Inv, Next PROVE Inv'
    <3>1. TypeInv /\ PlaceInv /\ AcceptInv /\ WrittenInv /\ ToServerInv /\ ToClientInv
      BY <2>1 DEF Inv, DirectionInv, ToServerInv, ToClientInv
    <3>2. TypeInv' /\ PlaceInv' /\ AcceptInv' /\ WrittenInv'
      BY <2>1, <3>1, TypeStep, PlaceStep, AcceptStep, WrittenStep
    <3>3. ToServerInv' /\ ToClientInv'
      BY <2>1, <3>1, ToServerStep, ToClientStep
    <3>4. DirectionInv'
      BY <3>3 DEF DirectionInv, ToServerInv, ToClientInv
    <3>5. QED
      BY <3>2, <3>4 DEF Inv
  <2>2. ASSUME Inv, UNCHANGED vars PROVE Inv'
    BY <2>2 DEF vars, Inv, TypeInv, PlaceInv, AcceptInv, Accepted, WrittenInv, DirectionInv
  <2>3. QED
    BY <2>1, <2>2
<1>3. QED
  BY <1>1, <1>2, PTL DEF Spec

-----------------------------------------------------------------------------
(* What the invariant says of the frames heard.                             *)

LEMMA DirectionFollows ==
    ASSUME NEW all, NEW got, NEW stream, NEW writer, NEW reader, Len(all) \in Nat,
           Direction(all, got, stream, writer, reader)
    PROVE  \E at \in [1..Len(got) -> 1..Len(all)] :
              /\ Follows(at, got, all)
              /\ \A i \in 1..Len(got) :
                    /\ SameButLast(got[i], Carried(all[at[i]]))
                    /\ got[i] = Carried(all[at[i]]) \/ (writer = "gone" /\ at[i] = Len(all))
<1>0. PICK m \in 0..Len(all) : \E at \in [1..Len(got) -> 1..m] : Reads(all, got, m, at, writer)
  BY DEF Direction
<1>1. PICK at \in [1..Len(got) -> 1..m] : Reads(all, got, m, at, writer)
  BY <1>0
<1>2. at \in [1..Len(got) -> 1..Len(all)]
  BY <1>1
<1>3. ASSUME NEW i \in 1..Len(got), NEW k \in 1..at[i], Sendable(all[k])
      PROVE  \E j \in 1..Len(got) : at[j] = k
  <2>1. at[i] \in 1..m
    BY <1>1
  <2>2. k \in 1..m
    BY <1>1, <2>1
  <2>3. QED
    BY <1>1, <1>3, <2>2 DEF Reads
<1>4. Follows(at, got, all)
  BY <1>1, <1>3 DEF Reads, Follows
<1>5. QED
  BY <1>1, <1>2, <1>4 DEF Reads

LEMMA ServerFollows ==
    ASSUME Inv
    PROVE  \E at \in [1..Len(heard["server"]) -> 1..Len(sent["client"])] :
              /\ Follows(at, heard["server"], sent["client"])
              /\ \A i \in 1..Len(heard["server"]) :
                    /\ SameButLast(heard["server"][i], Carried(sent["client"][at[i]]))
                    /\ \/ heard["server"][i] = Carried(sent["client"][at[i]])
                       \/ client = "gone" /\ at[i] = Len(sent["client"])
<1>1. Len(sent["client"]) \in Nat
  BY LenProperties DEF Inv, TypeInv, Sides
<1>2. Direction(sent["client"], heard["server"], toServer, client, server)
  BY DEF Inv, DirectionInv
<1>3. QED
  BY <1>1, <1>2, DirectionFollows

LEMMA ClientFollows ==
    ASSUME Inv
    PROVE  \E at \in [1..Len(heard["client"]) -> 1..Len(sent["server"])] :
              /\ Follows(at, heard["client"], sent["server"])
              /\ \A i \in 1..Len(heard["client"]) :
                    /\ SameButLast(heard["client"][i], Carried(sent["server"][at[i]]))
                    /\ \/ heard["client"][i] = Carried(sent["server"][at[i]])
                       \/ server = "gone" /\ at[i] = Len(sent["server"])
<1>1. Len(sent["server"]) \in Nat
  BY LenProperties DEF Inv, TypeInv, Sides
<1>2. Direction(sent["server"], heard["client"], toClient, server, client)
  BY DEF Inv, DirectionInv
<1>3. QED
  BY <1>1, <1>2, DirectionFollows

LEMMA InvTyped == Inv => TypeOK
<1> SUFFICES ASSUME Inv PROVE TypeOK
  OBVIOUS
<1>1. TypeInv
  BY DEF Inv
<1>2. ASSUME NEW kinds, kinds \subseteq Kinds, NEW got \in Seq(Heard(kinds)), NEW i \in DOMAIN got
      PROVE  got[i].kind \in kinds /\ DOMAIN got[i].fields = DOMAIN Schema[got[i].kind]
  <2>1. got[i] \in Heard(kinds)
    BY <1>2, ElementOfSeq, LenProperties
  <2>2. QED
    BY <1>2, <2>1, HeardFrames
<1>3. \A i \in DOMAIN heard["server"] :
         /\ heard["server"][i].kind \in AgentKinds
         /\ DOMAIN heard["server"][i].fields = DOMAIN Schema[heard["server"][i].kind]
  BY <1>1, <1>2, KindsOfSides DEF TypeInv
<1>4. \A i \in DOMAIN heard["client"] :
         /\ heard["client"][i].kind \in Kinds \ AgentKinds
         /\ DOMAIN heard["client"][i].fields = DOMAIN Schema[heard["client"][i].kind]
  <2>1. \A i \in DOMAIN heard["client"] :
         /\ heard["client"][i].kind \in ServerKinds
         /\ DOMAIN heard["client"][i].fields = DOMAIN Schema[heard["client"][i].kind]
    BY <1>1, <1>2, KindsOfSides DEF TypeInv
  <2>2. QED
    BY <2>1 DEF ServerKinds
<1>5. QED
  BY <1>1, <1>3, <1>4 DEF TypeInv, TypeOK

LEMMA InvSurvives == Inv => FramesSurvive
<1> SUFFICES ASSUME Inv PROVE FramesSurvive
  OBVIOUS
<1>1. Len(sent["client"]) \in Nat /\ Len(sent["server"]) \in Nat
  BY LenProperties DEF Inv, TypeInv, Sides
<1>2. Peer("server") = "client" /\ Peer("client") = "server"
  BY DEF Peer
<1>3. client = "gone" => MayBeCut("server", Len(sent["client"]))
  BY <1>1, <1>2 DEF MayBeCut, HasGone
<1>4. server = "gone" => MayBeCut("client", Len(sent["server"]))
  BY <1>1, <1>2 DEF MayBeCut, HasGone
<1>5. \E at \in [1..Len(heard["server"]) -> 1..Len(sent["client"])] :
         /\ Follows(at, heard["server"], sent["client"])
         /\ \A i \in 1..Len(heard["server"]) :
               heard["server"][i] = Carried(sent["client"][at[i]]) \/ MayBeCut("server", at[i])
  BY <1>3, ServerFollows
<1>6. \E at \in [1..Len(heard["client"]) -> 1..Len(sent["server"])] :
         /\ Follows(at, heard["client"], sent["server"])
         /\ \A i \in 1..Len(heard["client"]) :
               heard["client"][i] = Carried(sent["server"][at[i]]) \/ MayBeCut("client", at[i])
  BY <1>4, ClientFollows
<1>7. QED
  BY <1>2, <1>5, <1>6 DEF FramesSurvive

LEMMA InvCuts == Inv => CutLosesOnlyTheLastField
<1> SUFFICES ASSUME Inv PROVE CutLosesOnlyTheLastField
  OBVIOUS
<1>1. Peer("server") = "client" /\ Peer("client") = "server"
  BY DEF Peer
<1>2. \E at \in [1..Len(heard["server"]) -> 1..Len(sent["client"])] :
         /\ Follows(at, heard["server"], sent["client"])
         /\ \A i \in 1..Len(heard["server"]) :
               SameButLast(heard["server"][i], Carried(sent["client"][at[i]]))
  BY ServerFollows
<1>3. \E at \in [1..Len(heard["client"]) -> 1..Len(sent["server"])] :
         /\ Follows(at, heard["client"], sent["server"])
         /\ \A i \in 1..Len(heard["client"]) :
               SameButLast(heard["client"][i], Carried(sent["server"][at[i]]))
  BY ClientFollows
<1>4. QED
  BY <1>1, <1>2, <1>3 DEF CutLosesOnlyTheLastField

(* WELCOME is the first frame the server writes and the only one, and it    *)
(* lacks nothing: the client hears it first and does not hear it again.     *)
LEMMA InvHandshake == Inv => HandshakeFirst
<1> SUFFICES ASSUME Inv PROVE HandshakeFirst
  OBVIOUS
<1> DEFINE got == heard["client"]
           all == sent["server"]
           mine == heard["server"]
<1>1. /\ got \in Seq(Heard(ServerKinds)) /\ mine \in Seq(Heard(AgentKinds)) /\ all \in Seq(Sent)
      /\ \A k \in 1..Len(all) : IF k = 1 THEN all[k] = Welcome ELSE all[k] \in Commands
      /\ PlaceInv /\ AcceptInv
  BY DEF Inv, TypeInv, WrittenInv, Sides
<1>2. PICK at \in [1..Len(got) -> 1..Len(all)] :
         /\ Follows(at, got, all)
         /\ \A i \in 1..Len(got) : SameButLast(got[i], Carried(all[at[i]]))
  BY ClientFollows
<1> HIDE DEF got, all, mine
<1>3. /\ DOMAIN got = 1..Len(got) /\ Len(got) \in Nat /\ Len(all) \in Nat
      /\ DOMAIN mine = 1..Len(mine) /\ Len(mine) \in Nat
  BY <1>1, LenProperties
<1>4. \A i \in 1..Len(got) : got[i].kind = all[at[i]].kind
  <2>1. ASSUME NEW i \in 1..Len(got) PROVE got[i].kind = all[at[i]].kind
    <3>1. SameButLast(got[i], Carried(all[at[i]])) /\ all[at[i]] \in Sent
      BY <1>1, <1>2, ElementOfSeq
    <3>2. Carried(all[at[i]]).kind = all[at[i]].kind
      BY <3>1, SentAreFrames, CarriedFacts
    <3>3. QED
      BY <3>1, <3>2 DEF SameButLast
  <2>2. QED
    BY <2>1
<1>5. ASSUME NEW i \in 1..Len(got) PROVE at[i] = 1 <=> i = 1
  <2>1. at[i] \in 1..Len(all) /\ 1 \in 1..at[i] /\ 1 \in 1..Len(all)
    BY <1>2, <1>3
  <2>2. all[1] = Welcome /\ Sendable(all[1])
    BY <1>1, <2>1, WelcomeIsFrame
  <2>3. PICK j \in 1..Len(got) : at[j] = 1
    BY <1>2, <2>1, <2>2 DEF Follows
  <2>4. 1 \in 1..Len(got) /\ at[1] \in 1..Len(all)
    BY <1>2, <1>3
  <2>5. at[1] = 1
    <3>1. 1 < j => at[1] < at[j]
      BY <1>2, <2>4 DEF Follows
    <3>2. QED
      BY <1>3, <2>3, <2>4, <3>1
  <2>6. 1 < i => at[1] < at[i]
    BY <1>2, <2>4 DEF Follows
  <2>7. QED
    BY <1>3, <2>1, <2>5, <2>6
<1>6. ASSUME NEW i \in 1..Len(got) PROVE got[i].kind = "WELCOME" <=> i = 1
  <2>1. at[i] \in 1..Len(all)
    BY <1>2
  <2>2. IF at[i] = 1 THEN all[at[i]] = Welcome ELSE all[at[i]] \in Commands
    BY <1>1, <2>1
  <2>3. Welcome.kind = "WELCOME" /\ \A command \in Commands : command.kind # "WELCOME"
    BY WireAssumption DEF Welcome
  <2>4. all[at[i]].kind = "WELCOME" <=> at[i] = 1
    BY <2>2, <2>3
  <2>5. QED
    BY <1>4, <1>5, <2>4
<1>7. \A i \in DOMAIN got : got[i].kind = "WELCOME" <=> i = 1
  BY <1>3, <1>6
<1>8. \A i \in DOMAIN mine : i = 1 \/ mine[1].kind = "HELLO"
  <2>1. Len(mine) > 1 => mine[1].kind = "HELLO"
    BY <1>1 DEF AcceptInv, Accepted, mine
  <2>2. \A i \in DOMAIN mine : i = 1 \/ Len(mine) > 1
    BY <1>3
  <2>3. QED
    BY <2>1, <2>2
<1>9. client = "ready" => mine # <<>> /\ mine[1].fields = Known
  <2>1. SUFFICES ASSUME client = "ready" PROVE mine # <<>> /\ mine[1].fields = Known
    OBVIOUS
  <2>2. got # <<>>
    BY <1>1, <2>1 DEF PlaceInv, got
  <2>3. 1 \in 1..Len(got)
    BY <1>1, <1>3, <2>2, EmptySeq
  <2>4. at[1] \in 1..Len(all)
    BY <1>2, <2>3
  <2>5. all # <<>>
    BY <2>4
  <2>6. QED
    BY <1>1, <2>5 DEF AcceptInv, Accepted, all, mine
<1>10. QED
  BY <1>7, <1>8, <1>9 DEF HandshakeFirst, got, mine

-----------------------------------------------------------------------------
(* The theorems.                                                            *)

(* Each side hears only frames of the kinds the other one may send, with    *)
(* all the fields of their kind: parse_agent_line and parse_server_line     *)
(* let nothing else through, whatever the stream holds and wherever it is   *)
(* cut (protocol.rs).                                                       *)
THEOREM WireTypeCorrect == Spec => []TypeOK
  BY InvHolds, InvTyped, PTL

(* For all frames with all texts, however many are sent:                    *)
(* encode_agent_frame, encode_server_frame, field() and split('\t')         *)
(* together neither split, glue, drop, change nor reorder a frame; one that *)
(* lacks a required value disappears alone, and only the last of a writer   *)
(* that has gone may differ from what was sent.                             *)
THEOREM FramesArrive == Spec => []FramesSurvive
  BY InvHolds, InvSurvives, PTL

(* The connection may end in the middle of a frame: the count of its fields *)
(* keeps parse_server_line from taking what is left of a command for a      *)
(* whole one, but for a shorter last field.                                 *)
THEOREM CutsAreBounded == Spec => []CutLosesOnlyTheLastField
  BY InvHolds, InvCuts, PTL

(* handle_connection and CopierClient::connect: the first frame either side *)
(* hears is that of the handshake, and no client takes a connection for     *)
(* accepted that the server has not accepted.                               *)
THEOREM HandshakeComesFirst == Spec => []HandshakeFirst
  BY InvHolds, InvHandshake, PTL
=============================================================================
