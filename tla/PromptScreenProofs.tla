------------------------- MODULE PromptScreenProofs -------------------------
(***************************************************************************)
(* What is read off a Codex pane is what the pane shows, for any views, any *)
(* width and any number of redraws: the properties of PromptScreen.        *)
(*                                                                         *)
(* Decoding is recursion along a row and from row to row; what it computes *)
(* is proved by way of the least place where it would go wrong.            *)
(***************************************************************************)
EXTENDS PromptScreen, WellFoundedInduction, SequenceTheorems, FiniteSetTheorems, TLAPS

----------------------------------------------------------------------------
(* Numbers and recursion.                                                  *)

\* A set of natural numbers has a least one.
LEMMA LeastNumber ==
  ASSUME NEW T, T \subseteq Nat, T # {}
  PROVE  \E m \in T : \A k \in T : m <= k
<1> DEFINE R == {p \in Nat \X Nat : p[1] < p[2]}
<1>1. IsWellFoundedOn(R, Nat)
  BY NatLessThanWellFounded DEF OpToRel
<1>2. PICK m \in T : \A k \in T : ~(<<k, m>> \in R)
  <2> HIDE DEF R
  <2> QED
    BY <1>1, WFMin
<1>3. ASSUME NEW k \in T PROVE m <= k
  <2>1. ~(<<k, m>> \in R)
    BY <1>2
  <2>2. k \in Nat /\ m \in Nat
    OBVIOUS
  <2>3. ~(k < m)
    BY <2>1, <2>2
  <2> QED
    BY <2>2, <2>3
<1> QED
  BY <1>3

\* What holds of 0, and of a number when it holds of the one before, holds of all
\* numbers up to n: the first for which it did not would refute itself.
LEMMA SetInduction ==
  ASSUME NEW n \in Nat, NEW S, 0 \in S, \A i \in 1 .. n : i - 1 \in S => i \in S
  PROVE  \A i \in 0 .. n : i \in S
<1> SUFFICES ASSUME NEW i \in 0 .. n, i \notin S PROVE FALSE
  OBVIOUS
<1> DEFINE T == {k \in 0 .. n : k \notin S}
<1>1. PICK m \in T : \A k \in T : m <= k
  <2>1. T \subseteq Nat /\ T # {}
    OBVIOUS
  <2> HIDE DEF T
  <2> QED
    BY <2>1, LeastNumber
<1>2. m \in 1 .. n /\ m \notin S
  OBVIOUS
<1>3. m - 1 \in 0 .. n /\ ~(m <= m - 1)
  BY <1>2
<1>4. m - 1 \in S
  BY <1>1, <1>3
<1> QED
  BY <1>2, <1>4

\* f starts with a, and G makes each of its values from the one before.
IsRecursion(f, S, a, n, G) ==
  f \in [0 .. n -> S] /\ f[0] = a /\ \A i \in 1 .. n : f[i] = G[<<f[i - 1], i>>]

\* A recursion over the numbers up to n has a solution.
LEMMA RecursionExists ==
  ASSUME NEW S, NEW a \in S, NEW n \in Nat, NEW G \in [S \X (1 .. n) -> S]
  PROVE  \E f : IsRecursion(f, S, a, n, G)
<1> USE DEF IsRecursion
<1> DEFINE Is(m, f) == IsRecursion(f, S, a, m, G)
           T == {m \in 0 .. n : \E f : Is(m, f)}
<1>1. 0 \in T
  <2>1. Is(0, [i \in 0 .. 0 |-> a])
    OBVIOUS
  <2> HIDE DEF Is
  <2> QED
    BY <2>1
<1>2. ASSUME NEW m \in 1 .. n, m - 1 \in T PROVE m \in T
  <2>1. PICK f : Is(m - 1, f)
    BY <1>2
  <2> DEFINE g == [i \in 0 .. m |-> IF i = m THEN G[<<f[m - 1], m>>] ELSE f[i]]
  <2>2. \A i \in 1 .. m : i - 1 \in 0 .. m - 1 /\ (i # m => i \in 1 .. m - 1)
    OBVIOUS
  <2>3. g \in [0 .. m -> S]
    <3>1. m - 1 \in 0 .. m - 1 /\ m \in 1 .. n
      OBVIOUS
    <3>2. G[<<f[m - 1], m>>] \in S
      BY <2>1, <3>1
    <3> QED
      BY <2>1, <3>2
  <2>5. ASSUME NEW i \in 1 .. m PROVE g[i] = G[<<g[i - 1], i>>]
    <3>1. g[i - 1] = f[i - 1]
      BY <2>2
    <3>2. CASE i = m
      <4>1. g[m] = G[<<f[m - 1], m>>]
        OBVIOUS
      <4>2. g[m - 1] = f[m - 1]
        BY <3>1, <3>2
      <4> HIDE DEF g
      <4> QED
        BY <3>2, <4>1, <4>2
    <3>3. CASE i # m
      <4>1. g[i] = f[i] /\ i \in 1 .. m - 1
        BY <3>3
      <4> QED
        BY <4>1, <3>1, <2>1
    <3> QED
      BY <3>2, <3>3
  <2>6. g[0] = a
    BY <2>1
  <2>4. Is(m, g)
    <3> HIDE DEF g
    <3> QED
      BY <2>3, <2>5, <2>6
  <2> HIDE DEF Is, g
  <2> QED
    BY <2>4
<1>3. n \in T
  <2> HIDE DEF T
  <2> QED
    BY <1>1, <1>2, SetInduction
<1> QED
  BY <1>3

----------------------------------------------------------------------------
(* The decoder's pen.                                                      *)

\* A sequence of one parameter or of three is applied parameter by parameter.
LEMMA SgrByParameter ==
  ASSUME NEW faint, NEW p, NEW n \in {1, 3}, Len(p) = n, p # <<>>,
         NEW a, a = [faint |-> faint, skip |-> 0]
  PROVE  /\ n = 1 => ApplySgr(faint, p) = Parameter(a, p[1]).faint
         /\ n = 3 => ApplySgr(faint, p) =
                       Parameter(Parameter(Parameter(a, p[1]), p[2]), p[3]).faint
<1> DEFINE Is(g) == g = [i \in 0 .. n |-> IF i = 0 THEN a ELSE Parameter(g[i - 1], p[i])]
           f == [i \in 0 .. n |-> IF i = 0 THEN a ELSE IF i = 1 THEN Parameter(a, p[1])
                  ELSE IF i = 2 THEN Parameter(Parameter(a, p[1]), p[2])
                  ELSE Parameter(Parameter(Parameter(a, p[1]), p[2]), p[3])]
           s == CHOOSE g : Is(g)
<1>1. Is(f)
  <2>1. ASSUME NEW i \in 0 .. n, i # 0
        PROVE  f[i] = Parameter(f[i - 1], p[i])
    <3>1. i - 1 \in 0 .. n /\ i \in {1, 2, 3}
      BY <2>1
    <3>2. f[i - 1] = IF i = 1 THEN a ELSE IF i = 2 THEN Parameter(a, p[1])
                     ELSE Parameter(Parameter(a, p[1]), p[2])
      BY <3>1
    <3>3. f[i] = IF i = 1 THEN Parameter(a, p[1])
                 ELSE IF i = 2 THEN Parameter(Parameter(a, p[1]), p[2])
                 ELSE Parameter(Parameter(Parameter(a, p[1]), p[2]), p[3])
      BY <3>1
    <3> HIDE DEF f
    <3> QED
      BY <3>1, <3>2, <3>3
  <2>2. \A i \in 0 .. n : f[i] = IF i = 0 THEN a ELSE Parameter(f[i - 1], p[i])
    BY <2>1
  <2>3. f = [i \in 0 .. n |-> f[i]]
    OBVIOUS
  <2> HIDE DEF f
  <2> QED
    BY <2>2, <2>3
<1>2. Is(s)
  <2> HIDE DEF Is, f
  <2> QED
    BY <1>1
<1>3. ApplySgr(faint, p) = s[n].faint
  BY DEF ApplySgr
<1> HIDE DEF s
<1>4. s[0] = a /\ s[1] = Parameter(s[0], p[1])
  BY <1>2
<1>5. n = 3 => s[2] = Parameter(s[1], p[2]) /\ s[3] = Parameter(s[2], p[3])
  BY <1>2
<1> QED
  BY <1>3, <1>4, <1>5

\* What the sequences tmux sends do to the pen.
LEMMA ApplySgrIs ==
  ASSUME NEW faint
  PROVE  /\ ApplySgr(faint, <<0>>) = FALSE
         /\ ApplySgr(faint, <<2>>) = TRUE
         /\ ApplySgr(faint, <<39>>) = faint
         /\ ApplySgr(faint, <<38, 5, 2>>) = faint
<1> DEFINE a == [faint |-> faint, skip |-> 0]
<1>1. \A x : <<x>> # <<>> /\ Len(<<x>>) = 1 /\ <<x>>[1] = x
  OBVIOUS
<1>2. \A x : ApplySgr(faint, <<x>>) = Parameter(a, x).faint
  <2> HIDE DEF a
  <2> QED
    BY <1>1, SgrByParameter DEF a
<1>3. Parameter(a, 0).faint = FALSE
  <2>1. Parameter(a, 0) = Operation(a, 0)
    BY DEF Parameter, ModeNext
  <2>2. Operation(a, 0) = [a EXCEPT !.faint = FALSE]
    <3> HIDE DEF a
    <3> QED
      BY DEF Operation
  <2>3. "faint" \in DOMAIN a
    OBVIOUS
  <2> HIDE DEF a
  <2> QED
    BY <2>1, <2>2, <2>3, Zenon
<1>4. Parameter(a, 2).faint = TRUE
  <2>1. Parameter(a, 2) = Operation(a, 2)
    BY DEF Parameter, ModeNext
  <2>2. Operation(a, 2) = [a EXCEPT !.faint = TRUE]
    <3> HIDE DEF a
    <3> QED
      BY DEF Operation
  <2>3. "faint" \in DOMAIN a
    OBVIOUS
  <2> HIDE DEF a
  <2> QED
    BY <2>1, <2>2, <2>3, Zenon
<1>5. Parameter(a, 39) = a
  BY DEF Parameter, Operation, ModeNext
<1>6. Parameter(a, 38) = [faint |-> faint, skip |-> 9]
  BY DEF Parameter, Operation, ModeNext
<1>7. Parameter([faint |-> faint, skip |-> 9], 5) = [faint |-> faint, skip |-> 1]
  BY DEF Parameter, ExtendedColor, ModeNext
<1>8. Parameter([faint |-> faint, skip |-> 1], 2) = a
  BY DEF Parameter, ModeNext
<1>9. ApplySgr(faint, <<38, 5, 2>>) = Parameter(Parameter(Parameter(a, 38), 5), 2).faint
  <2> DEFINE p == <<38, 5, 2>>
  <2>1. p # <<>> /\ Len(p) = 3 /\ p[1] = 38 /\ p[2] = 5 /\ p[3] = 2
    OBVIOUS
  <2>2. a = [faint |-> faint, skip |-> 0]
    OBVIOUS
  <2> HIDE DEF p, a
  <2>3. ApplySgr(faint, p) = Parameter(Parameter(Parameter(a, p[1]), p[2]), p[3]).faint
    BY <2>1, <2>2, SgrByParameter
  <2> QED
    BY <2>1, <2>3 DEF p
<1> QED
  <2>1. a.faint = faint
    OBVIOUS
  <2> HIDE DEF a
  <2>2. Parameter(Parameter(Parameter(a, 38), 5), 2) = a
    BY <1>6, <1>7, <1>8
  <2> QED
    BY <1>2, <1>3, <1>4, <1>5, <1>9, <2>1, <2>2

\* At most two sequences are applied one after the other.
LEMMA PenBySequence ==
  ASSUME NEW faint, NEW codes, NEW n \in 0 .. 2, Len(codes) = n
  PROVE  /\ n = 0 => PenAfter(faint, codes) = faint
         /\ n = 1 => PenAfter(faint, codes) = ApplySgr(faint, codes[1])
         /\ n = 2 => PenAfter(faint, codes) = ApplySgr(ApplySgr(faint, codes[1]), codes[2])
<1> DEFINE Is(g) == g = [i \in 0 .. n |-> IF i = 0 THEN faint ELSE ApplySgr(g[i - 1], codes[i])]
           f == [i \in 0 .. n |-> IF i = 0 THEN faint ELSE IF i = 1 THEN ApplySgr(faint, codes[1])
                  ELSE ApplySgr(ApplySgr(faint, codes[1]), codes[2])]
           pen == CHOOSE g : Is(g)
<1>1. Is(f)
  <2>1. ASSUME NEW i \in 0 .. n, i # 0
        PROVE  f[i] = ApplySgr(f[i - 1], codes[i])
    <3>1. i - 1 \in 0 .. n /\ i \in {1, 2}
      BY <2>1
    <3>2. f[i - 1] = IF i = 1 THEN faint ELSE ApplySgr(faint, codes[1])
      BY <3>1
    <3>3. f[i] = IF i = 1 THEN ApplySgr(faint, codes[1])
                 ELSE ApplySgr(ApplySgr(faint, codes[1]), codes[2])
      BY <3>1
    <3> HIDE DEF f
    <3> QED
      BY <3>1, <3>2, <3>3
  <2>2. \A i \in 0 .. n : f[i] = IF i = 0 THEN faint ELSE ApplySgr(f[i - 1], codes[i])
    BY <2>1
  <2>3. f = [i \in 0 .. n |-> f[i]]
    OBVIOUS
  <2> HIDE DEF f
  <2> QED
    BY <2>2, <2>3
<1>2. Is(pen)
  <2> HIDE DEF Is, f
  <2> QED
    BY <1>1
<1>3. PenAfter(faint, codes) = pen[n]
  BY DEF PenAfter
<1> HIDE DEF pen
<1>4. pen[0] = faint
  BY <1>2
<1>5. n > 0 => pen[1] = ApplySgr(pen[0], codes[1])
  BY <1>2
<1>6. n = 2 => pen[2] = ApplySgr(pen[1], codes[2])
  BY <1>2
<1> QED
  BY <1>3, <1>4, <1>5, <1>6

\* The decoder's pen follows tmux's: where no link begins or ends, it is faint
\* behind the sequences exactly when the next cell is.
LEMMA PenFollows ==
  ASSUME NEW from \in Pen \ {"link"}, NEW to \in Pen \ {"link"}
  PROVE  PenAfter(from = "faint", Change(from, to)) = (to = "faint")
<1> DEFINE b == from = "faint"
           c == Change(from, to)
<1>1. \A s : Len(<<s>>) = 1 /\ <<s>>[1] = s
  OBVIOUS
<1>2. \A s, t : Len(<<s, t>>) = 2 /\ <<s, t>>[1] = s /\ <<s, t>>[2] = t
  OBVIOUS
<1>3. Len(<<>>) = 0
  OBVIOUS
<1>4. \A f : PenAfter(f, <<>>) = f
  BY <1>3, PenBySequence
<1>5. \A f, s : PenAfter(f, <<s>>) = ApplySgr(f, s)
  BY <1>1, PenBySequence
<1>6. \A f, s, t : PenAfter(f, <<s, t>>) = ApplySgr(ApplySgr(f, s), t)
  BY <1>2, PenBySequence
<1>14. \A f : ApplySgr(f, <<0>>) = FALSE /\ ApplySgr(f, <<2>>) = TRUE
              /\ ApplySgr(f, <<39>>) = f /\ ApplySgr(f, <<38, 5, 2>>) = f
  BY ApplySgrIs
<1>7. CASE from = to
  <2>1. c = <<>>
    BY <1>7 DEF Change
  <2> QED
    BY <2>1, <1>4, <1>7
<1>8. CASE from = "faint" /\ to = "plain"
  <2>1. c = << <<0>> >>
    BY <1>8 DEF Change
  <2> HIDE DEF b, c
  <2>2. PenAfter(b, c) = ApplySgr(b, <<0>>)
    BY <2>1, <1>5
  <2>3. PenAfter(b, c) = FALSE
    BY <2>2, <1>14
  <2> QED
    BY <2>3, <1>8 DEF b, c
<1>9. CASE from = "green" /\ to = "plain"
  <2>1. c = << <<39>> >>
    BY <1>9 DEF Change
  <2> HIDE DEF b, c
  <2>2. PenAfter(b, c) = ApplySgr(b, <<39>>)
    BY <2>1, <1>5
  <2>3. PenAfter(b, c) = b
    BY <2>2, <1>14
  <2> QED
    BY <2>3, <1>9 DEF b, c
<1>10. CASE from = "plain" /\ to = "faint"
  <2>1. c = << <<2>> >>
    BY <1>10 DEF Change
  <2> HIDE DEF b, c
  <2>2. PenAfter(b, c) = ApplySgr(b, <<2>>)
    BY <2>1, <1>5
  <2>3. PenAfter(b, c) = TRUE
    BY <2>2, <1>14
  <2> QED
    BY <2>3, <1>10 DEF b, c
<1>11. CASE from = "green" /\ to = "faint"
  <2>1. c = << <<2>>, <<39>> >>
    BY <1>11 DEF Change
  <2> HIDE DEF b, c
  <2>2. PenAfter(b, c) = ApplySgr(ApplySgr(b, <<2>>), <<39>>)
    BY <2>1, <1>6
  <2>3. PenAfter(b, c) = TRUE
    BY <2>2, <1>14
  <2> QED
    BY <2>3, <1>11 DEF b, c
<1>12. CASE from = "plain" /\ to = "green"
  <2>1. c = << <<38, 5, 2>> >>
    BY <1>12 DEF Change
  <2> HIDE DEF b, c
  <2>2. PenAfter(b, c) = ApplySgr(b, <<38, 5, 2>>)
    BY <2>1, <1>5
  <2>3. PenAfter(b, c) = b
    BY <2>2, <1>14
  <2> QED
    BY <2>3, <1>12 DEF b, c
<1>13. CASE from = "faint" /\ to = "green"
  <2>1. c = << <<0>>, <<38, 5, 2>> >>
    BY <1>13 DEF Change
  <2> HIDE DEF b, c
  <2>2. PenAfter(b, c) = ApplySgr(ApplySgr(b, <<0>>), <<38, 5, 2>>)
    BY <2>1, <1>6
  <2>3. PenAfter(b, c) = FALSE
    BY <2>2, <1>14
  <2> QED
    BY <2>3, <1>13 DEF b, c
<1> QED
  BY <1>7, <1>8, <1>9, <1>10, <1>11, <1>12, <1>13 DEF Pen

\* tmux keeps its pen from row to row: the pen behind each row of a capture.
PenAt(rows, pen, y, x) == IF x = 0 THEN pen[y - 1] ELSE rows[y][x][2]

IsPen(rows, pen) ==
  /\ pen \in [0 .. Len(rows) -> Pen] /\ pen[0] = "plain"
  /\ \A y \in 1 .. Len(rows) : pen[y] = PenAt(rows, pen, y, Len(rows[y]))

\* A capture: the rows, each cell with the sequences from the pen before it.
StyledWith(rows, pen) ==
  [y \in 1 .. Len(rows) |-> [x \in 1 .. Len(rows[y]) |->
     [token |-> rows[y][x][1],
      codes |-> Change(PenAt(rows, pen, y, x - 1), rows[y][x][2])]]]

\* Every capture has pens behind its rows.
LEMMA StyledIs ==
  ASSUME NEW rows \in Seq(Seq(Cell))
  PROVE  \E pen : IsPen(rows, pen) /\ Styled(rows) = StyledWith(rows, pen)
<1> DEFINE n == Len(rows)
           Behind(p, y) == IF rows[y] = <<>> THEN p ELSE Last(rows[y])[2]
           Is(g) == g = [y \in 0 .. n |-> IF y = 0 THEN "plain" ELSE Behind(g[y - 1], y)]
           G == [q \in Pen \X (1 .. n) |-> Behind(q[1], q[2])]
           pen == CHOOSE g : Is(g)
<1>1. n \in Nat /\ \A y \in 1 .. n : rows[y] \in Seq(Cell) /\ Len(rows[y]) \in Nat
  OBVIOUS
<1>2. \A y \in 1 .. n : \A x \in 1 .. Len(rows[y]) :
        rows[y][x] \in Cell /\ rows[y][x][2] \in Pen
  <2>1. \A y \in 1 .. n : \A x \in 1 .. Len(rows[y]) : rows[y][x] \in Cell
    BY <1>1, ElementOfSeq
  <2> QED
    BY <2>1 DEF Cell
<1>3. \A y \in 1 .. n : \A p : Behind(p, y) = IF Len(rows[y]) = 0 THEN p ELSE rows[y][Len(rows[y])][2]
  BY <1>1 DEF Last
<1>4. "plain" \in Pen
  BY DEF Pen
<1> HIDE DEF Behind, n
<1>5. G \in [Pen \X (1 .. n) -> Pen]
  <2>1. \A p \in Pen, y \in 1 .. n : Behind(p, y) \in Pen
    BY <1>1, <1>2, <1>3
  <2>2. \A q \in Pen \X (1 .. n) : Behind(q[1], q[2]) \in Pen
    BY <2>1
  <2> QED
    BY <2>2
<1>6. PICK f \in [0 .. n -> Pen] : f[0] = "plain" /\ \A y \in 1 .. n : f[y] = G[<<f[y - 1], y>>]
  <2> DEFINE a == "plain"
  <2>1. a \in Pen
    BY <1>4
  <2> HIDE DEF G, a
  <2>2. \E f : IsRecursion(f, Pen, a, n, G)
    BY <1>1, <1>5, <2>1, RecursionExists
  <2> QED
    BY <2>2 DEF a, IsRecursion
<1>7. \A y \in 1 .. n : f[y - 1] \in Pen /\ f[y] = Behind(f[y - 1], y)
  <2>1. \A y \in 1 .. n : y - 1 \in 0 .. n
    BY <1>1
  <2>2. \A y \in 1 .. n : f[y - 1] \in Pen
    BY <2>1
  <2>3. \A y \in 1 .. n : G[<<f[y - 1], y>>] = Behind(f[y - 1], y)
    BY <2>2
  <2> QED
    BY <2>2, <2>3, <1>6
<1>8. Is(f)
  <2>1. \A y \in 0 .. n : y # 0 => y \in 1 .. n
    BY <1>1
  <2>2. \A y \in 0 .. n : f[y] = IF y = 0 THEN "plain" ELSE Behind(f[y - 1], y)
    BY <1>6, <1>7, <2>1
  <2>3. f = [y \in 0 .. n |-> f[y]]
    OBVIOUS
  <2> QED
    BY <2>2, <2>3
<1>9. Is(pen)
  <2> HIDE DEF Is
  <2> QED
    BY <1>8
<1>10. Styled(rows) =
         [y \in 1 .. Len(rows) |-> [x \in 1 .. Len(rows[y]) |->
            [token |-> rows[y][x][1],
             codes |-> Change(IF x = 1 THEN pen[y - 1] ELSE rows[y][x - 1][2], rows[y][x][2])]]]
  BY DEF Styled, Behind, n
<1> HIDE DEF pen
<1>11. pen[0] = "plain" /\ \A y \in 1 .. n : pen[y] = Behind(pen[y - 1], y)
  <2>1. 0 \in 0 .. n /\ \A y \in 1 .. n : y \in 0 .. n /\ y # 0
    BY <1>1
  <2> QED
    BY <1>9, <2>1
<1> HIDE DEF Is
<1>12. \A y \in 0 .. n : pen[y] \in Pen
  <2> DEFINE T == {y \in 0 .. n : pen[y] \in Pen}
  <2>1. 0 \in T
    BY <1>1, <1>4, <1>11
  <2>2. ASSUME NEW y \in 1 .. n, y - 1 \in T PROVE y \in T
    <3>1. Behind(pen[y - 1], y) \in Pen
      BY <1>1, <1>2, <1>3, <2>2
    <3> QED
      BY <3>1, <1>1, <1>11
  <2>3. \A y \in 0 .. n : y \in T
    <3> HIDE DEF T
    <3> QED
      BY <1>1, <2>1, <2>2, SetInduction
  <2> QED
    BY <2>3
<1>13. IsPen(rows, pen)
  <2>1. pen = [y \in 0 .. n |-> pen[y]]
    BY <1>9 DEF Is
  <2>2. pen \in [0 .. n -> Pen]
    BY <1>12, <2>1
  <2> QED
    BY <1>11, <1>3, <2>2 DEF IsPen, PenAt, n
<1>14. ASSUME NEW y \in 1 .. n, NEW x \in 1 .. Len(rows[y])
       PROVE  (IF x = 1 THEN pen[y - 1] ELSE rows[y][x - 1][2]) = PenAt(rows, pen, y, x - 1)
  BY <1>1 DEF PenAt
<1>15. Styled(rows) = StyledWith(rows, pen)
  BY <1>10, <1>14 DEF n, StyledWith
<1> QED
  BY <1>13, <1>15

\* A cell of a row: the pens are pens.
LEMMA PensArePens ==
  ASSUME NEW rows \in Seq(Seq(Cell)), NEW pen, IsPen(rows, pen),
         NEW y \in 1 .. Len(rows)
  PROVE  /\ Len(rows) \in Nat /\ Len(rows[y]) \in Nat /\ rows[y] \in Seq(Cell)
         /\ \A x \in 0 .. Len(rows[y]) : PenAt(rows, pen, y, x) \in Pen
         /\ PenAt(rows, pen, y, 0) = pen[y - 1]
         /\ PenAt(rows, pen, y, Len(rows[y])) = pen[y]
         /\ \A x \in 1 .. Len(rows[y]) :
              /\ PenAt(rows, pen, y, x) = rows[y][x][2]
              /\ rows[y][x] \in Cell /\ rows[y][x][1] \in Token
<1>1. Len(rows) \in Nat /\ rows[y] \in Seq(Cell) /\ Len(rows[y]) \in Nat
  BY ElementOfSeq
<1>2. y - 1 \in 0 .. Len(rows)
  BY <1>1
<1>3. pen[y - 1] \in Pen /\ pen[y] = PenAt(rows, pen, y, Len(rows[y]))
  BY <1>2 DEF IsPen
<1>4. \A x \in 1 .. Len(rows[y]) : rows[y][x] \in Cell
  BY <1>1, ElementOfSeq
<1>5. \A x \in 1 .. Len(rows[y]) : rows[y][x][1] \in Token /\ rows[y][x][2] \in Pen
  BY <1>4 DEF Cell
<1>6. \A x \in 0 .. Len(rows[y]) : x # 0 => x \in 1 .. Len(rows[y])
  BY <1>1
<1>7. \A x \in 0 .. Len(rows[y]) : PenAt(rows, pen, y, x) \in Pen
  BY <1>3, <1>5, <1>6 DEF PenAt
<1>8. \A x \in 1 .. Len(rows[y]) : x # 0
  BY <1>1
<1> QED
  BY <1>1, <1>3, <1>4, <1>5, <1>7, <1>8 DEF PenAt

\* Only a link begins or ends with a sequence that is none of SGR.
LEMMA ChangeIsSgr ==
  ASSUME NEW from \in Pen, NEW to \in Pen
  PROVE  /\ from # "link" /\ to # "link" =>
              \A i \in 1 .. Len(Change(from, to)) : Change(from, to)[i] # <<NoSgr>>
         /\ from # "link" /\ to = "link" =>
              1 \in 1 .. Len(Change(from, to)) /\ Change(from, to)[1] = <<NoSgr>>
<1>1. \A s : s # NoSgr => <<s>> # <<NoSgr>>
  OBVIOUS
<1>2. <<38, 5, 2>> # <<NoSgr>>
  <2>1. Len(<<38, 5, 2>>) # Len(<<NoSgr>>)
    OBVIOUS
  <2> QED
    BY <2>1
<1>3. NoSgr # 0 /\ NoSgr # 2 /\ NoSgr # 39
  BY DEF NoSgr
<1>4. /\ Len(<<>>) = 0
      /\ \A s : Len(<<s>>) = 1 /\ <<s>>[1] = s
      /\ \A s, t : Len(<<s, t>>) = 2 /\ <<s, t>>[1] = s /\ <<s, t>>[2] = t
  OBVIOUS
<1>5. from # "link" /\ to = "link" => Change(from, to) = << <<NoSgr>> >>
  BY DEF Change
<1>6. from # "link" /\ to # "link" =>
        \/ Change(from, to) = <<>> \/ Change(from, to) = << <<0>> >>
        \/ Change(from, to) = << <<39>> >> \/ Change(from, to) = << <<2>> >>
        \/ Change(from, to) = << <<2>>, <<39>> >> \/ Change(from, to) = << <<38, 5, 2>> >>
        \/ Change(from, to) = << <<0>>, <<38, 5, 2>> >>
  BY DEF Change, Pen
<1> DEFINE c == Change(from, to)
<1> HIDE DEF c
<1>7. c = << <<NoSgr>> >> => 1 \in 1 .. Len(c) /\ c[1] = <<NoSgr>>
  BY <1>4
<1>8. ASSUME NEW s, s # <<NoSgr>>, c = <<s>>
      PROVE  \A i \in 1 .. Len(c) : c[i] # <<NoSgr>>
  <2>1. Len(c) = 1 /\ c[1] = s
    BY <1>4, <1>8
  <2> QED
    BY <2>1, <1>8
<1>9. ASSUME NEW s, NEW t, s # <<NoSgr>>, t # <<NoSgr>>, c = <<s, t>>
      PROVE  \A i \in 1 .. Len(c) : c[i] # <<NoSgr>>
  <2>1. Len(c) = 2 /\ c[1] = s /\ c[2] = t
    BY <1>4, <1>9
  <2>2. \A i \in 1 .. 2 : i = 1 \/ i = 2
    OBVIOUS
  <2> QED
    BY <2>1, <2>2, <1>9
<1>10. c = <<>> => \A i \in 1 .. Len(c) : c[i] # <<NoSgr>>
  BY <1>4
<1>11. <<0>> # <<NoSgr>> /\ <<2>> # <<NoSgr>> /\ <<39>> # <<NoSgr>>
  BY <1>1, <1>3
<1> QED
  BY <1>2, <1>5, <1>6, <1>7, <1>8, <1>9, <1>10, <1>11 DEF c

\* A capture that decodes has no link on it ...
LEMMA DecodableHasNoLink ==
  ASSUME NEW rows \in Seq(Seq(Cell)), NEW pen, IsPen(rows, pen),
         ~Malformed(StyledWith(rows, pen))
  PROVE  \A y \in 1 .. Len(rows) : \A x \in 0 .. Len(rows[y]) :
           PenAt(rows, pen, y, x) # "link"
<1> DEFINE n == Len(rows)
           output == StyledWith(rows, pen)
<1>1. n \in Nat
  OBVIOUS
<1>2. ASSUME NEW y \in 1 .. n, NEW x \in 1 .. Len(rows[y]), PenAt(rows, pen, y, x - 1) # "link"
      PROVE  PenAt(rows, pen, y, x) # "link"
  <2>1. Len(output) = n /\ Len(output[y]) = Len(rows[y])
        /\ output[y][x].codes = Change(PenAt(rows, pen, y, x - 1), rows[y][x][2])
    <3>1. Len(rows[y]) \in Nat
      BY PensArePens
    <3> QED
      BY <1>1, <3>1 DEF StyledWith
  <2>2. \A i \in 1 .. Len(output[y][x].codes) : <<NoSgr>> # output[y][x].codes[i]
    <3> HIDE DEF output
    <3> QED
      BY <2>1 DEF Malformed, output
  <2>3. x - 1 \in 0 .. Len(rows[y])
    BY PensArePens
  <2>4. PenAt(rows, pen, y, x - 1) \in Pen /\ PenAt(rows, pen, y, x) \in Pen
        /\ PenAt(rows, pen, y, x) = rows[y][x][2]
    BY <2>3, PensArePens
  <2> HIDE DEF output
  <2> QED
    BY <2>1, <2>2, <2>4, <1>2, ChangeIsSgr
<1>3. ASSUME NEW y \in 1 .. n, pen[y - 1] # "link"
      PROVE  \A x \in 0 .. Len(rows[y]) : PenAt(rows, pen, y, x) # "link"
  <2> DEFINE T == {x \in 0 .. Len(rows[y]) : PenAt(rows, pen, y, x) # "link"}
             m == Len(rows[y])
  <2>1. m \in Nat /\ PenAt(rows, pen, y, 0) = pen[y - 1]
    BY PensArePens
  <2>2. 0 \in T
    BY <2>1, <1>3
  <2>3. \A x \in 1 .. m : x - 1 \in T => x \in T
    BY <1>2
  <2>4. \A x \in 0 .. m : x \in T
    <3> HIDE DEF T, m
    <3> QED
      BY <2>1, <2>2, <2>3, SetInduction
  <2> QED
    BY <2>4
<1>4. \A y \in 0 .. n : pen[y] # "link"
  <2> DEFINE T == {y \in 0 .. n : pen[y] # "link"}
  <2>1. 0 \in T
    BY <1>1 DEF IsPen
  <2>2. ASSUME NEW y \in 1 .. n, y - 1 \in T PROVE y \in T
    <3>1. Len(rows[y]) \in Nat /\ PenAt(rows, pen, y, Len(rows[y])) = pen[y]
      BY PensArePens
    <3>2. PenAt(rows, pen, y, Len(rows[y])) # "link"
      BY <2>2, <3>1, <1>3
    <3> QED
      BY <3>1, <3>2, <1>1
  <2>3. \A y \in 0 .. n : y \in T
    <3> HIDE DEF T, n
    <3> QED
      BY <1>1, <2>1, <2>2, SetInduction
  <2> QED
    BY <2>3
<1>5. \A y \in 1 .. n : y - 1 \in 0 .. n
  BY <1>1
<1> QED
  BY <1>3, <1>4, <1>5

\* ... and one without links decodes.
LEMMA NoLinkIsDecodable ==
  ASSUME NEW rows \in Seq(Seq(Cell)), NEW pen, IsPen(rows, pen),
         \A y \in 1 .. Len(rows) : \A x \in 1 .. Len(rows[y]) : rows[y][x][2] # "link"
  PROVE  /\ ~Malformed(StyledWith(rows, pen))
         /\ \A y \in 1 .. Len(rows) : \A x \in 0 .. Len(rows[y]) : PenAt(rows, pen, y, x) # "link"
<1> DEFINE n == Len(rows)
           output == StyledWith(rows, pen)
<1>1. n \in Nat
  OBVIOUS
<1>2. \A y \in 0 .. n : pen[y] # "link"
  <2> DEFINE T == {y \in 0 .. n : pen[y] # "link"}
  <2>1. 0 \in T
    BY <1>1 DEF IsPen
  <2>2. ASSUME NEW y \in 1 .. n, y - 1 \in T PROVE y \in T
    <3>1. Len(rows[y]) \in Nat /\ PenAt(rows, pen, y, Len(rows[y])) = pen[y]
          /\ PenAt(rows, pen, y, 0) = pen[y - 1]
          /\ \A x \in 1 .. Len(rows[y]) : PenAt(rows, pen, y, x) = rows[y][x][2]
      BY PensArePens
    <3>2. Len(rows[y]) = 0 \/ Len(rows[y]) \in 1 .. Len(rows[y])
      BY <3>1
    <3>3. pen[y - 1] # "link"
      BY <2>2
    <3>4. pen[y] # "link"
      BY <3>1, <3>2, <3>3
    <3> QED
      BY <3>4, <1>1
  <2>3. \A y \in 0 .. n : y \in T
    <3> HIDE DEF T, n
    <3> QED
      BY <1>1, <2>1, <2>2, SetInduction
  <2> QED
    BY <2>3
<1>3. ASSUME NEW y \in 1 .. n, NEW x \in 0 .. Len(rows[y])
      PROVE  PenAt(rows, pen, y, x) # "link"
  <2>1. Len(rows[y]) \in Nat /\ PenAt(rows, pen, y, 0) = pen[y - 1]
        /\ \A i \in 1 .. Len(rows[y]) : PenAt(rows, pen, y, i) = rows[y][i][2]
    BY PensArePens
  <2>2. y - 1 \in 0 .. n /\ (x = 0 \/ x \in 1 .. Len(rows[y]))
    BY <1>1, <2>1
  <2> QED
    BY <1>2, <2>1, <2>2
<1>4. ASSUME NEW y \in 1 .. n, NEW x \in 1 .. Len(rows[y])
      PROVE  \A i \in 1 .. Len(output[y][x].codes) : <<NoSgr>> # output[y][x].codes[i]
  <2>1. output[y][x].codes = Change(PenAt(rows, pen, y, x - 1), rows[y][x][2])
    BY DEF StyledWith
  <2>2. x - 1 \in 0 .. Len(rows[y]) /\ x \in 0 .. Len(rows[y])
    BY PensArePens
  <2>3. PenAt(rows, pen, y, x - 1) \in Pen /\ PenAt(rows, pen, y, x) \in Pen
        /\ PenAt(rows, pen, y, x) = rows[y][x][2]
    BY <2>2, PensArePens
  <2>4. PenAt(rows, pen, y, x - 1) # "link" /\ PenAt(rows, pen, y, x) # "link"
    BY <2>2, <1>3
  <2> HIDE DEF output
  <2> QED
    BY <2>1, <2>3, <2>4, ChangeIsSgr
<1>5. Len(output) = n /\ \A y \in 1 .. n : Len(output[y]) = Len(rows[y])
  <2>1. \A y \in 1 .. n : Len(rows[y]) \in Nat
    BY PensArePens
  <2> QED
    BY <1>1, <2>1 DEF StyledWith
<1>6. ~Malformed(output)
  <2> HIDE DEF output, n
  <2> QED
    BY <1>4, <1>5 DEF Malformed
<1> QED
  BY <1>3, <1>6

\* The cells are painted with the pens p, each of which follows the one before.
PaintedWith(cells, n, p) ==
  /\ n \in Nat /\ Len(cells) = n
  /\ \A x \in 0 .. n : p[x] \in Pen \ {"link"}
  /\ \A x \in 1 .. n : cells[x].codes = Change(p[x - 1], p[x])

\* Along a row the decoder's pen is faint behind the cells that are.
LEMMA PenAlongFollows ==
  ASSUME NEW cells, NEW n, NEW p, PaintedWith(cells, n, p),
         NEW faint, faint = (p[0] = "faint")
  PROVE  \A x \in 0 .. n : PenAlong(faint, cells)[x] = (p[x] = "faint")
<1> USE DEF PaintedWith
<1> DEFINE Is(g) == g = [x \in 0 .. n |-> IF x = 0 THEN faint ELSE PenAfter(g[x - 1], cells[x].codes)]
           f == [x \in 0 .. n |-> (p[x] = "faint")]
           pen == CHOOSE g : Is(g)
<1>1. ASSUME NEW x \in 1 .. n
      PROVE  PenAfter(p[x - 1] = "faint", cells[x].codes) = (p[x] = "faint")
  <2>1. x - 1 \in 0 .. n /\ x \in 0 .. n
    OBVIOUS
  <2> QED
    BY <2>1, PenFollows
<1>2. \A x \in 0 .. n : f[x] = IF x = 0 THEN faint ELSE PenAfter(f[x - 1], cells[x].codes)
  <2>1. ASSUME NEW x \in 0 .. n, x # 0 PROVE f[x] = PenAfter(f[x - 1], cells[x].codes)
    <3>1. x \in 1 .. n /\ x - 1 \in 0 .. n
      BY <2>1
    <3>2. f[x - 1] = (p[x - 1] = "faint")
      BY <3>1
    <3>3. f[x] = (p[x] = "faint")
      BY <3>1
    <3> HIDE DEF f
    <3> QED
      BY <3>1, <3>2, <3>3, <1>1
  <2>2. f[0] = faint
    OBVIOUS
  <2> QED
    BY <2>1, <2>2
<1>3. Is(f)
  <2>1. f = [x \in 0 .. n |-> f[x]]
    OBVIOUS
  <2> HIDE DEF f
  <2> QED
    BY <2>1, <1>2
<1>4. Is(pen)
  <2> HIDE DEF Is, f
  <2> QED
    BY <1>3
<1>5. PenAlong(faint, cells) = pen
  BY DEF PenAlong
<1> HIDE DEF pen
<1>6. \A x \in 0 .. n : pen[x] = (p[x] = "faint")
  <2> DEFINE T == {x \in 0 .. n : pen[x] = (p[x] = "faint")}
  <2>1. 0 \in T
    BY <1>4
  <2>2. ASSUME NEW x \in 1 .. n, x - 1 \in T PROVE x \in T
    <3>1. pen[x] = PenAfter(pen[x - 1], cells[x].codes)
      BY <1>4
    <3>2. pen[x - 1] = (p[x - 1] = "faint")
      BY <2>2
    <3>3. pen[x] = (p[x] = "faint")
      BY <3>1, <3>2, <1>1
    <3> QED
      BY <3>3
  <2>3. \A x \in 0 .. n : x \in T
    <3> HIDE DEF T
    <3> QED
      BY <2>1, <2>2, SetInduction
  <2> QED
    BY <2>3
<1> QED
  BY <1>5, <1>6

\* The grid is exact: of a capture without links the decoder recovers the tokens
\* of every row and which of its cells are faint.
LEMMA DecodeIs ==
  ASSUME NEW rows \in Seq(Seq(Cell)), NEW pen, IsPen(rows, pen),
         \A y \in 1 .. Len(rows) : \A x \in 0 .. Len(rows[y]) : PenAt(rows, pen, y, x) # "link"
  PROVE  Decode(StyledWith(rows, pen)) =
           [y \in 1 .. Len(rows) |-> [x \in 1 .. Len(rows[y]) |->
              [token |-> rows[y][x][1], faint |-> (rows[y][x][2] = "faint")]]]
<1> DEFINE n == Len(rows)
           output == StyledWith(rows, pen)
           Is(g) == g = [y \in 0 .. Len(output) |->
                      IF y = 0 THEN FALSE ELSE PenAlong(g[y - 1], output[y])[Len(output[y])]]
           f == [y \in 0 .. n |-> (pen[y] = "faint")]
           end == CHOOSE g : Is(g)
<1>1. n \in Nat /\ \A y \in 1 .. n : Len(rows[y]) \in Nat
  <2>1. \A y \in 1 .. n : Len(rows[y]) \in Nat
    BY PensArePens
  <2> QED
    BY <2>1
<1>2. Len(output) = n /\ \A y \in 1 .. n : Len(output[y]) = Len(rows[y])
  BY <1>1 DEF StyledWith
<1>3. \A y \in 1 .. n : \A x \in 1 .. Len(rows[y]) :
        /\ output[y][x].token = rows[y][x][1]
        /\ output[y][x].codes = Change(PenAt(rows, pen, y, x - 1), PenAt(rows, pen, y, x))
  <2>1. ASSUME NEW y \in 1 .. n
        PROVE  \A x \in 1 .. Len(rows[y]) : PenAt(rows, pen, y, x) = rows[y][x][2]
    BY PensArePens
  <2>2. \A y \in 1 .. n : \A x \in 1 .. Len(rows[y]) :
          /\ output[y][x].token = rows[y][x][1]
          /\ output[y][x].codes = Change(PenAt(rows, pen, y, x - 1), rows[y][x][2])
    BY DEF StyledWith
  <2> HIDE DEF output
  <2> QED
    BY <2>1, <2>2
<1> HIDE DEF output
<1>4. ASSUME NEW y \in 1 .. n, NEW faint, faint = (pen[y - 1] = "faint"),
             NEW x \in 0 .. Len(rows[y])
      PROVE  PenAlong(faint, output[y])[x] = (PenAt(rows, pen, y, x) = "faint")
  <2> DEFINE p == [i \in 0 .. Len(rows[y]) |-> PenAt(rows, pen, y, i)]
  <2>1. \A i \in 0 .. Len(rows[y]) : p[i] \in Pen \ {"link"}
    BY PensArePens
  <2>2. p[0] = pen[y - 1]
    BY <1>1, PensArePens
  <2>3. \A i \in 1 .. Len(rows[y]) : output[y][i].codes = Change(p[i - 1], p[i])
    <3>1. \A i \in 1 .. Len(rows[y]) : i - 1 \in 0 .. Len(rows[y]) /\ i \in 0 .. Len(rows[y])
      BY <1>1
    <3> QED
      BY <3>1, <1>3
  <2>4. p[x] = PenAt(rows, pen, y, x)
    OBVIOUS
  <2> DEFINE m == Len(rows[y])
             cells == output[y]
  <2>6. m \in Nat /\ Len(cells) = m
    BY <1>1, <1>2
  <2> HIDE DEF p
  <2>7. faint = (p[0] = "faint")
    BY <1>4, <2>2
  <2>9. \A i \in 0 .. m : p[i] \in Pen \ {"link"}
    BY <2>1
  <2>10. \A i \in 1 .. m : cells[i].codes = Change(p[i - 1], p[i])
    BY <2>3
  <2> HIDE DEF m, cells
  <2>8. \A i \in 0 .. m : PenAlong(faint, cells)[i] = (p[i] = "faint")
    <3>1. PaintedWith(cells, m, p)
      BY <2>6, <2>9, <2>10 DEF PaintedWith
    <3> QED
      BY <3>1, <2>7, PenAlongFollows
  <2>5. PenAlong(faint, output[y])[x] = (p[x] = "faint")
    BY <2>8 DEF m, cells
  <2> QED
    BY <2>4, <2>5
<1>5. ASSUME NEW y \in 1 .. n, NEW faint, faint = (pen[y - 1] = "faint")
      PROVE  PenAlong(faint, output[y])[Len(output[y])] = (pen[y] = "faint")
  <2>1. Len(rows[y]) \in 0 .. Len(rows[y]) /\ PenAt(rows, pen, y, Len(rows[y])) = pen[y]
    BY <1>1, PensArePens
  <2> DEFINE m == Len(rows[y])
  <2>2. m \in 0 .. Len(rows[y]) /\ PenAt(rows, pen, y, m) = pen[y] /\ Len(output[y]) = m
    BY <2>1, <1>2
  <2> HIDE DEF m
  <2>3. PenAlong(faint, output[y])[m] = (PenAt(rows, pen, y, m) = "faint")
    BY <2>2, <1>4, <1>5
  <2> QED
    BY <2>2, <2>3
<1>6. Is(f)
  <2>1. f[0] = FALSE
    <3>1. pen[0] # "faint"
      BY DEF IsPen
    <3>2. f[0] = (pen[0] = "faint")
      BY <1>1
    <3> QED
      BY <3>1, <3>2
  <2>2. ASSUME NEW y \in 0 .. n, y # 0
        PROVE  f[y] = PenAlong(f[y - 1], output[y])[Len(output[y])]
    <3>1. y \in 1 .. n /\ y - 1 \in 0 .. n
      BY <1>1, <2>2
    <3>2. f[y - 1] = (pen[y - 1] = "faint") /\ f[y] = (pen[y] = "faint")
      BY <3>1
    <3> HIDE DEF f
    <3> QED
      BY <3>1, <3>2, <1>5
  <2>3. \A y \in 0 .. n : f[y] =
          IF y = 0 THEN FALSE ELSE PenAlong(f[y - 1], output[y])[Len(output[y])]
    BY <2>1, <2>2
  <2>4. f = [y \in 0 .. n |-> f[y]]
    OBVIOUS
  <2> HIDE DEF f
  <2> QED
    BY <1>2, <2>3, <2>4
<1>7. Is(end)
  <2> HIDE DEF Is, f
  <2> QED
    BY <1>6
<1>8. Decode(output) =
        [y \in 1 .. Len(output) |-> [x \in 1 .. Len(output[y]) |->
           [token |-> output[y][x].token, faint |-> PenAlong(end[y - 1], output[y])[x]]]]
  BY DEF Decode
<1> HIDE DEF end
<1>9. \A y \in 0 .. n : end[y] = (pen[y] = "faint")
  <2> DEFINE T == {y \in 0 .. n : end[y] = (pen[y] = "faint")}
  <2>1. 0 \in T
    <3>1. end[0] = FALSE
      BY <1>1, <1>2, <1>7
    <3> QED
      BY <3>1, <1>1 DEF IsPen
  <2>2. ASSUME NEW y \in 1 .. n, y - 1 \in T PROVE y \in T
    <3>4. y \in 0 .. Len(output) /\ y # 0
      BY <1>1, <1>2
    <3>1. end[y] = PenAlong(end[y - 1], output[y])[Len(output[y])]
      BY <3>4, <1>7
    <3>2. end[y - 1] = (pen[y - 1] = "faint")
      BY <2>2
    <3>3. end[y] = (pen[y] = "faint")
      BY <3>1, <3>2, <1>5
    <3> QED
      BY <3>3
  <2>3. \A y \in 0 .. n : y \in T
    <3> HIDE DEF T, n
    <3> QED
      BY <1>1, <2>1, <2>2, SetInduction
  <2> QED
    BY <2>3
<1> HIDE DEF Is
<1>10. ASSUME NEW y \in 1 .. n, NEW x \in 1 .. Len(rows[y])
       PROVE  [token |-> output[y][x].token, faint |-> PenAlong(end[y - 1], output[y])[x]]
                = [token |-> rows[y][x][1], faint |-> (rows[y][x][2] = "faint")]
  <2>1. y - 1 \in 0 .. n /\ x \in 0 .. Len(rows[y])
    BY <1>1
  <2>2. end[y - 1] = (pen[y - 1] = "faint")
    BY <2>1, <1>9
  <2>3. PenAlong(end[y - 1], output[y])[x] = (PenAt(rows, pen, y, x) = "faint")
    BY <2>1, <2>2, <1>4
  <2>4. PenAt(rows, pen, y, x) = rows[y][x][2]
    BY PensArePens
  <2> QED
    BY <2>3, <2>4, <1>3
<1>11. Decode(output) =
         [y \in 1 .. n |-> [x \in 1 .. Len(rows[y]) |->
            [token |-> rows[y][x][1], faint |-> (rows[y][x][2] = "faint")]]]
  <2>1. \A y \in 1 .. n :
          [x \in 1 .. Len(output[y]) |->
            [token |-> output[y][x].token, faint |-> PenAlong(end[y - 1], output[y])[x]]]
          = [x \in 1 .. Len(rows[y]) |->
            [token |-> rows[y][x][1], faint |-> (rows[y][x][2] = "faint")]]
    BY <1>2, <1>10, Zenon
  <2> QED
    BY <1>2, <1>8, <2>1, Zenon
<1> QED
  BY <1>11 DEF output

----------------------------------------------------------------------------
(* The rows of a view.                                                     *)

\* The tokens of a row, one for each cell.
LEMMA TokensAre ==
  ASSUME NEW r \in Seq(Cell)
  PROVE  /\ Tokens(r) \in Seq(Token) /\ Len(Tokens(r)) = Len(r)
         /\ \A x \in 1 .. Len(r) : Tokens(r)[x] = r[x][1] /\ r[x] \in Cell
         /\ Tokens(r) = <<>> <=> r = <<>>
<1> DEFINE n == Len(r)
<1>1. n \in Nat /\ \A x \in 1 .. n : r[x] \in Cell
  BY ElementOfSeq
<1>2. \A x \in 1 .. n : r[x][1] \in Token
  BY <1>1 DEF Cell
<1>3. Tokens(r) = [x \in 1 .. n |-> r[x][1]]
  BY DEF Tokens
<1> HIDE DEF n
<1>4. Tokens(r) \in Seq(Token) /\ Len(Tokens(r)) = n /\ \A x \in 1 .. n : Tokens(r)[x] = r[x][1]
  BY <1>1, <1>2, <1>3
<1>5. Tokens(r) = <<>> <=> n = 0
  BY <1>1, <1>4
<1>6. r = <<>> <=> n = 0
  BY DEF n
<1> QED
  BY <1>1, <1>4, <1>5, <1>6 DEF n

\* A row of text: its first token in plain, the rest in one pen.
RowOfText(lead, text, pen) == <<<<lead, "plain">>>> \o Paint(text, pen)

\* Its cells, and what its tokens say.
LEMMA PaintedRow ==
  ASSUME NEW lead \in Token, NEW text \in Seq(Token), NEW pen \in Pen
  PROVE  LET r == RowOfText(lead, text, pen) IN
         /\ r \in Seq(Cell) /\ Len(r) = 1 + Len(text)
         /\ r[1] = <<lead, "plain">>
         /\ \A x \in 2 .. Len(r) : r[x] = <<text[x - 1], pen>>
         /\ Tokens(r) # <<>> /\ r # <<>>
         /\ Head(Tokens(r)) = lead /\ Tail(Tokens(r)) = text
<1> DEFINE r == RowOfText(lead, text, pen)
           n == Len(text)
           p == Paint(text, pen)
           h == <<<<lead, "plain">>>>
<1>1. n \in Nat /\ \A x \in 1 .. n : text[x] \in Token
  BY ElementOfSeq
<1>2. p = [x \in 1 .. n |-> <<text[x], pen>>]
  BY DEF Paint
<1>3. p \in Seq(Cell) /\ Len(p) = n /\ \A x \in 1 .. n : p[x] = <<text[x], pen>>
  <2>1. \A x \in 1 .. n : <<text[x], pen>> \in Cell
    BY <1>1 DEF Cell
  <2> QED
    BY <1>1, <1>2, <2>1
<1>4. "plain" \in Pen
  BY DEF Pen
<1>5. <<lead, "plain">> \in Cell
  BY <1>4 DEF Cell
<1>6. h \in Seq(Cell) /\ Len(h) = 1 /\ h[1] = <<lead, "plain">>
  BY <1>5
<1> HIDE DEF h, p, n
<1>7. h \o p \in Seq(Cell) /\ Len(h \o p) = Len(h) + Len(p)
      /\ \A i \in 1 .. Len(h) + Len(p) :
           (h \o p)[i] = IF i <= Len(h) THEN h[i] ELSE p[i - Len(h)]
  BY <1>3, <1>6, ConcatProperties
<1>8. r = h \o p
  BY DEF h, p, RowOfText
<1> HIDE DEF r
<1>16. \A l, q : <<l, q>>[1] = l
  OBVIOUS
<1>9. r \in Seq(Cell) /\ Len(r) = 1 + n /\ r[1] = <<lead, "plain">>
  <2>1. h \o p \in Seq(Cell) /\ Len(h \o p) = 1 + n
    BY <1>3, <1>6, <1>7
  <2>2. (h \o p)[1] = h[1]
    BY <1>1, <1>3, <1>6, <1>7
  <2> QED
    BY <1>6, <1>8, <2>1, <2>2
<1>10. \A x \in 2 .. Len(r) : r[x] = <<text[x - 1], pen>>
  <2>1. \A x \in 2 .. 1 + n : x - 1 \in 1 .. n /\ x \in 1 .. 1 + n /\ ~(x <= 1)
    BY <1>1
  <2>2. \A x \in 2 .. 1 + n : (h \o p)[x] = p[x - 1]
    BY <1>3, <1>6, <1>7, <2>1
  <2> QED
    BY <1>3, <1>8, <1>9, <2>1, <2>2
<1>11. Tokens(r) \in Seq(Token) /\ Len(Tokens(r)) = 1 + n
       /\ \A x \in 1 .. 1 + n : Tokens(r)[x] = r[x][1]
  BY <1>9, TokensAre
<1>12. Tokens(r)[1] = lead /\ \A x \in 2 .. 1 + n : Tokens(r)[x] = text[x - 1]
  <2>1. \A x \in 2 .. 1 + n : x \in 1 .. 1 + n
    BY <1>1
  <2>2. 1 \in 1 .. 1 + n
    BY <1>1
  <2>3. Tokens(r)[1] = lead
    BY <1>9, <1>11, <1>16, <2>2
  <2>4. \A x \in 2 .. 1 + n : Tokens(r)[x] = text[x - 1]
    BY <1>9, <1>10, <1>11, <1>16, <2>1
  <2> QED
    BY <2>3, <2>4
<1>13. Tokens(r) # <<>> /\ r # <<>>
  <2>1. Len(r) # 0 /\ Len(Tokens(r)) # 0
    BY <1>1, <1>9, <1>11
  <2>2. Len(<<>>) = 0
    OBVIOUS
  <2> QED
    BY <2>1, <2>2
<1>14. Head(Tokens(r)) = lead
  <2> DEFINE s == Tokens(r)
  <2>1. s \in Seq(Token) /\ s # <<>> /\ s[1] = lead
    BY <1>11, <1>12, <1>13
  <2> HIDE DEF s
  <2>2. Head(s) = lead
    BY <2>1
  <2> QED
    BY <2>2 DEF s
<1>15. Tail(Tokens(r)) = text
  <2> DEFINE k == Tokens(r)
             s == Tail(k)
  <2>4. k \in Seq(Token) /\ Len(k) = 1 + n /\ k # <<>>
    BY <1>11, <1>13
  <2> HIDE DEF k
  <2>5. s \in Seq(Token) /\ Len(s) = n /\ \A x \in 1 .. n : s[x] = k[x + 1]
    BY <1>1, <2>4, HeadTailProperties
  <2>1. s \in Seq(Token) /\ Len(s) = n /\ \A x \in 1 .. n : s[x] = Tokens(r)[x + 1]
    BY <2>5 DEF k
  <2>2. \A x \in 1 .. n : x + 1 \in 2 .. 1 + n /\ (x + 1) - 1 = x
    BY <1>1
  <2>3. \A x \in 1 .. n : s[x] = text[x]
    BY <1>12, <2>1, <2>2
  <2> HIDE DEF s
  <2>6. s = text
    BY <2>1, <2>3, SeqEqual DEF n
  <2> QED
    BY <2>6 DEF s, k
<1> QED
  BY <1>9, <1>10, <1>13, <1>14, <1>15 DEF n, r

\* What the fields of a view are.
LEMMA ViewFields ==
  ASSUME NEW v \in Views
  PROVE  /\ v.above \in Seq(Seq(Cell)) /\ v.lead \in {"glyph", "bang"} /\ v.lead \in Token
         /\ v.text \in Seq(Seq(Token)) /\ v.pen \in Pen
         /\ v.cursor \in Nat \X Nat /\ v.inset \in Nat /\ v.bottom \in Seq(Seq(Token))
         /\ v.kind \in {"composer", "shell", "dialog"} /\ v.mode \in BOOLEAN
<1>1. v \in View
  BY ViewsAreViews
<1>2. "glyph" \in Token /\ "bang" \in Token
  BY DEF Token
<1> QED
  BY <1>1, <1>2 DEF View

\* The rows of a text: its first row has the lead, the others have a margin.
LEMMA TextRowsAre ==
  ASSUME NEW v \in Views
  PROVE  /\ TextRows(v) \in Seq(Seq(Cell))
         /\ Len(TextRows(v)) = IF IsEmpty(v) THEN 1 ELSE Len(v.text)
         /\ Len(TextRows(v)) \in Nat \ {0}
         /\ TextRows(v)[1][1] = <<v.lead, "plain">>
         /\ StartsWith(Tokens(TextRows(v)[1]), v.lead)
         /\ \A i \in 2 .. Len(TextRows(v)) :
              \/ TextRows(v)[i] = <<>>
              \/ /\ TextRows(v)[i][1] = <<"margin", "plain">>
                 /\ StartsWith(Tokens(TextRows(v)[i]), "margin")
         /\ ~IsEmpty(v) =>
              \A i \in 1 .. Len(v.text) :
                /\ TextRows(v)[i] = <<>> <=> i # 1 /\ v.text[i] = <<>>
                /\ TextRows(v)[i] # <<>> =>
                     /\ Tail(Tokens(TextRows(v)[i])) = v.text[i]
                     /\ Len(TextRows(v)[i]) = 1 + Len(v.text[i])
                /\ \A x \in 2 .. Len(TextRows(v)[i]) : TextRows(v)[i][x] = <<v.text[i][x - 1], v.pen>>
         /\ IsEmpty(v) => TextRows(v) = << <<<<v.lead, "plain">>, <<"a", "faint">>>> >>
<1> DEFINE row(i) == RowOfText(IF i = 1 THEN v.lead ELSE "margin", v.text[i], v.pen)
<1>1. v.lead \in Token /\ v.text \in Seq(Seq(Token)) /\ v.pen \in Pen /\ "margin" \in Token
      /\ "a" \in Token /\ "faint" \in Pen
  BY ViewFields DEF Token, Pen
<1>2. CASE IsEmpty(v)
  <2>1. <<"a">> \in Seq(Token)
    BY <1>1
  <2> DEFINE f == "faint"
             r == RowOfText(v.lead, Placeholder, f)
  <2>2. TextRows(v) = <<r>>
    BY <1>2 DEF TextRows, RowOfText
  <2>3. /\ r \in Seq(Cell) /\ Len(r) = 1 + Len(Placeholder)
        /\ r[1] = <<v.lead, "plain">>
        /\ \A x \in 2 .. Len(r) : r[x] = <<Placeholder[x - 1], "faint">>
        /\ Tokens(r) # <<>> /\ Head(Tokens(r)) = v.lead
    <3>1. Placeholder \in Seq(Token)
      BY <2>1 DEF Placeholder
    <3>2. f \in Pen
      BY <1>1
    <3> HIDE DEF f
    <3>3. /\ r \in Seq(Cell) /\ Len(r) = 1 + Len(Placeholder)
          /\ r[1] = <<v.lead, "plain">>
          /\ \A x \in 2 .. Len(r) : r[x] = <<Placeholder[x - 1], f>>
          /\ Tokens(r) # <<>> /\ Head(Tokens(r)) = v.lead
      BY <1>1, <3>1, <3>2, PaintedRow
    <3> QED
      BY <3>3 DEF f
  <2>4. Len(r) = 2 /\ r[2] = <<"a", "faint">>
    <3>1. Len(Placeholder) = 1 /\ Placeholder[1] = "a"
      BY DEF Placeholder
    <3> HIDE DEF r
    <3>2. Len(r) = 2
      BY <2>3, <3>1
    <3>3. r[2] = <<Placeholder[2 - 1], "faint">>
      BY <2>3, <3>2
    <3> QED
      BY <3>1, <3>2, <3>3
  <2> HIDE DEF r
  <2>5. r = <<<<v.lead, "plain">>, <<"a", "faint">>>>
    <3> DEFINE c == <<v.lead, "plain">>
               d == <<"a", "faint">>
    <3>1. "plain" \in Pen
      BY DEF Pen
    <3>2. c \in Cell /\ d \in Cell
      BY <1>1, <3>1 DEF Cell
    <3>3. r[1] = c /\ r[2] = d
      BY <2>3, <2>4
    <3> HIDE DEF c, d
    <3>4. <<c, d>> \in Seq(Cell) /\ Len(<<c, d>>) = 2 /\ <<c, d>>[1] = c /\ <<c, d>>[2] = d
      BY <3>2
    <3>5. \A i \in 1 .. 2 : i = 1 \/ i = 2
      OBVIOUS
    <3>6. \A i \in 1 .. 2 : r[i] = <<c, d>>[i]
      BY <3>3, <3>4, <3>5
    <3>7. r = <<c, d>>
      BY <2>3, <2>4, <3>4, <3>6, SeqEqual
    <3> QED
      BY <3>7 DEF c, d
  <2>6. TextRows(v) \in Seq(Seq(Cell)) /\ Len(TextRows(v)) = 1 /\ TextRows(v)[1] = r
    BY <2>2, <2>3
  <2> QED
    BY <1>2, <2>2, <2>3, <2>5, <2>6 DEF StartsWith
<1>3. CASE ~IsEmpty(v)
  <2> DEFINE n == Len(v.text)
             t == TextRows(v)
  <2>1. n \in Nat \ {0}
    BY <1>1, <1>3 DEF IsEmpty
  <2>2. t = [i \in 1 .. n |-> IF i # 1 /\ v.text[i] = <<>> THEN <<>> ELSE row(i)]
    <3>1. t = [i \in 1 .. n |-> IF i = 1 THEN <<<<v.lead, "plain">>>> \o Paint(v.text[i], v.pen)
                                ELSE IF v.text[i] = <<>> THEN <<>>
                                ELSE <<<<"margin", "plain">>>> \o Paint(v.text[i], v.pen)]
      BY <1>3 DEF TextRows
    <3> QED
      BY <3>1, Zenon DEF RowOfText
  <2>3. ASSUME NEW i \in 1 .. n
        PROVE  LET r == row(i) lead == IF i = 1 THEN v.lead ELSE "margin" IN
               /\ r \in Seq(Cell) /\ Len(r) = 1 + Len(v.text[i])
               /\ r[1] = <<lead, "plain">> /\ r # <<>>
               /\ \A x \in 2 .. Len(r) : r[x] = <<v.text[i][x - 1], v.pen>>
               /\ Tokens(r) # <<>> /\ Head(Tokens(r)) = lead /\ Tail(Tokens(r)) = v.text[i]
    <3> DEFINE lead == IF i = 1 THEN v.lead ELSE "margin"
    <3>1. lead \in Token /\ v.text[i] \in Seq(Token)
      BY <1>1, ElementOfSeq
    <3> HIDE DEF lead
    <3>2. LET r == RowOfText(lead, v.text[i], v.pen) IN
          /\ r \in Seq(Cell) /\ Len(r) = 1 + Len(v.text[i])
          /\ r[1] = <<lead, "plain">> /\ r # <<>>
          /\ \A x \in 2 .. Len(r) : r[x] = <<v.text[i][x - 1], v.pen>>
          /\ Tokens(r) # <<>> /\ Head(Tokens(r)) = lead /\ Tail(Tokens(r)) = v.text[i]
      BY <1>1, <3>1, PaintedRow
    <3> QED
      BY <3>2 DEF lead
  <2> HIDE DEF row
  <2>4. \A i \in 1 .. n : t[i] = IF i # 1 /\ v.text[i] = <<>> THEN <<>> ELSE row(i)
    BY <2>2
  <2>5. t \in Seq(Seq(Cell)) /\ Len(t) = n
    <3>1. \A i \in 1 .. n : row(i) \in Seq(Cell)
      BY <2>3
    <3>2. \A i \in 1 .. n : (IF i # 1 /\ v.text[i] = <<>> THEN <<>> ELSE row(i)) \in Seq(Cell)
      BY <3>1
    <3> QED
      BY <2>1, <2>2, <3>2
  <2>6. 1 \in 1 .. n /\ \A i \in 2 .. n : i \in 1 .. n /\ i # 1
    BY <2>1
  <2> HIDE DEF t, n
  <2>7. t[1][1] = <<v.lead, "plain">> /\ StartsWith(Tokens(t[1]), v.lead)
    BY <2>3, <2>4, <2>6 DEF StartsWith
  <2>8. ASSUME NEW i \in 2 .. n
        PROVE  t[i] = <<>> \/ (t[i][1] = <<"margin", "plain">> /\ StartsWith(Tokens(t[i]), "margin"))
    BY <2>3, <2>4, <2>6 DEF StartsWith
  <2>9. ASSUME NEW i \in 1 .. n
        PROVE  /\ t[i] = <<>> <=> i # 1 /\ v.text[i] = <<>>
               /\ t[i] # <<>> => Tail(Tokens(t[i])) = v.text[i] /\ Len(t[i]) = 1 + Len(v.text[i])
               /\ \A x \in 2 .. Len(t[i]) : t[i][x] = <<v.text[i][x - 1], v.pen>>
    <3>1. CASE i # 1 /\ v.text[i] = <<>>
      <4>1. t[i] = <<>>
        BY <2>4, <3>1
      <4>2. \A x \in 2 .. Len(<<>>) : FALSE
        OBVIOUS
      <4> QED
        BY <3>1, <4>1, <4>2
    <3>2. CASE ~(i # 1 /\ v.text[i] = <<>>)
      <4>1. t[i] = row(i)
        BY <2>4, <3>2
      <4> QED
        BY <3>2, <4>1, <2>3
    <3> QED
      BY <3>1, <3>2
  <2> QED
    BY <1>3, <2>1, <2>5, <2>7, <2>8, <2>9 DEF t, n
<1> QED
  BY <1>2, <1>3

\* A row of a bottom: its tokens, all of them faint.
LEMMA BottomRow ==
  ASSUME NEW text \in Seq(Token), NEW pen \in Pen
  PROVE  /\ Paint(text, pen) \in Seq(Cell) /\ Len(Paint(text, pen)) = Len(text)
         /\ \A x \in 1 .. Len(text) : Paint(text, pen)[x] = <<text[x], pen>>
         /\ Tokens(Paint(text, pen)) = text
<1> DEFINE n == Len(text)
           p == Paint(text, pen)
<1>1. n \in Nat /\ \A x \in 1 .. n : text[x] \in Token
  BY ElementOfSeq
<1>2. \A x \in 1 .. n : <<text[x], pen>> \in Cell
  BY <1>1 DEF Cell
<1>3. p = [x \in 1 .. n |-> <<text[x], pen>>]
  BY DEF Paint
<1> HIDE DEF p
<1>4. p \in Seq(Cell) /\ Len(p) = n /\ \A x \in 1 .. n : p[x] = <<text[x], pen>>
  BY <1>1, <1>2, <1>3
<1>5. \A l, q : <<l, q>>[1] = l
  OBVIOUS
<1>6. Tokens(p) \in Seq(Token) /\ Len(Tokens(p)) = n /\ \A x \in 1 .. n : Tokens(p)[x] = text[x]
  BY <1>4, <1>5, TokensAre
<1>7. Tokens(p) = text
  BY <1>6, SeqEqual
<1> QED
  BY <1>4, <1>7 DEF p

\* The rows of a view, from above to its bottom.
LEMMA RowsOfAre ==
  ASSUME NEW v \in Views
  PROVE  LET a == Len(v.above)
             t == Len(TextRows(v))
             b == Len(v.bottom)
         IN /\ a \in Nat /\ b \in Nat /\ t \in Nat \ {0} /\ v.inset \in Nat
            /\ RowsOf(v) \in Seq(Seq(Cell)) /\ Len(RowsOf(v)) = a + t + v.inset + b
            /\ \A i \in 1 .. a : RowsOf(v)[i] = v.above[i]
            /\ \A i \in 1 .. t : RowsOf(v)[a + i] = TextRows(v)[i]
            /\ \A i \in 1 .. v.inset : RowsOf(v)[a + t + i] = <<>>
            /\ \A i \in 1 .. b : RowsOf(v)[a + t + v.inset + i] = Paint(v.bottom[i], "faint")
<1> DEFINE S == Seq(Cell)
           above == v.above
           text == TextRows(v)
           blank == [i \in 1 .. v.inset |-> <<>>]
           bottom == [i \in 1 .. Len(v.bottom) |-> Paint(v.bottom[i], "faint")]
           a == Len(above)
           t == Len(text)
           n == v.inset
           b == Len(v.bottom)
<1>1. above \in Seq(S) /\ n \in Nat /\ v.bottom \in Seq(Seq(Token))
  BY ViewFields
<1>2. text \in Seq(S) /\ t \in Nat \ {0}
  BY TextRowsAre
<1>3. blank \in Seq(S) /\ Len(blank) = n /\ \A i \in 1 .. n : blank[i] = <<>>
  <2> DEFINE e == <<>>
  <2>1. e \in S
    OBVIOUS
  <2> HIDE DEF S, e
  <2>2. [i \in 1 .. n |-> e] \in Seq(S) /\ Len([i \in 1 .. n |-> e]) = n
    BY <1>1, <2>1
  <2> QED
    BY <2>2 DEF e
<1>4. a \in Nat /\ b \in Nat
  BY <1>1
<1>5. bottom \in Seq(S) /\ Len(bottom) = b /\ \A i \in 1 .. b : bottom[i] = Paint(v.bottom[i], "faint")
  <2>1. "faint" \in Pen
    BY DEF Pen
  <2>2. \A i \in 1 .. b : v.bottom[i] \in Seq(Token)
    BY <1>1, ElementOfSeq
  <2>3. \A i \in 1 .. b : Paint(v.bottom[i], "faint") \in S
    BY <2>1, <2>2, BottomRow
  <2> HIDE DEF S
  <2> QED
    BY <1>4, <2>3
<1>6. RowsOf(v) = ((above \o text) \o blank) \o bottom
  BY DEF RowsOf
<1> HIDE DEF S, above, text, blank, bottom, a, t, n, b
<1> DEFINE p == above \o text
           q == p \o blank
           r == q \o bottom
<1>7. p \in Seq(S) /\ Len(p) = a + t
      /\ \A i \in 1 .. a + t : p[i] = IF i <= a THEN above[i] ELSE text[i - a]
  <2>1. p \in Seq(S) /\ Len(p) = Len(above) + Len(text)
        /\ \A i \in 1 .. Len(above) + Len(text) :
             p[i] = IF i <= Len(above) THEN above[i] ELSE text[i - Len(above)]
    BY <1>1, <1>2, ConcatProperties
  <2> QED
    BY <2>1 DEF a, t
<1> HIDE DEF p
<1>8. q \in Seq(S) /\ Len(q) = a + t + n
      /\ \A i \in 1 .. a + t + n : q[i] = IF i <= a + t THEN p[i] ELSE blank[i - (a + t)]
  <2>1. q \in Seq(S) /\ Len(q) = Len(p) + Len(blank)
        /\ \A i \in 1 .. Len(p) + Len(blank) :
             q[i] = IF i <= Len(p) THEN p[i] ELSE blank[i - Len(p)]
    BY <1>3, <1>7, ConcatProperties
  <2> QED
    BY <2>1, <1>3, <1>7
<1> HIDE DEF q
<1>9. r \in Seq(S) /\ Len(r) = a + t + n + b
      /\ \A i \in 1 .. a + t + n + b :
           r[i] = IF i <= a + t + n THEN q[i] ELSE bottom[i - (a + t + n)]
  <2>1. r \in Seq(S) /\ Len(r) = Len(q) + Len(bottom)
        /\ \A i \in 1 .. Len(q) + Len(bottom) :
             r[i] = IF i <= Len(q) THEN q[i] ELSE bottom[i - Len(q)]
    BY <1>5, <1>8, ConcatProperties
  <2> QED
    BY <2>1, <1>5, <1>8
<1> HIDE DEF r
<1>10. RowsOf(v) = r
  BY <1>6 DEF p, q, r
<1>11. \A i \in 1 .. a : r[i] = above[i]
  <2>1. \A i \in 1 .. a : /\ i \in 1 .. a + t + n + b /\ i <= a + t + n
                          /\ i \in 1 .. a + t + n /\ i <= a + t
                          /\ i \in 1 .. a + t /\ i <= a
    BY <1>1, <1>2, <1>4
  <2> QED
    BY <1>7, <1>8, <1>9, <2>1
<1>12. \A i \in 1 .. t : r[a + i] = text[i]
  <2>1. \A i \in 1 .. t : /\ a + i \in 1 .. a + t + n + b /\ a + i <= a + t + n
                          /\ a + i \in 1 .. a + t + n /\ a + i <= a + t
                          /\ a + i \in 1 .. a + t /\ ~(a + i <= a) /\ (a + i) - a = i
    BY <1>1, <1>2, <1>4
  <2> QED
    BY <1>7, <1>8, <1>9, <2>1
<1>13. \A i \in 1 .. n : r[a + t + i] = <<>>
  <2>1. \A i \in 1 .. n : /\ a + t + i \in 1 .. a + t + n + b /\ a + t + i <= a + t + n
                          /\ a + t + i \in 1 .. a + t + n /\ ~(a + t + i <= a + t)
                          /\ (a + t + i) - (a + t) = i
    BY <1>1, <1>2, <1>4
  <2> QED
    BY <1>3, <1>8, <1>9, <2>1
<1>14. \A i \in 1 .. b : r[a + t + n + i] = Paint(v.bottom[i], "faint")
  <2>1. \A i \in 1 .. b : /\ a + t + n + i \in 1 .. a + t + n + b
                          /\ ~(a + t + n + i <= a + t + n)
                          /\ (a + t + n + i) - (a + t + n) = i
    BY <1>1, <1>2, <1>4
  <2> QED
    BY <1>5, <1>9, <2>1
<1> QED
  BY <1>1, <1>2, <1>4, <1>9, <1>10, <1>11, <1>12, <1>13, <1>14 DEF S, above, text, a, t, n, b

\* Every row of a view lies above, in the text, in the inset or at the bottom.
LEMMA RowIsSomewhere ==
  ASSUME NEW v \in Views, NEW y \in 1 .. Len(RowsOf(v))
  PROVE  LET a == Len(v.above)
             t == Len(TextRows(v))
         IN \/ y \in 1 .. a
            \/ \E i \in 1 .. t : y = a + i
            \/ \E i \in 1 .. v.inset : y = a + t + i
            \/ \E i \in 1 .. Len(v.bottom) : y = a + t + v.inset + i
<1> DEFINE a == Len(v.above)
           t == Len(TextRows(v))
           b == Len(v.bottom)
           n == v.inset
<1>1. a \in Nat /\ b \in Nat /\ t \in Nat /\ n \in Nat /\ Len(RowsOf(v)) = a + t + n + b
  BY RowsOfAre
<1>2. y \in 1 .. a + t + n + b
  BY <1>1
<1> HIDE DEF a, t, b, n
<1>3. CASE y > a /\ y <= a + t
  <2>1. y - a \in 1 .. t /\ y = a + (y - a)
    BY <1>1, <1>2, <1>3
  <2> QED
    BY <2>1 DEF a, t
<1>4. CASE y > a + t /\ y <= a + t + n
  <2>1. y - (a + t) \in 1 .. n /\ y = a + t + (y - (a + t))
    BY <1>1, <1>2, <1>4
  <2> QED
    BY <2>1 DEF a, t, n
<1>5. CASE y > a + t + n
  <2>1. y - (a + t + n) \in 1 .. b /\ y = a + t + n + (y - (a + t + n))
    BY <1>1, <1>2, <1>5
  <2> QED
    BY <2>1 DEF a, t, n, b
<1>6. CASE y <= a
  BY <1>1, <1>2, <1>6 DEF a
<1> QED
  BY <1>1, <1>2, <1>3, <1>4, <1>5, <1>6

----------------------------------------------------------------------------
(* The grid and the parser.                                                *)

\* The grid of some rows: tokens, and which cells are faint.
GridOf(rows) ==
  [y \in 1 .. Len(rows) |-> [x \in 1 .. Len(rows[y]) |->
     [token |-> rows[y][x][1], faint |-> (rows[y][x][2] = "faint")]]]

TokenRows(rows) == [y \in 1 .. Len(rows) |-> Tokens(rows[y])]

\* What the parser asks of a grid, in terms of the rows.
LEMMA GridIs ==
  ASSUME NEW rows \in Seq(Seq(Cell))
  PROVE  /\ Len(GridOf(rows)) = Len(rows) /\ Len(TokenRows(rows)) = Len(rows)
         /\ TokenRows(rows) = [y \in 1 .. Len(GridOf(rows)) |-> Text(GridOf(rows)[y])]
         /\ \A y \in 1 .. Len(rows) :
              /\ TokenRows(rows)[y] = Tokens(rows[y])
              /\ IsPlaceholder(GridOf(rows)[y]) <=>
                   /\ Len(rows[y]) > 1 /\ rows[y][1][2] # "faint"
                   /\ \A x \in 2 .. Len(rows[y]) : rows[y][x][2] = "faint"
<1> DEFINE n == Len(rows)
           g == GridOf(rows)
<1>1. n \in Nat /\ \A y \in 1 .. n : rows[y] \in Seq(Cell) /\ Len(rows[y]) \in Nat
  BY ElementOfSeq
<1>2. \A y \in 1 .. n :
        g[y] = [x \in 1 .. Len(rows[y]) |->
                  [token |-> rows[y][x][1], faint |-> (rows[y][x][2] = "faint")]]
  BY DEF GridOf
<1>3. Len(g) = n /\ Len(TokenRows(rows)) = n
  BY <1>1 DEF GridOf, TokenRows
<1> HIDE DEF g
<1>4. ASSUME NEW y \in 1 .. n
      PROVE  /\ Len(g[y]) = Len(rows[y])
             /\ \A x \in 1 .. Len(rows[y]) : g[y][x].token = rows[y][x][1]
             /\ \A x \in 1 .. Len(rows[y]) : g[y][x].faint <=> rows[y][x][2] = "faint"
  <2> DEFINE k == Len(rows[y])
             c(x) == [token |-> rows[y][x][1], faint |-> (rows[y][x][2] = "faint")]
  <2>5. g[y] = [x \in 1 .. k |-> c(x)] /\ k \in Nat
    BY <1>1, <1>2
  <2> HIDE DEF c, k
  <2>6. Len(g[y]) = k /\ \A x \in 1 .. k : g[y][x] = c(x)
    BY <2>5
  <2>1. Len(g[y]) = Len(rows[y])
    BY <2>6 DEF k
  <2>2. ASSUME NEW x \in 1 .. Len(rows[y])
        PROVE  g[y][x] = [token |-> rows[y][x][1], faint |-> (rows[y][x][2] = "faint")]
    BY <2>6 DEF k, c
  <2>3. \A t, f : [token |-> t, faint |-> f].token = t /\ [token |-> t, faint |-> f].faint = f
    OBVIOUS
  <2>4. ASSUME NEW x \in 1 .. Len(rows[y])
        PROVE  g[y][x].token = rows[y][x][1] /\ (g[y][x].faint <=> rows[y][x][2] = "faint")
    <3> DEFINE b == rows[y][x][2] = "faint"
    <3>1. g[y][x] = [token |-> rows[y][x][1], faint |-> b]
      BY <2>2
    <3> HIDE DEF b
    <3>2. g[y][x].token = rows[y][x][1] /\ g[y][x].faint = b
      BY <3>1, <2>3
    <3> QED
      BY <3>2, Zenon DEF b
  <2> QED
    BY <2>1, <2>4, Zenon
<1>5. ASSUME NEW y \in 1 .. n PROVE Text(g[y]) = Tokens(rows[y])
  BY <1>4 DEF Text, Tokens
<1>6. TokenRows(rows) = [y \in 1 .. Len(g) |-> Text(g[y])]
  BY <1>3, <1>5 DEF TokenRows
<1>7. ASSUME NEW y \in 1 .. n
      PROVE  IsPlaceholder(g[y]) <=>
               /\ Len(rows[y]) > 1 /\ rows[y][1][2] # "faint"
               /\ \A x \in 2 .. Len(rows[y]) : rows[y][x][2] = "faint"
  <2>1. \A x \in 2 .. Len(rows[y]) : x \in 1 .. Len(rows[y])
    BY <1>1
  <2>2. Len(rows[y]) > 1 => 1 \in 1 .. Len(rows[y])
    BY <1>1
  <2> QED
    BY <1>4, <2>1, <2>2 DEF IsPlaceholder
<1>8. \A y \in 1 .. n : TokenRows(rows)[y] = Tokens(rows[y])
  BY DEF TokenRows
<1> QED
  BY <1>3, <1>6, <1>7, <1>8 DEF g

\* try_from_tmux_styled_capture() loses nothing: a grid it accepts has the tokens
\* of every row, and a cell of it is faint exactly when it is on the screen.
THEOREM GridIsExact ==
  ASSUME NEW rows \in Seq(Seq(Cell)), NEW m, ValidGrid(m, Styled(rows))
  PROVE  Decode(Styled(rows)) = GridOf(rows)
<1>1. PICK pen : IsPen(rows, pen) /\ Styled(rows) = StyledWith(rows, pen)
  BY StyledIs
<1>2. ~Malformed(StyledWith(rows, pen))
  BY <1>1 DEF ValidGrid
<1>3. \A y \in 1 .. Len(rows) : \A x \in 0 .. Len(rows[y]) : PenAt(rows, pen, y, x) # "link"
  BY <1>1, <1>2, DecodableHasNoLink
<1> QED
  BY <1>1, <1>3, DecodeIs DEF GridOf

\* It accepts every screen without links that has as many rows as the metadata
\* says, none of them wider than the pane.
THEOREM ScreenWithoutLinksIsValid ==
  ASSUME NEW rows \in Seq(Seq(Cell)), NEW m, m.height = Len(rows),
         \A y \in 1 .. Len(rows) : WidthOf(Tokens(rows[y])) <= Width,
         \A y \in 1 .. Len(rows) : \A x \in 1 .. Len(rows[y]) : rows[y][x][2] # "link"
  PROVE  ValidGrid(m, Styled(rows))
<1>1. PICK pen : IsPen(rows, pen) /\ Styled(rows) = StyledWith(rows, pen)
  BY StyledIs
<1> DEFINE output == StyledWith(rows, pen)
<1>2. ~Malformed(output)
  BY <1>1, NoLinkIsDecodable
<1>3. \A y \in 1 .. Len(rows) : Len(rows[y]) \in Nat /\ rows[y] \in Seq(Cell)
  BY ElementOfSeq
<1>4. Len(rows) \in Nat
  OBVIOUS
<1>5. Len(output) = Len(rows)
  BY <1>4 DEF StyledWith
<1>6. ASSUME NEW y \in 1 .. Len(rows) PROVE Text(output[y]) = Tokens(rows[y])
  <2>1. Len(output[y]) = Len(rows[y])
    BY <1>3 DEF StyledWith
  <2>2. \A x \in 1 .. Len(rows[y]) : output[y][x].token = rows[y][x][1]
    BY DEF StyledWith
  <2> HIDE DEF output
  <2> QED
    BY <2>1, <2>2 DEF Text, Tokens
<1>7. \A y \in 1 .. Len(output) : WidthOf(Text(output[y])) <= Width
  <2> HIDE DEF output
  <2> QED
    BY <1>5, <1>6
<1> HIDE DEF output
<1>8. ValidGrid(m, output)
  BY <1>2, <1>5, <1>7 DEF ValidGrid
<1> QED
  BY <1>1, <1>8 DEF output

\* The text from the row of the glyph to the row of the cursor.
PromptRows(rows, start, y) ==
  [i \in 1 .. y - start + 1 |->
     IF rows[start + i - 1] = <<>> THEN <<>> ELSE Tail(rows[start + i - 1])]

\* What the parser has seen when it captures a draft or finds no draft.
LEMMA VisibleIs ==
  ASSUME NEW rows \in Seq(Seq(Cell)), NEW m
  PROVE  LET r == TokenRows(rows)
             y == m.cursor.y
             seen == Visible(m, GridOf(rows))
         IN /\ seen.kind \in {"captured", "absent", "unsupported_layout", "size_overflow", "unsafe_text"}
            /\ seen.kind = "captured" =>
                 \E start \in StartRows(r, y) :
                   /\ IsSupported(r, y) /\ ~(start = y /\ m.cursor.x = 2)
                   /\ seen.text = PromptRows(r, start, y) /\ ~(y > m.height - 2)
            /\ seen.kind # "captured" => seen.text = <<>>
            /\ seen.kind = "absent" =>
                 /\ IsSupported(r, y) /\ y \in StartRows(r, y)
                 /\ IsPlaceholder(GridOf(rows)[y]) /\ ~(y > m.height - 2)
<1> DEFINE g == GridOf(rows)
           r == [i \in 1 .. Len(g) |-> Text(g[i])]
           y == m.cursor.y
           x == m.cursor.x
           start == CHOOSE k \in StartRows(r, y) : TRUE
           seen == Visible(m, g)
           text == PromptRows(r, start, y)
<1>1. r = TokenRows(rows)
  BY GridIs
<1>2. seen = IF \/ m.mode \/ m.height < 3 \/ y > m.height - 2
                \/ ~IsSupported(r, y) \/ StartRows(r, y) = {}
             THEN Skipped("unsupported_layout")
             ELSE IF start = y /\ x = 2
             THEN IF IsPlaceholder(g[y]) THEN Absent ELSE Skipped("unsupported_layout")
             ELSE IF ~AtEnd(r[y], x) THEN Skipped("unsupported_layout")
             ELSE Admit(text)
  BY DEF Visible, PromptRows
<1>3. StartRows(r, y) # {} => start \in StartRows(r, y)
  OBVIOUS
<1> HIDE DEF r, g, seen, start, text, y, x
<1>4. /\ Skipped("unsupported_layout").kind = "unsupported_layout"
      /\ Skipped("unsupported_layout").text = <<>>
      /\ Absent.kind = "absent" /\ Absent.text = <<>>
  BY DEF Skipped, Absent
<1>5. \/ Admit(text) = [kind |-> "captured", text |-> text]
      \/ Admit(text).kind \in {"size_overflow", "unsafe_text"} /\ Admit(text).text = <<>>
  BY DEF Admit, Captured, Skipped
<1>6. Admit(text).kind \in {"captured", "size_overflow", "unsafe_text"}
      /\ (Admit(text).kind = "captured" => Admit(text).text = text)
      /\ (Admit(text).kind # "captured" => Admit(text).text = <<>>)
  BY <1>5
<1> HIDE DEF Skipped
<1>7. CASE \/ m.mode \/ m.height < 3 \/ y > m.height - 2
           \/ ~IsSupported(r, y) \/ StartRows(r, y) = {}
  <2>1. seen = Skipped("unsupported_layout")
    BY <1>2, <1>7, Zenon
  <2>2. seen.kind = "unsupported_layout" /\ seen.text = <<>>
    BY <2>1, <1>4
  <2> QED
    BY <2>2 DEF seen, g
<1>8. CASE ~(\/ m.mode \/ m.height < 3 \/ y > m.height - 2
             \/ ~IsSupported(r, y) \/ StartRows(r, y) = {})
  <2>1. IsSupported(r, y) /\ start \in StartRows(r, y) /\ ~(y > m.height - 2)
    BY <1>3, <1>8
  <2>2. seen = IF start = y /\ x = 2
               THEN IF IsPlaceholder(g[y]) THEN Absent ELSE Skipped("unsupported_layout")
               ELSE IF ~AtEnd(r[y], x) THEN Skipped("unsupported_layout") ELSE Admit(text)
    BY <1>2, <1>8, Zenon
  <2>3. CASE start = y /\ x = 2
    <3>1. \/ seen = Absent /\ IsPlaceholder(g[y]) 
          \/ seen = Skipped("unsupported_layout")
      BY <2>2, <2>3, Zenon
    <3>2. /\ seen.text = <<>>
          /\ \/ seen.kind = "absent" /\ IsPlaceholder(g[y])
             \/ seen.kind = "unsupported_layout"
      BY <3>1, <1>4
    <3> QED
      BY <1>1, <2>1, <2>3, <3>2 DEF seen, g, y
  <2>4. CASE ~(start = y /\ x = 2)
    <3>1. seen = Skipped("unsupported_layout") \/ seen = Admit(text)
      BY <2>2, <2>4, Zenon
    <3>2. seen.kind \in {"unsupported_layout", "captured", "size_overflow", "unsafe_text"}
          /\ (seen.kind = "captured" => seen.text = text)
          /\ (seen.kind # "captured" => seen.text = <<>>)
      BY <3>1, <1>4, <1>6
    <3> QED
      BY <1>1, <2>1, <2>4, <3>2 DEF seen, g, y, x, text
  <2> QED
    BY <2>3, <2>4
<1> QED
  BY <1>7, <1>8

----------------------------------------------------------------------------
(* A draft on a screen that stands still.                                  *)

\* A set of numbers up to n has a greatest.
LEMMA GreatestNumber ==
  ASSUME NEW n \in Nat, NEW S, S \subseteq 0 .. n, S # {}
  PROVE  Max(S) \in S /\ \A i \in S : i <= Max(S)
<1> DEFINE T == {n - i : i \in S}
<1>0. \A i \in S : i \in 0 .. n
  OBVIOUS
<1>1. T \subseteq Nat /\ T # {}
  <2>1. \A i \in S : n - i \in Nat
    BY <1>0
  <2> QED
    BY <2>1
<1>2. PICK m \in T : \A k \in T : m <= k
  <2> HIDE DEF T
  <2> QED
    BY <1>1, LeastNumber
<1>3. PICK g \in S : m = n - g
  BY <1>2
<1>4. \A i \in S : g >= i
  <2>1. \A i \in S : n - i \in T
    OBVIOUS
  <2>2. \A i \in S : n - g <= n - i
    BY <1>2, <1>3, <2>1
  <2>3. \A i \in S : i \in 0 .. n /\ g \in 0 .. n
    BY <1>0
  <2>4. \A i \in 0 .. n : n - g <= n - i /\ g \in 0 .. n => g >= i
    OBVIOUS
  <2> HIDE DEF T
  <2> QED
    BY <2>2, <2>3, <2>4
<1>5. Max(S) \in S /\ \A i \in S : Max(S) >= i
  BY <1>4 DEF Max
<1> DEFINE x == Max(S)
<1>6. x \in 0 .. n /\ \A i \in S : i \in 0 .. n /\ x >= i
  BY <1>0, <1>5
<1> HIDE DEF x, T
<1>7. \A i \in S : i <= x
  BY <1>6
<1> QED
  BY <1>5, <1>7 DEF x

\* Blank rows at the end of a text make no difference.
LEMMA BlankEnd ==
  ASSUME NEW text \in Seq(Seq(Token)), NEW c \in 0 .. Len(text),
         \A i \in c + 1 .. Len(text) : text[i] = <<>>,
         NEW short \in Seq(Seq(Token)), Len(short) = c, \A i \in 1 .. c : short[i] = text[i]
  PROVE  WithoutBlankEnd(short) = WithoutBlankEnd(text)
<1> DEFINE S == {0} \cup {i \in 1 .. Len(short) : short[i] # <<>>}
           T == {0} \cup {i \in 1 .. Len(text) : text[i] # <<>>}
           n == Max(S)
<1>1. Len(text) \in Nat /\ c \in Nat
  OBVIOUS
<1>2. S = T
  <2>1. \A i \in 1 .. Len(text) : i \in 1 .. c \/ i \in c + 1 .. Len(text)
    BY <1>1
  <2>2. \A i \in 1 .. c : i \in 1 .. Len(text)
    BY <1>1
  <2>3. \A i : i \in S <=> i = 0 \/ (i \in 1 .. c /\ text[i] # <<>>)
    OBVIOUS
  <2>4. \A i : i \in T <=> i = 0 \/ (i \in 1 .. c /\ text[i] # <<>>)
    BY <2>1, <2>2
  <2> HIDE DEF S, T
  <2> QED
    BY <2>3, <2>4
<1>3. S \subseteq 0 .. c /\ S # {}
  BY <1>1
<1>4. WithoutBlankEnd(short) = SubSeq(short, 1, n) /\ WithoutBlankEnd(text) = SubSeq(text, 1, n)
  BY <1>2 DEF WithoutBlankEnd
<1> HIDE DEF S, T
<1>5. n \in 0 .. c
  BY <1>1, <1>3, GreatestNumber
<1> HIDE DEF n
<1> DEFINE p == SubSeq(short, 1, n)
           q == SubSeq(text, 1, n)
<1>6. \A i \in 1 .. n : short[i] \in Seq(Token) /\ text[i] \in Seq(Token) /\ short[i] = text[i]
  <2>1. \A i \in 1 .. n : i \in 1 .. c /\ i \in 1 .. Len(text)
    BY <1>1, <1>5
  <2> QED
    BY <2>1, ElementOfSeq
<1>7. n \in Int /\ n - 1 + 1 = n /\ (1 <= n \/ n = 0) /\ \A i \in 1 .. n : 1 + i - 1 = i
  BY <1>5
<1>8. p \in Seq(Seq(Token)) /\ Len(p) = (IF 1 <= n THEN n - 1 + 1 ELSE 0)
      /\ \A i \in 1 .. n - 1 + 1 : p[i] = short[1 + i - 1]
  BY <1>6, <1>7, SubSeqProperties
<1>9. q \in Seq(Seq(Token)) /\ Len(q) = (IF 1 <= n THEN n - 1 + 1 ELSE 0)
      /\ \A i \in 1 .. n - 1 + 1 : q[i] = text[1 + i - 1]
  BY <1>6, <1>7, SubSeqProperties
<1> HIDE DEF p, q
<1>10. Len(p) = n /\ Len(q) = n
  BY <1>7, <1>8, <1>9
<1>11. \A i \in 1 .. n : p[i] = q[i]
  BY <1>6, <1>7, <1>8, <1>9
<1>12. p = q
  BY <1>8, <1>9, <1>10, <1>11, SeqEqual
<1> QED
  BY <1>4, <1>12 DEF p, q

\* The metadata of a view that stands still.
MetadataOf(v) == [height |-> Len(RowsOf(v)), cursor |-> CursorOf(v), mode |-> v.mode]

\* The cursor is in the text.
LEMMA CursorRow ==
  ASSUME NEW v \in Views
  PROVE  \E c \in 1 .. Len(TextRows(v)) :
           /\ CursorOf(v).y = Len(v.above) + c
           /\ IsEmpty(v) => c = 1 /\ CursorOf(v).x = 2
           /\ ~IsEmpty(v) => /\ c = v.cursor[1] /\ c \in 1 .. Len(v.text)
                             /\ CursorOf(v).x = 2 + v.cursor[2]
<1>1. CASE IsEmpty(v)
  <2>1. Len(TextRows(v)) = 1
    BY <1>1, TextRowsAre
  <2>2. CursorOf(v).x = 2 + 0 /\ CursorOf(v).y = Len(v.above) + 1
    BY <1>1 DEF CursorOf
  <2> QED
    BY <1>1, <2>1, <2>2
<1>2. CASE ~IsEmpty(v)
  <2>1. Len(TextRows(v)) = Len(v.text) /\ v.cursor[1] \in 1 .. Len(v.text)
    BY <1>2, TextRowsAre, CursorIsInTheText
  <2>2. CursorOf(v).x = 2 + v.cursor[2] /\ CursorOf(v).y = Len(v.above) + v.cursor[1]
    BY <1>2 DEF CursorOf
  <2> QED
    BY <1>2, <2>1, <2>2
<1> QED
  BY <1>1, <1>2

\* A row of the screen of a view says what the row of its text says.
LEMMA TextOnScreen ==
  ASSUME NEW v \in Views, NEW i \in 1 .. Len(TextRows(v))
  PROVE  LET y == Len(v.above) + i
         IN /\ y \in 1 .. Len(RowsOf(v)) /\ RowsOf(v)[y] = TextRows(v)[i]
            /\ TokenRows(RowsOf(v))[y] = Tokens(TextRows(v)[i])
            /\ TokenRows(RowsOf(v))[y] = <<>> <=> TextRows(v)[i] = <<>>
            /\ i = 1 => StartsWith(TokenRows(RowsOf(v))[y], v.lead)
            /\ i # 1 => \/ TokenRows(RowsOf(v))[y] = <<>>
                        \/ StartsWith(TokenRows(RowsOf(v))[y], "margin")
<1> DEFINE a == Len(v.above)
           t == Len(TextRows(v))
           b == Len(v.bottom)
           rows == RowsOf(v)
           y == a + i
<1>1. a \in Nat /\ b \in Nat /\ t \in Nat \ {0} /\ v.inset \in Nat
      /\ rows \in Seq(Seq(Cell)) /\ Len(rows) = a + t + v.inset + b
      /\ rows[a + i] = TextRows(v)[i]
  BY RowsOfAre
<1>2. y \in 1 .. Len(rows)
  BY <1>1
<1>3. rows[y] \in Seq(Cell)
  BY <1>1, <1>2, ElementOfSeq
<1> HIDE DEF rows
<1>4. TokenRows(rows)[y] = Tokens(rows[y])
  BY <1>2 DEF TokenRows
<1>5. Tokens(rows[y]) = <<>> <=> rows[y] = <<>>
  BY <1>3, TokensAre
<1>6. i = 1 => StartsWith(Tokens(TextRows(v)[i]), v.lead)
  BY TextRowsAre
<1>7. i # 1 => i \in 2 .. t
  BY <1>1
<1>8. i # 1 => \/ TextRows(v)[i] = <<>>
               \/ StartsWith(Tokens(TextRows(v)[i]), "margin")
  BY <1>7, TextRowsAre
<1> QED
  BY <1>1, <1>2, <1>4, <1>5, <1>6, <1>8 DEF rows

\* From a row of the text, the search for the glyph ends at the first row of the
\* text: nothing else in it starts with one, and nothing above is reached.
LEMMA StartOfText ==
  ASSUME NEW v \in Views, NEW c \in 1 .. Len(TextRows(v)), NEW k,
         k \in StartRows(TokenRows(RowsOf(v)), Len(v.above) + c)
  PROVE  v.lead = "glyph" /\ k = Len(v.above) + 1
<1> DEFINE a == Len(v.above)
           t == Len(TextRows(v))
           r == TokenRows(RowsOf(v))
           y == a + c
<1>1. a \in Nat /\ t \in Nat \ {0} /\ v.lead \in {"glyph", "bang"}
  BY RowsOfAre, ViewFields
<1>2. k \in 1 .. y /\ StartsWith(r[k], "glyph")
      /\ \A j \in k + 1 .. y : r[j] = <<>> \/ StartsWith(r[j], "margin")
  BY DEF StartRows
<1>3. 1 \in 1 .. t /\ a + 1 \in 1 .. y
  BY <1>1
<1>4. StartsWith(r[a + 1], v.lead)
  BY <1>3, TextOnScreen
<1>5. \A i \in 1 .. t : i # 1 => r[a + i] = <<>> \/ StartsWith(r[a + i], "margin")
  BY TextOnScreen
<1> HIDE DEF r
<1>6. CASE k < a + 1
  <2>1. a + 1 \in k + 1 .. y
    BY <1>1, <1>2, <1>3, <1>6
  <2>2. r[a + 1] = <<>> \/ StartsWith(r[a + 1], "margin")
    BY <1>2, <2>1
  <2> QED
    BY <1>1, <1>4, <2>2 DEF StartsWith
<1>7. CASE k > a + 1
  <2> DEFINE i == k - a
  <2>1. i \in 1 .. t /\ i # 1 /\ a + i = k
    BY <1>1, <1>2, <1>7
  <2> HIDE DEF i
  <2>2. r[k] = <<>> \/ StartsWith(r[k], "margin")
    BY <1>5, <2>1
  <2> QED
    BY <1>2, <2>2 DEF StartsWith
<1>8. CASE k = a + 1
  BY <1>2, <1>4, <1>8 DEF StartsWith
<1> QED
  BY <1>1, <1>2, <1>6, <1>7, <1>8

\* Below the cursor of a composer with a supported footer the text is blank: the
\* one row that is not is at the bottom.
LEMMA BelowCursor ==
  ASSUME NEW v \in Views, v.kind = "composer", NEW c \in 1 .. Len(TextRows(v)),
         IsSupported(TokenRows(RowsOf(v)), Len(v.above) + c)
  PROVE  \A i \in c + 1 .. Len(TextRows(v)) : TextRows(v)[i] = <<>>
<1> DEFINE a == Len(v.above)
           t == Len(TextRows(v))
           b == Len(v.bottom)
           n == v.inset
           rows == RowsOf(v)
           r == TokenRows(rows)
           y == a + c
<1>1. a \in Nat /\ b \in Nat /\ t \in Nat \ {0} /\ n \in Nat
      /\ rows \in Seq(Seq(Cell)) /\ Len(rows) = a + t + n + b
      /\ \A i \in 1 .. b : rows[a + t + n + i] = Paint(v.bottom[i], "faint")
  BY RowsOfAre
<1>2. PICK p \in 1 .. b : v.bottom[p] # <<>>
  BY ComposersHaveABottom
<1>3. rows[a + t + n + p] = Paint(v.bottom[p], "faint")
  BY <1>1
<1>4. Len(r) = Len(rows) /\ \A j \in 1 .. Len(rows) : r[j] = Tokens(rows[j])
  BY <1>1, GridIs
<1>5. r[a + t + n + p] # <<>>
  <2>1. v.bottom[p] \in Seq(Token) /\ "faint" \in Pen
    BY ViewFields, ElementOfSeq DEF Pen
  <2>2. Tokens(Paint(v.bottom[p], "faint")) = v.bottom[p]
    BY <2>1, BottomRow
  <2> DEFINE q == a + t + n + p
  <2>3. q \in 1 .. Len(rows)
    <3> HIDE DEF rows, a, t, b, n
    <3> QED
      BY <1>1
  <2> HIDE DEF q, r, rows
  <2>4. r[q] = Tokens(rows[q])
    BY <1>4, <2>3
  <2>5. Tokens(rows[q]) = v.bottom[p]
    BY <1>3, <2>2 DEF q
  <2>6. r[q] # <<>>
    BY <1>2, <2>4, <2>5
  <2> QED
    BY <2>6 DEF q
<1> HIDE DEF r, rows, a, t, b, n
<1>6. PICK f : {j \in y + 1 .. Len(r) : r[j] # <<>>} = {f}
  BY DEF IsSupported, FooterRows, r, rows, a
<1>0. c \in 1 .. t
  BY DEF t
<1>7. a + t + n + p \in y + 1 .. Len(r)
  <2>1. Len(r) = a + t + n + b /\ a \in Nat /\ b \in Nat /\ t \in Nat /\ n \in Nat
    BY <1>1, <1>4
  <2>2. c \in 1 .. t /\ p \in 1 .. b
    BY <1>0 DEF b
  <2> DEFINE m == Len(r)
  <2>3. m = a + t + n + b
    BY <2>1
  <2> HIDE DEF m
  <2>4. a + t + n + p \in y + 1 .. m
    BY <2>1, <2>2, <2>3
  <2> QED
    BY <2>4 DEF m
<1>8. f = a + t + n + p
  BY <1>5, <1>6, <1>7
<1>9. ASSUME NEW i \in c + 1 .. t PROVE TextRows(v)[i] = <<>>
  <2>1. i \in 1 .. t /\ a + i \in y + 1 .. Len(r) /\ a + i # a + t + n + p
    BY <1>0, <1>1, <1>4
  <2>2. r[a + i] = <<>>
    BY <1>6, <1>8, <2>1
  <2>3. r[a + i] = <<>> <=> TextRows(v)[i] = <<>>
    BY <2>1, TextOnScreen DEF r, rows, a, t
  <2> QED
    BY <2>2, <2>3
<1> QED
  BY <1>9 DEF t

\* What is captured of a view that stands still, and read with its own metadata,
\* is its draft.
LEMMA CapturedDraft ==
  ASSUME NEW v \in Views, Visible(MetadataOf(v), GridOf(RowsOf(v))).kind = "captured"
  PROVE  IsDraft(Visible(MetadataOf(v), GridOf(RowsOf(v))).text, v)
<1> DEFINE a == Len(v.above)
           t == Len(TextRows(v))
           rows == RowsOf(v)
           r == TokenRows(rows)
           y == CursorOf(v).y
           text == Visible(MetadataOf(v), GridOf(RowsOf(v))).text
<1>1. a \in Nat /\ t \in Nat \ {0} /\ rows \in Seq(Seq(Cell))
  BY RowsOfAre
<1>2. MetadataOf(v).cursor = CursorOf(v)
  BY DEF MetadataOf
<1>3. PICK start \in StartRows(r, y) :
        /\ IsSupported(r, y) /\ ~(start = y /\ CursorOf(v).x = 2)
        /\ text = PromptRows(r, start, y)
  <2> DEFINE m == MetadataOf(v)
  <2>1. LET seen == Visible(m, GridOf(rows))
        IN seen.kind = "captured" =>
             \E start \in StartRows(TokenRows(rows), m.cursor.y) :
               /\ IsSupported(TokenRows(rows), m.cursor.y) /\ ~(start = m.cursor.y /\ m.cursor.x = 2)
               /\ seen.text = PromptRows(TokenRows(rows), start, m.cursor.y)
    <3> HIDE DEF rows, m
    <3> QED
      BY <1>1, VisibleIs
  <2> QED
    BY <1>2, <2>1
<1>4. PICK c \in 1 .. t :
        /\ y = a + c
        /\ IsEmpty(v) => c = 1 /\ CursorOf(v).x = 2
        /\ ~IsEmpty(v) => c = v.cursor[1] /\ c \in 1 .. Len(v.text)
  BY CursorRow
<1>5. v.lead = "glyph" /\ start = a + 1
  BY <1>3, <1>4, StartOfText
<1>6. v.kind = "composer"
  <2>1. v.kind # "shell"
    BY <1>5, LeadTellsShells
  <2>2. v.kind # "dialog"
    <3>1. r = [z \in 1 .. Len(RowsOf(v)) |-> Tokens(RowsOf(v)[z])]
      BY DEF TokenRows
    <3> HIDE DEF r
    <3> QED
      BY <1>3, <3>1, DialogsHaveNoFooter
  <2> QED
    BY <2>1, <2>2, ViewFields
<1>7. ~IsEmpty(v)
  BY <1>1, <1>3, <1>4, <1>5
<1>8. t = Len(v.text) /\ v.text \in Seq(Seq(Token))
  BY <1>7, TextRowsAre, ViewFields
<1>9. \A i \in 1 .. t : /\ TextRows(v)[i] = <<>> <=> i # 1 /\ v.text[i] = <<>>
                        /\ TextRows(v)[i] # <<>> => Tail(Tokens(TextRows(v)[i])) = v.text[i]
  BY <1>7, <1>8, TextRowsAre
<1>10. \A i \in 1 .. t : /\ r[a + i] = Tokens(TextRows(v)[i])
                         /\ r[a + i] = <<>> <=> TextRows(v)[i] = <<>>
  BY TextOnScreen
<1>11. \A i \in c + 1 .. t : TextRows(v)[i] = <<>>
  BY <1>3, <1>4, <1>6, BelowCursor
<1>12. \A i \in c + 1 .. Len(v.text) : v.text[i] = <<>>
  <2>1. \A i \in c + 1 .. t : i \in 1 .. t
    BY <1>1
  <2> QED
    BY <1>8, <1>9, <1>11, <2>1
<1> HIDE DEF r, a, rows, y
<1>13. text = [i \in 1 .. c |-> v.text[i]]
  <2>1. y - start + 1 = c /\ \A i \in 1 .. c : start + i - 1 = a + i /\ i \in 1 .. t
    BY <1>1, <1>4, <1>5
  <2>2. \A i \in 1 .. c : (IF r[a + i] = <<>> THEN <<>> ELSE Tail(r[a + i])) = v.text[i]
    BY <1>9, <1>10, <2>1
  <2>3. text = [i \in 1 .. c |-> IF r[start + i - 1] = <<>> THEN <<>> ELSE Tail(r[start + i - 1])]
    BY <1>3, <2>1 DEF PromptRows
  <2> HIDE DEF text
  <2> QED
    BY <2>1, <2>2, <2>3
<1> HIDE DEF text
<1>14. c \in 0 .. Len(v.text) /\ c \in Nat /\ \A i \in 1 .. c : v.text[i] \in Seq(Token)
  <2>1. \A i \in 1 .. c : i \in 1 .. Len(v.text)
    BY <1>1, <1>8
  <2> QED
    BY <1>1, <1>8, <2>1, ElementOfSeq
<1>15. text \in Seq(Seq(Token)) /\ Len(text) = c /\ \A i \in 1 .. c : text[i] = v.text[i]
  BY <1>13, <1>14
<1>16. WithoutBlankEnd(text) = WithoutBlankEnd(v.text)
  BY <1>8, <1>12, <1>14, <1>15, BlankEnd
<1> QED
  BY <1>6, <1>16 DEF IsDraft, text

\* A row that looks like an empty composer's is the first row of a text, which is
\* a placeholder or faint.
LEMMA EmptyLook ==
  ASSUME NEW v \in Views, NEW y \in 1 .. Len(RowsOf(v)), LooksEmpty(RowsOf(v)[y])
  PROVE  /\ v.kind = "composer" /\ (IsEmpty(v) \/ v.pen = "faint")
         /\ y = Len(v.above) + 1
<1> DEFINE a == Len(v.above)
           t == Len(TextRows(v))
           b == Len(v.bottom)
           n == v.inset
           rows == RowsOf(v)
           row == rows[y]
<1>1. a \in Nat /\ b \in Nat /\ t \in Nat \ {0} /\ n \in Nat
      /\ (\A i \in 1 .. a : rows[i] = v.above[i])
      /\ (\A i \in 1 .. t : rows[a + i] = TextRows(v)[i])
      /\ (\A i \in 1 .. n : rows[a + t + i] = <<>>)
      /\ \A i \in 1 .. b : rows[a + t + n + i] = Paint(v.bottom[i], "faint")
  BY RowsOfAre
<1>2. Len(row) > 1 /\ row[1][1] = "glyph" /\ row[1][2] # "faint"
      /\ \A x \in 2 .. Len(row) : row[x][2] = "faint"
  BY DEF LooksEmpty
<1>3. \/ y \in 1 .. a
      \/ \E i \in 1 .. t : y = a + i
      \/ \E i \in 1 .. n : y = a + t + i
      \/ \E i \in 1 .. b : y = a + t + n + i
  BY RowIsSomewhere
<1>4. y \notin 1 .. a
  <2>1. y \in 1 .. a => LooksEmpty(v.above[y])
    BY <1>1
  <2> QED
    BY <2>1, OnlyComposersLookEmpty
<1>5. ASSUME NEW i \in 1 .. n, y = a + t + i PROVE FALSE
  <2>1. row = <<>>
    BY <1>1, <1>5
  <2> HIDE DEF row
  <2> QED
    BY <1>2, <2>1
<1>6. ASSUME NEW i \in 1 .. b, y = a + t + n + i PROVE FALSE
  <2>1. row = Paint(v.bottom[i], "faint") /\ v.bottom[i] \in Seq(Token) /\ "faint" \in Pen
    BY <1>1, <1>6, ViewFields, ElementOfSeq DEF Pen
  <2>2. Len(row) = Len(v.bottom[i]) /\ \A x \in 1 .. Len(row) : row[x] = <<v.bottom[i][x], "faint">>
    BY <2>1, BottomRow
  <2> HIDE DEF row
  <2>3. Len(v.bottom[i]) \in Nat
    BY <2>1
  <2>4. 1 \in 1 .. Len(row)
    BY <1>2, <2>2, <2>3
  <2>5. row[1] = <<v.bottom[i][1], "faint">>
    BY <2>2, <2>4
  <2> QED
    BY <1>2, <2>5
<1>7. PICK i \in 1 .. t : y = a + i
  BY <1>3, <1>4, <1>5, <1>6
<1>8. row = TextRows(v)[i]
  BY <1>1, <1>7
<1> HIDE DEF row
<1>9. i = 1
  <2>1. i # 1 => i \in 2 .. t
    BY <1>1
  <2>2. i # 1 => TextRows(v)[i] = <<>> \/ TextRows(v)[i][1] = <<"margin", "plain">>
    BY <2>1, TextRowsAre
  <2>3. i # 1 => row = <<>> \/ row[1] = <<"margin", "plain">>
    BY <1>8, <2>2
  <2>4. row # <<>>
    BY <1>2
  <2> QED
    BY <1>2, <2>3, <2>4
<1>10. row[1] = <<v.lead, "plain">>
  BY <1>8, <1>9, TextRowsAre
<1>11. v.kind # "shell"
  <2>1. v.lead = "glyph"
    BY <1>2, <1>10
  <2> QED
    BY <2>1, LeadTellsShells
<1>12. IsEmpty(v) \/ v.pen = "faint"
  <2> SUFFICES ASSUME ~IsEmpty(v) PROVE v.pen = "faint"
    OBVIOUS
  <2>1. 1 \in 1 .. Len(v.text) /\ 2 \in 2 .. Len(TextRows(v)[1])
    <3>1. Len(v.text) \in Nat \ {0}
      BY TextRowsAre
    <3>2. TextRows(v)[1] \in Seq(Cell)
      BY <1>1, TextRowsAre, ElementOfSeq
    <3> QED
      BY <1>2, <1>8, <1>9, <3>1, <3>2
  <2>2. TextRows(v)[1][2] = <<v.text[1][2 - 1], v.pen>>
    BY <2>1, TextRowsAre
  <2>3. row[2] = <<v.text[1][2 - 1], v.pen>> /\ row[2][2] = "faint"
    BY <1>2, <1>8, <1>9, <2>1, <2>2
  <2> QED
    BY <2>3
<1>13. v.kind # "dialog"
  BY <1>12, OnlyComposersLookEmpty
<1> QED
  BY <1>7, <1>9, <1>11, <1>12, <1>13, ViewFields

\* A screen between two views: every row is a row of one of them, or blank.
IsBetween(rows, first, second) ==
  /\ rows \in Seq(Seq(Cell)) /\ Len(rows) = Len(RowsOf(second))
  /\ \A y \in 1 .. Len(rows) :
       \/ rows[y] = RowsOf(second)[y]
       \/ y \in 1 .. Len(RowsOf(first)) /\ rows[y] = RowsOf(first)[y]
       \/ rows[y] = <<>>
  /\ first = second => rows = RowsOf(second)

\* One of two views was a composer without a draft, or with one that is faint; if
\* they are one, nothing else is below the cursor.
OneWasEmpty(first, second) ==
  \E v \in {first, second} :
    /\ v.kind = "composer" /\ (IsEmpty(v) \/ v.pen = "faint")
    /\ {first, second} = {v} => \A i \in 2 .. Len(v.text) : v.text[i] = <<>>

\* What is taken for an empty composer, between two views, is one of them.
LEMMA AbsentSeen ==
  ASSUME NEW first \in Views, NEW second \in Views, NEW rows, IsBetween(rows, first, second),
         NEW m \in [height : Nat, cursor : [x : Nat, y : Nat], mode : BOOLEAN],
         m.height = Len(rows), Visible(m, GridOf(rows)).kind = "absent"
  PROVE  OneWasEmpty(first, second)
<1> DEFINE y == m.cursor.y
           r == TokenRows(rows)
<1>1. rows \in Seq(Seq(Cell)) /\ Len(rows) = Len(RowsOf(second))
      /\ \A z \in 1 .. Len(rows) :
           \/ rows[z] = RowsOf(second)[z]
           \/ z \in 1 .. Len(RowsOf(first)) /\ rows[z] = RowsOf(first)[z]
           \/ rows[z] = <<>>
  BY DEF IsBetween
<1>2. IsSupported(r, y) /\ y \in StartRows(r, y)
      /\ IsPlaceholder(GridOf(rows)[y]) /\ ~(y > m.height - 2)
  BY <1>1, VisibleIs
<1>3. y \in Nat /\ y \in 1 .. y /\ StartsWith(r[y], "glyph")
  BY <1>2 DEF StartRows
<1>4. y \in 1 .. Len(rows)
  <2>1. m.height \in Nat
    OBVIOUS
  <2> DEFINE h == m.height
  <2>2. h \in Nat /\ ~(y > h - 2) /\ h = Len(rows)
    BY <1>2, <2>1
  <2> HIDE DEF h, y
  <2> QED
    BY <1>3, <2>2
<1> HIDE DEF y
<1>5. Len(rows[y]) > 1 /\ rows[y][1][2] # "faint"
      /\ (\A x \in 2 .. Len(rows[y]) : rows[y][x][2] = "faint")
      /\ r[y] = Tokens(rows[y])
  BY <1>1, <1>2, <1>4, GridIs
<1>6. rows[y] \in Seq(Cell)
  BY <1>1, <1>4, ElementOfSeq
<1>7. rows[y][1][1] = "glyph"
  <2>1. Tokens(rows[y])[1] = "glyph"
    BY <1>3, <1>5 DEF StartsWith
  <2>2. 1 \in 1 .. Len(rows[y])
    BY <1>5, <1>6
  <2> QED
    BY <1>6, <2>1, <2>2, TokensAre
<1>8. LooksEmpty(rows[y])
  BY <1>5, <1>7 DEF LooksEmpty
<1>9. PICK v \in {first, second} : y \in 1 .. Len(RowsOf(v)) /\ rows[y] = RowsOf(v)[y]
  <2>1. rows[y] # <<>>
    BY <1>5, <1>6
  <2> QED
    BY <1>1, <1>4, <2>1
<1>10. v.kind = "composer" /\ (IsEmpty(v) \/ v.pen = "faint") /\ y = Len(v.above) + 1
  <2>1. v \in Views /\ LooksEmpty(RowsOf(v)[y])
    BY <1>8, <1>9
  <2> QED
    BY <1>9, <2>1, EmptyLook
<1>11. ASSUME {first, second} = {v}, NEW i \in 2 .. Len(v.text)
       PROVE  v.text[i] = <<>>
  <2>1. first = v /\ second = v /\ rows = RowsOf(v) /\ v \in Views
    BY <1>11 DEF IsBetween
  <2>2. Len(v.text) \in Nat /\ ~IsEmpty(v)
    BY <2>1, ViewFields DEF IsEmpty
  <2>3. Len(TextRows(v)) = Len(v.text) /\ 1 \in 1 .. Len(TextRows(v))
    BY <2>1, <2>2, TextRowsAre
  <2>4. \A j \in 1 + 1 .. Len(TextRows(v)) : TextRows(v)[j] = <<>>
    <3>1. IsSupported(TokenRows(RowsOf(v)), Len(v.above) + 1)
      BY <1>2, <1>10, <2>1
    <3> QED
      BY <1>10, <2>1, <2>3, <3>1, BelowCursor
  <2>5. i \in 1 + 1 .. Len(TextRows(v)) /\ i \in 1 .. Len(v.text)
    BY <2>2, <2>3
  <2>6. TextRows(v)[i] = <<>> <=> i # 1 /\ v.text[i] = <<>>
    BY <2>1, <2>2, <2>5, TextRowsAre
  <2> QED
    BY <2>4, <2>5, <2>6
<1> QED
  BY <1>9, <1>10, <1>11 DEF OneWasEmpty

----------------------------------------------------------------------------
(* The footers Codex shows are supported.                                  *)

\* A hint is an instructional footer.
LEMMA HintIsInstructional ==
  ASSUME NEW row \in Seq(Token), IsHint(row)
  PROVE  /\ row # <<>> /\ row[1] = "margin" /\ Len(row) > 1 /\ row[2] # "space"
         /\ IsInstructional(Tail(row))
<1> DEFINE content == Tail(row)
<1>1. /\ "hint" \in Token /\ "left" \in Token /\ "margin" \in Token /\ "space" \in Token
  BY DEF Token
<1>2. CASE row = <<"margin", "hint">> \/ row = <<"margin", "left">>
  <2>1. Len(row) = 2 /\ row[1] = "margin" /\ row[2] \in {"hint", "left"} /\ row # <<>>
    BY <1>2
  <2>2. content \in Seq(Token) /\ Len(content) = 1 /\ content[1] = row[2]
    <3>1. content \in Seq(Token) /\ Len(content) = Len(row) - 1
          /\ \A i \in 1 .. Len(content) : content[i] = row[i + 1]
      BY <2>1, HeadTailProperties
    <3> HIDE DEF content
    <3>2. Len(content) = 1
      BY <2>1, <3>1
    <3>3. 1 \in 1 .. Len(content) /\ 1 + 1 = 2
      BY <3>2
    <3> QED
      BY <3>1, <3>2, <3>3
  <2>3. \A t \in {"hint", "left"} : <<t>> \in Seq(Token) /\ Len(<<t>>) = 1 /\ <<t>>[1] = t
    BY <1>1
  <2> HIDE DEF content
  <2>4. content = <<row[2]>>
    <3>1. \A i \in 1 .. Len(content) : i = 1
      BY <2>2
    <3>2. \A i \in 1 .. Len(content) : content[i] = <<row[2]>>[i]
      BY <2>1, <2>2, <2>3, <3>1
    <3> QED
      BY <2>1, <2>2, <2>3, <3>2, SeqEqual
  <2> QED
    BY <2>1, <2>4 DEF IsInstructional, content
<1>3. ASSUME NEW n \in 1 .. Len(row),
             row = <<"margin", "hint">> \o [i \in 1 .. n |-> "space"] \o <<"left">>
      PROVE  /\ row # <<>> /\ row[1] = "margin" /\ Len(row) > 1 /\ row[2] # "space"
             /\ IsInstructional(Tail(row))
  <2> DEFINE p == <<"margin", "hint">>
             q == [i \in 1 .. n |-> "space"]
             l == <<"left">>
             pq == p \o q
  <2>1. n \in Nat /\ n >= 1
    OBVIOUS
  <2>2. p \in Seq(Token) /\ Len(p) = 2 /\ p[1] = "margin" /\ p[2] = "hint"
        /\ l \in Seq(Token) /\ Len(l) = 1 /\ l[1] = "left"
    BY <1>1
  <2>3. q \in Seq(Token) /\ Len(q) = n /\ \A i \in 1 .. n : q[i] = "space"
    BY <1>1, <2>1
  <2> HIDE DEF p, q, l
  <2>4. p \o q \in Seq(Token) /\ Len(p \o q) = Len(p) + Len(q)
        /\ \A i \in 1 .. Len(p) + Len(q) : (p \o q)[i] = IF i <= Len(p) THEN p[i] ELSE q[i - Len(p)]
    BY <2>2, <2>3, ConcatProperties
  <2>5. pq \in Seq(Token) /\ Len(pq) = 2 + n /\ pq[1] = "margin" /\ pq[2] = "hint"
        /\ \A i \in 3 .. 2 + n : pq[i] = "space"
    <3>1. Len(p) + Len(q) = 2 + n
      BY <2>2, <2>3
    <3>2. 1 \in 1 .. 2 + n /\ 1 <= 2 /\ 2 \in 1 .. 2 + n /\ 2 <= 2
          /\ \A i \in 3 .. 2 + n : i \in 1 .. 2 + n /\ ~(i <= 2) /\ i - 2 \in 1 .. n
      BY <2>1
    <3> QED
      BY <2>1, <2>2, <2>3, <2>4, <3>1, <3>2
  <2> HIDE DEF pq
  <2>6. pq \o l \in Seq(Token) /\ Len(pq \o l) = Len(pq) + Len(l)
        /\ \A i \in 1 .. Len(pq) + Len(l) : (pq \o l)[i] = IF i <= Len(pq) THEN pq[i] ELSE l[i - Len(pq)]
    BY <2>2, <2>5, ConcatProperties
  <2>7. row = pq \o l
    BY <1>3 DEF pq, p, q, l
  <2>8. Len(row) = 3 + n /\ row[1] = "margin" /\ row[2] = "hint" /\ row[3 + n] = "left"
        /\ \A i \in 3 .. 2 + n : row[i] = "space"
    <3>1. Len(pq) + Len(l) = 3 + n
      BY <2>1, <2>2, <2>5
    <3>2. 1 \in 1 .. 3 + n /\ 1 <= 2 + n /\ 2 \in 1 .. 3 + n /\ 2 <= 2 + n
          /\ 3 + n \in 1 .. 3 + n /\ ~(3 + n <= 2 + n) /\ 3 + n - (2 + n) = 1
          /\ \A i \in 3 .. 2 + n : i \in 1 .. 3 + n /\ i <= 2 + n
      BY <2>1
    <3> QED
      BY <2>2, <2>5, <2>6, <2>7, <3>1, <3>2
  <2>9. row # <<>> /\ Len(row) > 1
    BY <2>1, <2>8
  <2>10. content \in Seq(Token) /\ Len(content) = Len(row) - 1
         /\ \A i \in 1 .. Len(content) : content[i] = row[i + 1]
    BY <2>9, HeadTailProperties
  <2> HIDE DEF content
  <2>11. Len(content) = 2 + n
    BY <2>1, <2>8, <2>10
  <2>12. content[1] = "hint" /\ content[2 + n] = "left"
         /\ \A i \in 2 .. 1 + n : content[i] = "space"
    <3>1. 1 \in 1 .. 2 + n /\ 1 + 1 = 2 /\ 2 + n \in 1 .. 2 + n /\ 2 + n + 1 = 3 + n
          /\ \A i \in 2 .. 1 + n : i \in 1 .. 2 + n /\ i + 1 \in 3 .. 2 + n
      BY <2>1
    <3> QED
      BY <2>8, <2>10, <2>11, <3>1
  <2>13. Head(content) = "hint" /\ Last(content) = "left" /\ Len(content) > 2
         /\ \A i \in 2 .. Len(content) - 1 : content[i] = "space"
    <3>1. content # <<>> /\ 2 + n > 2 /\ 2 + n - 1 = 1 + n
      BY <2>1, <2>11
    <3> QED
      BY <2>10, <2>11, <2>12, <3>1 DEF Last
  <2> QED
    BY <2>8, <2>9, <2>13 DEF IsInstructional, content
<1> QED
  BY <1>2, <1>3 DEF IsHint

\* Of a status line, with an indicator or without one, the status is what counts.
LEMMA ZoneIsStatus ==
  ASSUME NEW row \in Seq(Token), NEW n \in 1 .. Len(row) - 1,
         SubSeq(row, 2, n + 1) \in Seq(Segment),
         \/ n = Len(row) - 1
         \/ /\ WidthOf(row) = Width - 2 /\ n < Len(row) - 2
            /\ \A i \in n + 2 .. Len(row) - 1 : row[i] = "space"
            /\ row[Len(row)] = "indicator"
  PROVE  /\ StatusLeftZone(row) = SubSeq(row, 2, n + 1)
         /\ Len(SubSeq(row, 2, n + 1)) = n
         /\ \A i \in 1 .. n : SubSeq(row, 2, n + 1)[i] = row[i + 1] /\ row[i + 1] \in Segment
<1> DEFINE content == Tail(row)
           z == SubSeq(row, 2, n + 1)
           l == Len(row)
           S == {0} \cup {i \in 1 .. Len(content) - 1 : content[i] # "space"}
           end == Max(S)
<1>1. l \in Nat /\ n \in Nat /\ n >= 1 /\ n <= l - 1 /\ row # <<>>
  OBVIOUS
<1>2. content \in Seq(Token) /\ Len(content) = l - 1
      /\ \A i \in 1 .. Len(content) : content[i] = row[i + 1]
  BY <1>1, HeadTailProperties
<1>3. Len(z) = n /\ (\A i \in 1 .. n : z[i] = row[i + 1])
  <2>1. \A i \in 2 .. n + 1 : row[i] \in Token
    <3>1. \A i \in 2 .. n + 1 : i \in 1 .. l
      <4> HIDE DEF l
      <4> QED
        BY <1>1
    <3> QED
      BY <3>1, ElementOfSeq
  <2>2. n + 1 \in Int /\ 2 \in Int
    BY <1>1
  <2>3. Len(z) = (IF 2 <= n + 1 THEN n + 1 - 2 + 1 ELSE 0)
        /\ \A i \in 1 .. n + 1 - 2 + 1 : z[i] = row[2 + i - 1]
    BY <2>1, <2>2, SubSeqProperties
  <2>4. 2 <= n + 1 /\ n + 1 - 2 + 1 = n /\ \A i \in 1 .. n : 2 + i - 1 = i + 1
    BY <1>1
  <2> HIDE DEF z
  <2> QED
    BY <2>3, <2>4
<1>4. \A i \in 1 .. n : z[i] \in Segment /\ z[i] \in Token
  <2>1. z \in Seq(Segment)
    OBVIOUS
  <2> HIDE DEF z
  <2> QED
    BY <1>3, <2>1, ElementOfSeq DEF Token
<1>5. z \in Seq(Token)
  <2>1. z \in Seq(Segment)
    OBVIOUS
  <2> HIDE DEF z
  <2> QED
    BY <1>3, <1>4, <2>1
<1>6. "space" \notin Segment /\ "indicator" \notin Segment
  BY DEF Segment
<1>7. StatusLeftZone(row) =
        IF /\ WidthOf(row) + 2 = Width /\ Last(content) = "indicator"
           /\ end > 0 /\ end < Len(content) - 1
        THEN SubSeq(content, 1, end) ELSE content
  BY DEF StatusLeftZone
<1>8. Last(content) = row[l]
  <2>1. l - 1 \in 1 .. Len(content) /\ l - 1 + 1 = l
    <3> HIDE DEF l, content
    <3> QED
      BY <1>1, <1>2
  <2> HIDE DEF content, l
  <2> QED
    BY <1>2, <2>1 DEF Last
<1> HIDE DEF content, end, z, l
<1>9. CASE n = l - 1
  <2>1. row[l] # "indicator"
    <3>1. z[n] \in Segment /\ z[n] = row[n + 1] /\ n + 1 = l
      BY <1>1, <1>3, <1>4, <1>9
    <3> QED
      BY <3>1, <1>6
  <2>2. StatusLeftZone(row) = content
    BY <1>7, <1>8, <2>1
  <2>3. Len(content) = Len(z) /\ \A i \in 1 .. Len(content) : content[i] = z[i]
    BY <1>2, <1>3, <1>9
  <2>4. content = z
    BY <1>2, <1>5, <2>3, SeqEqual
  <2> QED
    BY <1>3, <1>4, <2>2, <2>4 DEF z
<1>10. CASE /\ WidthOf(row) = Width - 2 /\ n < l - 2
            /\ \A i \in n + 2 .. l - 1 : row[i] = "space"
            /\ row[l] = "indicator"
  <2>1. WidthOf(row) + 2 = Width
    <3> DEFINE w == WidthOf(row)
    <3>1. w = Width - 2
      BY <1>10
    <3> HIDE DEF w
    <3>2. w + 2 = Width
      BY <3>1, WidthHoldsMargin
    <3> QED
      BY <3>2 DEF w
  <2>2. content[n] # "space"
    <3>1. n \in 1 .. n /\ n \in 1 .. Len(content)
      BY <1>1, <1>2
    <3> QED
      BY <1>2, <1>3, <1>4, <1>6, <3>1
  <2>3. \A i \in n + 1 .. l - 2 : content[i] = "space"
    <3>1. \A i \in n + 1 .. l - 2 : i \in 1 .. Len(content) /\ i + 1 \in n + 2 .. l - 1
      BY <1>1, <1>2
    <3> QED
      BY <1>2, <1>10, <3>1
  <2>4. n \in S /\ S \subseteq 0 .. l - 2 /\ S # {} /\ l - 2 \in Nat
    <3>1. l - 2 \in Nat /\ n \in 1 .. l - 2 /\ Len(content) - 1 = l - 2
      BY <1>1, <1>2, <1>10
    <3> QED
      BY <2>2, <3>1
  <2>5. \A i \in S : i = 0 \/ (i \in 1 .. l - 2 /\ content[i] # "space")
    <3>1. Len(content) - 1 = l - 2
      BY <1>1, <1>2
    <3> QED
      BY <3>1
  <2> HIDE DEF S
  <2>6. end \in S /\ \A i \in S : i <= end
    BY <2>4, GreatestNumber DEF end
  <2>7. end = n
    <3>1. n <= end /\ end \in 0 .. l - 2
      BY <2>4, <2>6
    <3>2. end \in n + 1 .. l - 2 => FALSE
      BY <1>1, <2>3, <2>5, <2>6
    <3> QED
      BY <1>1, <3>1, <3>2
  <2>8. end > 0 /\ end < Len(content) - 1
    BY <1>1, <1>2, <1>10, <2>7
  <2>9. StatusLeftZone(row) = SubSeq(content, 1, n)
    BY <1>7, <1>8, <1>10, <2>1, <2>7, <2>8
  <2> DEFINE c == SubSeq(content, 1, n)
  <2>10. c \in Seq(Token) /\ Len(c) = n /\ \A i \in 1 .. n : c[i] = content[i]
    <3>1. \A i \in 1 .. n : content[i] \in Token
      <4>1. \A i \in 1 .. n : i \in 1 .. Len(content)
        BY <1>1, <1>2
      <4> QED
        BY <1>2, <4>1, ElementOfSeq
    <3>2. c \in Seq(Token) /\ Len(c) = (IF 1 <= n THEN n - 1 + 1 ELSE 0)
          /\ \A i \in 1 .. n - 1 + 1 : c[i] = content[1 + i - 1]
      BY <1>1, <3>1, SubSeqProperties
    <3>3. 1 <= n /\ n - 1 + 1 = n /\ \A i \in 1 .. n : 1 + i - 1 = i
      BY <1>1
    <3> HIDE DEF c
    <3> QED
      BY <3>2, <3>3
  <2> HIDE DEF c
  <2>11. \A i \in 1 .. n : c[i] = z[i]
    <3>1. \A i \in 1 .. n : i \in 1 .. Len(content)
      BY <1>1, <1>2
    <3> QED
      BY <1>2, <1>3, <2>10, <3>1
  <2>12. c = z
    BY <1>3, <1>5, <2>10, <2>11, SeqEqual
  <2> QED
    BY <1>3, <1>4, <2>9, <2>12 DEF c, z
<1> QED
  BY <1>9, <1>10 DEF l

\* A status says enough to be told from a popup's last row.
LEMMA StatusIsConfigured ==
  ASSUME NEW row \in Seq(Token), IsStatusLine(row)
  PROVE  /\ row # <<>> /\ row[1] = "margin" /\ Len(row) > 1 /\ row[2] # "space"
         /\ IsConfigured(row)
<1>1. PICK n \in 1 .. Len(row) - 1 :
        /\ row[1] = "margin" /\ IsStatus(SubSeq(row, 2, n + 1))
        /\ \/ n = Len(row) - 1
           \/ /\ WidthOf(row) = Width - 2 /\ n < Len(row) - 2
              /\ \A i \in n + 2 .. Len(row) - 1 : row[i] = "space"
              /\ row[Len(row)] = "indicator"
  BY DEF IsStatusLine
<1> DEFINE z == SubSeq(row, 2, n + 1)
           segments == SegmentsOf(StatusLeftZone(row))
           evidence == IF Last(segments) = "cut" THEN Front(segments) ELSE segments
           places == DOMAIN evidence
<1>2. z \in Seq(Segment \ {"none"}) /\ z \in Seq(Segment)
  <2>1. z \in Seq(Segment \ {"none"})
    BY <1>1 DEF IsStatus
  <2>2. Len(z) \in Nat /\ \A i \in 1 .. Len(z) : z[i] \in Segment
    BY <2>1, ElementOfSeq
  <2> HIDE DEF z
  <2> QED
    BY <2>1, <2>2
<1>3. StatusLeftZone(row) = z /\ Len(z) = n
      /\ \A i \in 1 .. n : z[i] = row[i + 1] /\ row[i + 1] \in Segment
  BY <1>1, <1>2, ZoneIsStatus
<1> HIDE DEF z
<1>4. n \in Nat /\ n >= 1 /\ Len(row) > 1 /\ row # <<>> /\ Len(row) \in Nat
  OBVIOUS
<1>5. "space" \notin Segment /\ \A i \in 1 .. n : z[i] \in Segment \ {"none"} /\ z[i] # "space"
  <2>1. "space" \notin Segment
    BY DEF Segment
  <2> QED
    BY <1>2, <1>3, <2>1, ElementOfSeq
<1>6. row[2] # "space"
  <2>1. 1 \in 1 .. n /\ 1 + 1 = 2
    BY <1>4
  <2> QED
    BY <1>3, <1>5, <2>1
<1>7. segments = z
  <2>1. DOMAIN z = 1 .. n
    BY <1>2, <1>3
  <2>2. SegmentsOf(z) = [i \in 1 .. n |->
           IF z[i] # "cut" /\ \E j \in {i - 1, i, i + 1} \cap DOMAIN z : z[j] = "space"
           THEN "opaque" ELSE z[i]]
    BY <1>3 DEF SegmentsOf
  <2>3. \A i \in 1 .. n : ~(\E j \in {i - 1, i, i + 1} \cap DOMAIN z : z[j] = "space")
    BY <1>5, <2>1
  <2>4. SegmentsOf(z) = [i \in 1 .. n |-> z[i]]
    BY <2>2, <2>3
  <2>5. z = [i \in 1 .. n |-> z[i]]
    BY <1>2, <1>3
  <2> QED
    BY <1>3, <2>4, <2>5
<1>8. \A i \in 1 .. n - 1 : z[i] # "cut"
  BY <1>1, <1>3 DEF IsStatus, z
<1>9. PICK i \in 1 .. n, j \in 1 .. n :
        \/ z[i] = "context" \/ z[1] = "model"
        \/ /\ Family(z[i], i) # {} /\ Family(z[j], j) # {}
           /\ Family(z[i], i) # Family(z[j], j)
  BY <1>1, <1>3 DEF IsStatus, z
<1> HIDE DEF segments
<1>10. /\ \A k \in 1 .. n : z[k] # "cut" => k \in places /\ evidence[k] = z[k]
       /\ \A k \in places : k \in 1 .. n /\ evidence[k] = z[k] /\ z[k] # "cut"
  <2>1. Last(segments) = z[n]
    BY <1>3, <1>7 DEF Last
  <2>2. CASE z[n] = "cut"
    <3> DEFINE f == SubSeq(z, 1, n - 1)
    <3>1. evidence = f
      BY <1>3, <1>7, <2>1, <2>2 DEF Front
    <3>2. \A k \in 1 .. n - 1 : z[k] \in Segment
      BY <1>5
    <3>3. f \in Seq(Segment) /\ Len(f) = (IF 1 <= n - 1 THEN n - 1 - 1 + 1 ELSE 0)
          /\ \A k \in 1 .. n - 1 - 1 + 1 : f[k] = z[1 + k - 1]
      BY <1>4, <3>2, SubSeqProperties
    <3>4. n - 1 - 1 + 1 = n - 1 /\ (~(1 <= n - 1) => n - 1 = 0) /\ \A k \in 1 .. n - 1 : 1 + k - 1 = k
      BY <1>4
    <3> HIDE DEF f
    <3>5. DOMAIN f = 1 .. n - 1 /\ \A k \in 1 .. n - 1 : f[k] = z[k]
      BY <3>3, <3>4
    <3>6. \A k \in 1 .. n : z[k] # "cut" => k \in 1 .. n - 1
      BY <1>4, <2>2
    <3>7. \A k \in 1 .. n - 1 : k \in 1 .. n
      BY <1>4
    <3> QED
      BY <1>8, <3>1, <3>5, <3>6, <3>7
  <2>3. CASE z[n] # "cut"
    <3>1. evidence = z /\ DOMAIN z = 1 .. n
      BY <1>2, <1>3, <1>7, <2>1, <2>3
    <3>2. \A k \in 1 .. n : k = n \/ k \in 1 .. n - 1
      BY <1>4
    <3> QED
      BY <1>8, <2>3, <3>1, <3>2
  <2> QED
    BY <2>2, <2>3
<1> HIDE DEF evidence, places
<1> DEFINE families == UNION {Family(evidence[k], k) : k \in places}
<1>11. \/ \E k \in places : evidence[k] = "context" \/ (k = 1 /\ evidence[k] = "model")
       \/ EnoughFamilies(families)
  <2>1. CASE z[i] = "context"
    BY <1>10, <2>1
  <2>2. CASE z[1] = "model"
    <3>1. 1 \in 1 .. n
      BY <1>4
    <3> QED
      BY <1>10, <2>2, <3>1
  <2>3. CASE /\ Family(z[i], i) # {} /\ Family(z[j], j) # {}
             /\ Family(z[i], i) # Family(z[j], j)
    <3> DEFINE All == {"Model", "Workspace", "Accounting", "Runtime", "Git", "Identity"}
    <3>1. \A s, k : Family(s, k) = {} \/ (s # "cut" /\ \E f \in All : Family(s, k) = {f})
      BY DEF Family
    <3>2. IsFiniteSet(All)
      <4>1. IsFiniteSet({"Model"} \cup {"Workspace"} \cup {"Accounting"} \cup {"Runtime"}
                          \cup {"Git"} \cup {"Identity"})
        <5>1. IsFiniteSet({"Model"})
          BY FS_Singleton
        <5>2. \A S, x : IsFiniteSet(S) => IsFiniteSet(S \cup {x})
          BY FS_AddElement
        <5> QED
          BY <5>1, <5>2, Zenon
      <4>2. All = {"Model"} \cup {"Workspace"} \cup {"Accounting"} \cup {"Runtime"}
                    \cup {"Git"} \cup {"Identity"}
        OBVIOUS
      <4> QED
        BY <4>1, <4>2
    <3>3. PICK f \in All : Family(z[i], i) = {f} /\ z[i] # "cut"
      BY <2>3, <3>1
    <3>4. PICK g \in All : Family(z[j], j) = {g} /\ z[j] # "cut"
      BY <2>3, <3>1
    <3> HIDE DEF All
    <3>5. f # g
      BY <2>3, <3>3, <3>4
    <3>6. families \subseteq All
      BY <3>1
    <3>7. i \in places /\ evidence[i] = z[i] /\ j \in places /\ evidence[j] = z[j]
      BY <1>10, <3>3, <3>4
    <3>8. f \in families /\ g \in families
      BY <3>3, <3>4, <3>7
    <3> HIDE DEF families
    <3>9. IsFiniteSet(families)
      BY <3>2, <3>6, FS_Subset
    <3>10. IsFiniteSet({f}) /\ Cardinality({f}) = 1
      BY FS_Singleton
    <3>11. Cardinality({f} \cup {g}) = Cardinality({f}) + 1
      BY <3>5, <3>10, FS_AddElement
    <3>12. {f} \cup {g} \in SUBSET families
      BY <3>8
    <3>13. Cardinality({f} \cup {g}) <= Cardinality(families) /\ IsFiniteSet({f} \cup {g})
      BY <3>9, <3>12, FS_Subset
    <3>14. Cardinality(families) \in Nat
      BY <3>9, FS_CardinalityType
    <3>15. Cardinality(families) >= 2
      BY <3>10, <3>11, <3>13, <3>14
    <3> QED
      BY <3>15 DEF EnoughFamilies
  <2> QED
    BY <1>9, <2>1, <2>2, <2>3
<1>12. \A k \in DOMAIN segments : segments[k] # "none"
  <2>1. DOMAIN z = 1 .. n
    BY <1>2, <1>3
  <2> QED
    BY <1>5, <1>7, <2>1
<1>13. \A k \in places : evidence[k] # "cut"
  BY <1>10
<1>14. IsConfigured(row)
  BY <1>11, <1>12, <1>13 DEF IsConfigured, segments, evidence, places
<1> QED
  BY <1>1, <1>4, <1>6, <1>14

\* A footer that Codex shows is supported below the last row of the text.
LEMMA FooterIsSupported ==
  ASSUME NEW v \in Views, ShowsFooter(v)
  PROVE  IsSupported(TokenRows(RowsOf(v)), Len(v.above) + Len(TextRows(v)))
<1> DEFINE a == Len(v.above)
           t == Len(TextRows(v))
           b == Len(v.bottom)
           n == v.inset
           rows == RowsOf(v)
           r == TokenRows(rows)
           y == a + t
           footer == v.bottom[1]
           i == a + t + n + 1
<1>1. a \in Nat /\ b \in Nat /\ t \in Nat \ {0} /\ n \in Nat
      /\ rows \in Seq(Seq(Cell)) /\ Len(rows) = a + t + n + b
      /\ (\A k \in 1 .. n : rows[a + t + k] = <<>>)
      /\ \A k \in 1 .. b : rows[a + t + n + k] = Paint(v.bottom[k], "faint")
  BY RowsOfAre
<1>2. n > 0 /\ b > 0 /\ (IsHint(footer) \/ IsStatusLine(footer))
      /\ \A k \in 2 .. b : v.bottom[k] = <<>>
  BY ViewFields DEF ShowsFooter
<1>3. \A k \in 1 .. b : v.bottom[k] \in Seq(Token)
  BY ViewFields, ElementOfSeq
<1>4. Len(r) = Len(rows) /\ \A j \in 1 .. Len(rows) : r[j] = Tokens(rows[j])
  BY <1>1, GridIs
<1> DEFINE l == Len(r)
<1>5. l = a + t + n + b
  BY <1>1, <1>4
<1> HIDE DEF l, rows, r, a, t, b, n
<1>6. \A k \in 1 .. n : r[a + t + k] = <<>>
  <2>1. \A k \in 1 .. n : a + t + k \in 1 .. l
    BY <1>1, <1>5
  <2>2. \A k \in 1 .. n : r[a + t + k] = Tokens(rows[a + t + k]) /\ rows[a + t + k] = <<>>
    BY <1>1, <1>4, <2>1 DEF l
  <2>3. Tokens(<<>>) = <<>>
    BY DEF Tokens
  <2> QED
    BY <2>2, <2>3
<1>7. \A k \in 1 .. b : r[a + t + n + k] = v.bottom[k]
  <2>1. \A k \in 1 .. b : a + t + n + k \in 1 .. l
    BY <1>1, <1>5
  <2>2. \A k \in 1 .. b : r[a + t + n + k] = Tokens(rows[a + t + n + k])
                          /\ rows[a + t + n + k] = Paint(v.bottom[k], "faint")
    BY <1>1, <1>4, <2>1 DEF l
  <2>3. \A k \in 1 .. b : Tokens(Paint(v.bottom[k], "faint")) = v.bottom[k]
    BY <1>3, BottomRow DEF Pen
  <2> QED
    BY <2>2, <2>3
<1>8. footer \in Seq(Token) /\ r[i] = footer
  <2>1. 1 \in 1 .. b
    BY <1>1, <1>2
  <2> QED
    BY <1>3, <1>7, <2>1
<1>9. /\ footer # <<>> /\ footer[1] = "margin" /\ Len(footer) > 1 /\ footer[2] # "space"
      /\ IsInstructional(Tail(footer)) \/ IsConfigured(footer)
  <2> HIDE DEF footer
  <2> QED
    BY <1>2, <1>8, HintIsInstructional, StatusIsConfigured
<1> HIDE DEF footer
<1>10. i \in y + 2 .. l /\ i \in y + 1 .. l
  BY <1>1, <1>2, <1>5
<1>11. ASSUME NEW j \in y + 1 .. l, j # i PROVE r[j] = <<>>
  <2>1. CASE j < i
    <3> DEFINE k == j - y
    <3>1. k \in 1 .. n /\ a + t + k = j
      BY <1>1, <1>5, <2>1
    <3> HIDE DEF k
    <3> QED
      BY <1>6, <3>1
  <2>2. CASE j > i
    <3> DEFINE k == j - y - n
    <3>1. k \in 2 .. b /\ k \in 1 .. b /\ a + t + n + k = j
      BY <1>1, <1>5, <2>2
    <3> HIDE DEF k
    <3> QED
      BY <1>2, <1>7, <3>1
  <2>3. j < i \/ j > i
    BY <1>1, <1>5, <1>11
  <2> QED
    BY <2>1, <2>2, <2>3
<1>12. {j \in y + 1 .. l : r[j] # <<>>} = {i}
  <2> HIDE DEF i, y
  <2> QED
    BY <1>8, <1>9, <1>10, <1>11
<1> HIDE DEF i, y
<1>13. StartsWith(r[i], "margin")
  BY <1>8, <1>9 DEF StartsWith
<1>14. i \in FooterRows(r, y)
  BY <1>8, <1>9, <1>10, <1>12, <1>13 DEF FooterRows, l
<1>15. IsSupported(r, y)
  BY <1>8, <1>9, <1>14 DEF IsSupported
<1> QED
  BY <1>15 DEF r, rows, y, a, t

\* From the last row of a composer's text the search for the glyph ends at the first.
LEMMA StartIsFound ==
  ASSUME NEW v \in Views, v.lead = "glyph", NEW c \in 1 .. Len(TextRows(v))
  PROVE  StartRows(TokenRows(RowsOf(v)), Len(v.above) + c) = {Len(v.above) + 1}
<1> DEFINE a == Len(v.above)
           t == Len(TextRows(v))
           r == TokenRows(RowsOf(v))
           y == a + c
<1>1. a \in Nat /\ t \in Nat \ {0} /\ c \in 1 .. t
  BY RowsOfAre
<1>2. \A k \in StartRows(r, y) : k = a + 1
  BY StartOfText
<1>3. 1 \in 1 .. t /\ a + 1 \in 1 .. y
  <2> HIDE DEF a, t
  <2> QED
    BY <1>1
<1>4. StartsWith(r[a + 1], "glyph")
  BY <1>3, TextOnScreen
<1>5. \A i \in 1 .. t : i # 1 => r[a + i] = <<>> \/ StartsWith(r[a + i], "margin")
  BY TextOnScreen
<1> HIDE DEF r, a, t
<1>6. ASSUME NEW j \in a + 1 + 1 .. y PROVE r[j] = <<>> \/ StartsWith(r[j], "margin")
  <2> DEFINE i == j - a
  <2>1. i \in 1 .. t /\ i # 1 /\ a + i = j
    BY <1>1
  <2> HIDE DEF i
  <2> QED
    BY <1>5, <2>1
<1>7. a + 1 \in StartRows(r, y)
  BY <1>3, <1>4, <1>6 DEF StartRows
<1>8. StartRows(r, y) = {a + 1}
  BY <1>2, <1>7
<1> QED
  BY <1>8 DEF r, a

\* A supported view that stands still is read to the last row and blank.
LEMMA SupportedRead ==
  ASSUME NEW v \in Views, IsSupportedView(v)
  PROVE  /\ ValidGrid(MetadataOf(v), Styled(RowsOf(v)))
         /\ Visible(MetadataOf(v), GridOf(RowsOf(v)))
              = IF IsEmpty(v) THEN Absent ELSE Captured(v.text)
<1> DEFINE a == Len(v.above)
           t == Len(TextRows(v))
           b == Len(v.bottom)
           n == v.inset
           rows == RowsOf(v)
           g == GridOf(rows)
           r == TokenRows(rows)
           m == MetadataOf(v)
           y == m.cursor.y
           x == m.cursor.x
           start == CHOOSE k \in StartRows(r, y) : TRUE
           text == PromptRows(r, start, y)
<1>1. a \in Nat /\ b \in Nat /\ t \in Nat \ {0} /\ n \in Nat
      /\ rows \in Seq(Seq(Cell)) /\ Len(rows) = a + t + n + b
  BY RowsOfAre
<1>2. /\ v.kind = "composer" /\ ShowsFooter(v) /\ v.mode = FALSE
      /\ \A i \in 1 .. Len(rows) : \A j \in 1 .. Len(rows[i]) : rows[i][j][2] # "link"
      /\ ~IsEmpty(v) => /\ ~IsBlank(v.text) /\ ~(SizeOf(v.text) > MaxText)
                        /\ v.cursor = <<Len(v.text), Len(Last(v.text))>>
  BY ViewFields DEF IsSupportedView
<1>3. n > 0 /\ b > 0
  BY <1>1, <1>2, ViewFields DEF ShowsFooter
<1>4. m.height = Len(rows) /\ m.cursor = CursorOf(v) /\ m.mode = FALSE
  BY <1>2 DEF MetadataOf
<1>5. ValidGrid(m, Styled(rows))
  <2>1. \A i \in 1 .. Len(rows) : WidthOf(Tokens(rows[i])) <= Width
    BY RowsFitThePane
  <2> HIDE DEF rows, m
  <2> QED
    BY <1>1, <1>2, <1>4, <2>1, ScreenWithoutLinksIsValid
<1>6. y = a + t /\ x = 2 + (IF IsEmpty(v) THEN 0 ELSE Len(v.text[Len(v.text)]))
  <2>1. CASE IsEmpty(v)
    <3>1. t = 1
      BY <2>1, TextRowsAre
    <3> QED
      BY <1>4, <2>1, <3>1 DEF CursorOf
  <2>2. CASE ~IsEmpty(v)
    <3>1. t = Len(v.text)
      BY <2>2, TextRowsAre
    <3>2. v.cursor[1] = Len(v.text) /\ v.cursor[2] = Len(v.text[Len(v.text)])
      BY <1>2, <2>2 DEF Last
    <3>3. CursorOf(v).y = Len(v.above) + v.cursor[1] /\ CursorOf(v).x = 2 + v.cursor[2]
      BY <2>2 DEF CursorOf
    <3> QED
      BY <1>4, <2>2, <3>1, <3>2, <3>3
  <2> QED
    BY <2>1, <2>2
<1>7. IsSupported(r, y)
  BY <1>2, <1>6, FooterIsSupported
<1>8. StartRows(r, y) = {a + 1} /\ start = a + 1
  <2>1. v.lead = "glyph"
    BY <1>2, LeadTellsShells
  <2>2. t \in 1 .. t
    BY <1>1
  <2>3. StartRows(r, a + t) = {a + 1}
    BY <2>1, <2>2, StartIsFound
  <2> HIDE DEF r, y, a
  <2> QED
    BY <1>6, <2>3
<1>9. r = [i \in 1 .. Len(g) |-> Text(g[i])] /\ \A i \in 1 .. Len(rows) : r[i] = Tokens(rows[i])
  BY <1>1, GridIs
<1> DEFINE seen == Visible(m, g)
           q == [i \in 1 .. Len(g) |-> Text(g[i])]
<1>10. seen = LET s == CHOOSE k \in StartRows(q, y) : TRUE
              IN IF \/ m.mode \/ m.height < 3 \/ y > m.height - 2
                    \/ ~IsSupported(q, y) \/ StartRows(q, y) = {}
                 THEN Skipped("unsupported_layout")
                 ELSE IF s = y /\ x = 2
                 THEN IF IsPlaceholder(g[y]) THEN Absent ELSE Skipped("unsupported_layout")
                 ELSE IF ~AtEnd(q[y], x) THEN Skipped("unsupported_layout")
                 ELSE Admit(PromptRows(q, s, y))
  BY DEF Visible, PromptRows
<1>11. q = r
  BY <1>9
<1> HIDE DEF q, r, seen, g
<1>12. seen = IF \/ m.mode \/ m.height < 3 \/ y > m.height - 2
                 \/ ~IsSupported(r, y) \/ StartRows(r, y) = {}
              THEN Skipped("unsupported_layout")
              ELSE IF start = y /\ x = 2
              THEN IF IsPlaceholder(g[y]) THEN Absent ELSE Skipped("unsupported_layout")
              ELSE IF ~AtEnd(r[y], x) THEN Skipped("unsupported_layout")
              ELSE Admit(text)
  BY <1>10, <1>11
<1> HIDE DEF start, text
<1>13. ~(m.height < 3) /\ ~(y > m.height - 2)
  <2> DEFINE h == m.height
  <2>1. h = a + t + n + b
    BY <1>1, <1>4
  <2> HIDE DEF h, a, t, n, b, y
  <2>2. ~(h < 3) /\ ~(y > h - 2)
    BY <1>1, <1>3, <1>6, <2>1
  <2> QED
    BY <2>2 DEF h
<1> HIDE DEF m, y, x
<1>14. seen = IF start = y /\ x = 2
              THEN IF IsPlaceholder(g[y]) THEN Absent ELSE Skipped("unsupported_layout")
              ELSE IF ~AtEnd(r[y], x) THEN Skipped("unsupported_layout")
              ELSE Admit(text)
  <2>1. ~(\/ m.mode \/ m.height < 3 \/ y > m.height - 2
          \/ ~IsSupported(r, y) \/ StartRows(r, y) = {})
    BY <1>4, <1>7, <1>8, <1>13
  <2> QED
    BY <1>12, <2>1, Zenon
<1>15. t \in 1 .. t /\ 1 \in 1 .. t /\ y \in 1 .. Len(rows) /\ rows[y] = TextRows(v)[t]
       /\ r[y] = Tokens(TextRows(v)[t])
  <2>1. t \in 1 .. t /\ 1 \in 1 .. t
    BY <1>1
  <2> QED
    BY <1>6, <2>1, TextOnScreen DEF r
<1>16. CASE IsEmpty(v)
  <2>1. t = 1 /\ TextRows(v) = << <<<<v.lead, "plain">>, <<"a", "faint">>>> >>
    BY <1>16, TextRowsAre
  <2>2. start = y /\ x = 2
    BY <1>6, <1>8, <1>16, <2>1
  <2>3. rows[y] = <<<<v.lead, "plain">>, <<"a", "faint">>>>
    BY <1>15, <2>1
  <2>4. Len(rows[y]) > 1 /\ rows[y][1][2] # "faint"
        /\ \A i \in 2 .. Len(rows[y]) : rows[y][i][2] = "faint"
    <3> HIDE DEF rows
    <3> QED
      BY <2>3
  <2>5. IsPlaceholder(g[y])
    <3> HIDE DEF rows
    <3> QED
      BY <1>1, <1>15, <2>4, GridIs DEF g
  <2> QED
    BY <1>5, <1>14, <1>16, <2>2, <2>5 DEF seen, g, m
<1>17. CASE ~IsEmpty(v)
  <2>1. t = Len(v.text) /\ v.text \in Seq(Seq(Token)) /\ t \in Nat
    BY <1>17, TextRowsAre, ViewFields
  <2>2. \A i \in 1 .. t : /\ TextRows(v)[i] = <<>> <=> i # 1 /\ v.text[i] = <<>>
                          /\ TextRows(v)[i] # <<>> =>
                               /\ Tail(Tokens(TextRows(v)[i])) = v.text[i]
                               /\ Len(TextRows(v)[i]) = 1 + Len(v.text[i])
    BY <1>17, <2>1, TextRowsAre
  <2> DEFINE last == v.text[t]
  <2>3. last \in Seq(Token) /\ Len(last) \in Nat /\ x = 2 + Len(last)
    <3>1. last \in Seq(Token)
      BY <1>15, <2>1, ElementOfSeq
    <3> QED
      BY <1>6, <1>17, <2>1, <3>1
  <2>4. ~(t = 1 /\ last = <<>>)
    BY <1>2, <1>17, <2>1 DEF IsBlank
  <2> HIDE DEF last
  <2>5. ~(start = y /\ x = 2)
    <3>1. start = y => t = 1
      <4> HIDE DEF a, t
      <4> QED
        BY <1>1, <1>6, <1>8
    <3>2. x = 2 => last = <<>>
      BY <2>3
    <3> QED
      BY <2>4, <3>1, <3>2
  <2>6. AtEnd(r[y], x)
    <3>1. TextRows(v)[t] \in Seq(Cell)
      BY <1>1, <1>15, TextRowsAre, ElementOfSeq
    <3> DEFINE row == Tokens(TextRows(v)[t])
    <3>2. row \in Seq(Token) /\ Len(row) = Len(TextRows(v)[t]) /\ (row = <<>> <=> TextRows(v)[t] = <<>>)
      BY <3>1, TokensAre
    <3>3. TextRows(v)[t] = <<>> <=> t # 1 /\ last = <<>>
      BY <1>15, <2>2 DEF last
    <3>4. CASE row = <<>>
      <4>1. last = <<>>
        BY <3>2, <3>3, <3>4
      <4>2. x = 2
        BY <2>3, <4>1
      <4> QED
        BY <1>15, <3>4, <4>2 DEF AtEnd
    <3>5. CASE row # <<>>
      <4>1. last # <<>>
        BY <2>4, <3>2, <3>3, <3>5
      <4>2. x # 2
        BY <2>3, <4>1
      <4>3. Head(row) \in {"glyph", "margin"}
        <5>1. t = 1 => StartsWith(row, v.lead) /\ v.lead = "glyph"
          BY <1>2, TextRowsAre, LeadTellsShells
        <5>2. t # 1 => t \in 2 .. t
          <6>1. t \in Nat \ {0}
            BY <1>1
          <6> HIDE DEF t
          <6> QED
            BY <6>1
        <5>3. t # 1 => StartsWith(row, "margin")
          BY <3>2, <3>5, <5>2, TextRowsAre
        <5> QED
          BY <5>1, <5>3 DEF StartsWith
      <4>4. Len(row) = 1 + Len(last)
        BY <1>15, <2>2, <3>2, <3>5 DEF last
      <4> HIDE DEF row
      <4>5. WidthOf(row) = 2 + Len(row) - 1
        BY <3>5, <4>3 DEF WidthOf, CellsOf
      <4>6. WidthOf(row) = x
        BY <2>3, <4>4, <4>5
      <4> QED
        BY <1>15, <3>5, <4>2, <4>6 DEF AtEnd, row
    <3> QED
      BY <3>4, <3>5
  <2>7. text = v.text
    <3>1. \A i \in 1 .. t : r[a + i] = Tokens(TextRows(v)[i])
      BY TextOnScreen DEF r
    <3>2. \A i \in 1 .. t : TextRows(v)[i] \in Seq(Cell)
      BY TextRowsAre, ElementOfSeq
    <3>3. \A i \in 1 .. t : Tokens(TextRows(v)[i]) = <<>> <=> TextRows(v)[i] = <<>>
      BY <3>2, TokensAre
    <3>4. \A i \in 1 .. t : (IF r[a + i] = <<>> THEN <<>> ELSE Tail(r[a + i])) = v.text[i]
      BY <2>2, <3>1, <3>3
    <3>5. y - start + 1 = t /\ \A i \in 1 .. t : start + i - 1 = a + i
      <4> HIDE DEF a, t
      <4> QED
        BY <1>1, <1>6, <1>8
    <3>6. text = [i \in 1 .. t |-> IF r[start + i - 1] = <<>> THEN <<>> ELSE Tail(r[start + i - 1])]
      BY <3>5 DEF PromptRows, text
    <3> HIDE DEF t, a
    <3>7. text = [i \in 1 .. t |-> v.text[i]]
      BY <3>4, <3>5, <3>6
    <3>8. v.text = [i \in 1 .. t |-> v.text[i]]
      BY <2>1
    <3> QED
      BY <3>7, <3>8
  <2>8. Admit(text) = Captured(v.text)
    BY <1>2, <1>17, <2>7 DEF Admit
  <2>9. seen = Admit(text)
    BY <1>14, <2>5, <2>6, Zenon
  <2> QED
    BY <1>5, <1>17, <2>8, <2>9 DEF seen, g, m
<1> QED
  BY <1>16, <1>17

----------------------------------------------------------------------------
(* The reads, and Codex drawing meanwhile: the inductive invariant.        *)

MetadataType == [height : Nat, cursor : [x : Nat, y : Nat], mode : BOOLEAN]

\* What the rows say, read with the metadata m.
ReadingOf(m, rows) ==
  IF ValidGrid(m, Styled(rows)) THEN Visible(m, Decode(Styled(rows)))
  ELSE Skipped("invalid_pane")

\* The view that is drawn is the one before it, or it is not drawn yet.
PaneInv ==
  /\ old \in Views /\ new \in Views
  /\ drawn \in 0 .. Height + 1 /\ draws \in 0 .. MaxDraws
  /\ Whole <=> old = new
  /\ draws = 0 => old = new

\* As long as nothing is drawn, the metadata is that of the only view.
FirstInv == draws = 0 /\ pc \in {"grid", "after"} => before = MetadataOf(new)

\* What AbsentWasEmpty says of a view.
WasEmpty(v) ==
  /\ v.kind = "composer" /\ (IsEmpty(v) \/ v.pen = "faint")
  /\ shown = {v} => \A i \in 2 .. Len(v.text) : v.text[i] = <<>>

\* Rows of one view were read with its metadata, unless it is still drawn then.
AfterInv ==
  pc = "after" =>
    /\ result.kind = "absent" => \E v \in shown : WasEmpty(v)
    /\ \A v \in shown : shown = {v} =>
         /\ result = ReadingOf(before, RowsOf(v))
         /\ draws <= 1 => before = MetadataOf(v) \/ (old = v /\ new = v)
    /\ draws = 0 => shown = {new}

\* The properties are part of it: at the end only the reads' last step matters.
Inv ==
  /\ TypeOK /\ PaneInv /\ FirstInv /\ AfterInv
  /\ CapturedIsTheDraft /\ AbsentWasEmpty /\ SupportedDraftIsCaptured

\* The width of a row is a number.
LEMMA WidthIsNat ==
  ASSUME NEW r \in Seq(Token)
  PROVE  WidthOf(r) \in Nat
<1>1. CASE r = <<>>
  BY <1>1 DEF WidthOf
<1>2. CASE r # <<>>
  <2>1. Len(r) \in Nat \ {0} /\ CellsOf(Head(r)) \in {1, 2}
    BY <1>2 DEF CellsOf
  <2> QED
    BY <1>2, <2>1 DEF WidthOf
<1> QED
  BY <1>1, <1>2

\* The cursor of a view is a pair of numbers.
LEMMA CursorOfType ==
  ASSUME NEW v \in Views
  PROVE  CursorOf(v) \in [x : Nat, y : Nat]
<1>1. v.cursor[1] \in Nat /\ v.cursor[2] \in Nat /\ Len(v.above) \in Nat
  BY ViewFields
<1> QED
  BY <1>1 DEF CursorOf

\* What tmux says of the pane has its type; once a view is drawn it is about it.
LEMMA MetadataIs ==
  ASSUME PaneInv
  PROVE  /\ Metadata \in MetadataType
         /\ Whole => Metadata = MetadataOf(new)
<1>1. old \in Views /\ new \in Views /\ drawn \in 0 .. Height + 1
  BY DEF PaneInv
<1>2. Height \in Nat /\ RowsOf(new) \in Seq(Seq(Cell))
  BY <1>1, RowsOfAre DEF Height
<1>3. new.mode \in BOOLEAN
  BY <1>1, ViewFields
<1>4. Cursor \in [x : Nat, y : Nat]
  <2>1. CASE Whole \/ drawn = 0
    BY <1>1, <2>1, CursorOfType DEF Cursor
  <2>2. CASE ~(Whole \/ drawn = 0)
    <3>1. drawn \in 1 .. Height /\ drawn \in Nat
      BY <1>1, <1>2, <2>2 DEF Whole
    <3>2. RowsOf(new)[drawn] \in Seq(Cell)
      BY <1>2, <3>1, ElementOfSeq DEF Height
    <3>3. WidthOf(Tokens(RowsOf(new)[drawn])) \in Nat
      BY <3>2, TokensAre, WidthIsNat
    <3>4. Cursor = [x |-> WidthOf(Tokens(RowsOf(new)[drawn])), y |-> drawn]
      BY <2>2 DEF Cursor
    <3> QED
      BY <3>1, <3>3, <3>4
  <2> QED
    BY <2>1, <2>2
<1>5. Whole => Cursor = CursorOf(new)
  BY DEF Cursor
<1> QED
  BY <1>2, <1>3, <1>4, <1>5 DEF Metadata, MetadataOf, MetadataType, Height

\* The screen is between the two views.
LEMMA ScreenIs ==
  ASSUME PaneInv
  PROVE  IsBetween(Screen, old, new)
<1>1. old \in Views /\ new \in Views /\ drawn \in 0 .. Height + 1 /\ (Whole <=> old = new)
  BY DEF PaneInv
<1>2. Height \in Nat /\ Height = Len(RowsOf(new))
      /\ RowsOf(new) \in Seq(Seq(Cell)) /\ RowsOf(old) \in Seq(Seq(Cell))
      /\ Len(RowsOf(old)) \in Nat
  BY <1>1, RowsOfAre DEF Height
<1> DEFINE h == Height
           new1 == RowsOf(new)
           old1 == RowsOf(old)
           s == Screen
<1>3. s = [i \in 1 .. h |-> IF i <= drawn THEN new1[i]
                            ELSE IF i <= Len(old1) THEN old1[i] ELSE <<>>]
  BY DEF Screen
<1> HIDE DEF h, s, new1, old1
<1>4. \A i \in 1 .. h : /\ \/ s[i] = new1[i]
                           \/ i \in 1 .. Len(old1) /\ s[i] = old1[i]
                           \/ s[i] = <<>>
                        /\ s[i] \in Seq(Cell)
  <2>1. \A i \in 1 .. h : new1[i] \in Seq(Cell)
    BY <1>2, ElementOfSeq DEF h, new1
  <2>2. \A i \in 1 .. h : i <= Len(old1) => i \in 1 .. Len(old1) /\ old1[i] \in Seq(Cell)
    <3>1. \A i \in 1 .. h : i <= Len(old1) => i \in 1 .. Len(old1)
      BY <1>2 DEF h, old1
    <3> QED
      BY <1>2, <3>1, ElementOfSeq DEF old1
  <2>3. <<>> \in Seq(Cell)
    OBVIOUS
  <2> QED
    BY <1>3, <2>1, <2>2, <2>3
<1>5. s \in Seq(Seq(Cell)) /\ Len(s) = h
  BY <1>2, <1>3, <1>4 DEF h
<1>6. old = new => s = new1
  <2> SUFFICES ASSUME old = new PROVE s = new1
    OBVIOUS
  <2>1. drawn = h + 1
    BY <1>1 DEF Whole, h
  <2>2. \A i \in 1 .. h : i <= drawn
    BY <1>2, <2>1 DEF h
  <2>3. \A i \in 1 .. h : s[i] = new1[i]
    BY <1>3, <2>2
  <2> QED
    BY <1>2, <1>5, <2>3, SeqEqual DEF h, new1
<1> QED
  BY <1>2, <1>4, <1>5, <1>6 DEF IsBetween, s, h, new1, old1

\* What a reading gives has the type of a result.
LEMMA ReadingType ==
  ASSUME NEW rows \in Seq(Seq(Cell)), NEW m \in MetadataType
  PROVE  /\ ReadingOf(m, rows).kind \in {Reading, "absent", "captured"} \cup Failure
         /\ ReadingOf(m, rows).text \in Seq(Seq(Token))
         /\ ReadingOf(m, rows).kind \in {"absent", "captured"} =>
              /\ ValidGrid(m, Styled(rows)) /\ m.height = Len(rows)
              /\ ReadingOf(m, rows) = Visible(m, GridOf(rows))
<1> DEFINE seen == ReadingOf(m, rows)
           r == TokenRows(rows)
           y == m.cursor.y
<1>1. CASE ~ValidGrid(m, Styled(rows))
  <2>1. seen = Skipped("invalid_pane")
    BY <1>1 DEF ReadingOf
  <2>2. seen.kind = "invalid_pane" /\ seen.text = <<>>
    BY <2>1 DEF Skipped
  <2>3. <<>> \in Seq(Seq(Token))
    OBVIOUS
  <2> HIDE DEF seen
  <2>4. seen.kind \in Failure /\ seen.kind \notin {"absent", "captured"}
    BY <2>2 DEF Failure
  <2> QED
    BY <2>2, <2>3, <2>4 DEF seen
<1>2. CASE ValidGrid(m, Styled(rows))
  <2>1. seen = Visible(m, GridOf(rows))
    BY <1>2, GridIsExact DEF ReadingOf
  <2>2. m.height = Len(rows)
    <3>1. Len(Styled(rows)) = Len(rows)
      BY DEF Styled
    <3> QED
      BY <1>2, <3>1 DEF ValidGrid
  <2>3. /\ seen.kind \in {"captured", "absent", "unsupported_layout", "size_overflow", "unsafe_text"}
        /\ seen.kind = "captured" =>
             \E start \in StartRows(r, y) :
               seen.text = PromptRows(r, start, y) /\ ~(y > m.height - 2)
        /\ seen.kind # "captured" => seen.text = <<>>
    BY <2>1, VisibleIs
  <2>4. seen.text \in Seq(Seq(Token))
    <3>1. CASE seen.kind # "captured"
      <4>1. <<>> \in Seq(Seq(Token))
        OBVIOUS
      <4> QED
        BY <2>3, <3>1, <4>1
    <3>2. CASE seen.kind = "captured"
      <4> DEFINE h == m.height
      <4>1. PICK start \in StartRows(r, y) :
              seen.text = PromptRows(r, start, y) /\ ~(y > h - 2)
        BY <2>3, <3>2
      <4>2. h \in Nat /\ y \in Nat /\ start \in 1 .. y
        BY DEF StartRows, MetadataType
      <4>3. \A i \in 1 .. Len(rows) : r[i] \in Seq(Token)
        BY ElementOfSeq, TokensAre DEF TokenRows
      <4> HIDE DEF seen, r, h, y
      <4>4. y - start + 1 \in Nat /\ \A i \in 1 .. y - start + 1 : start + i - 1 \in 1 .. h
        BY <4>1, <4>2
      <4> DEFINE e(i) == IF r[start + i - 1] = <<>> THEN <<>> ELSE Tail(r[start + i - 1])
                 n == y - start + 1
      <4>5. \A i \in 1 .. n : e(i) \in Seq(Token)
        <5>1. \A i \in 1 .. n : r[start + i - 1] \in Seq(Token)
          BY <2>2, <4>3, <4>4 DEF h
        <5>2. \A q \in Seq(Token) : q # <<>> => Tail(q) \in Seq(Token)
          OBVIOUS
        <5>3. <<>> \in Seq(Token)
          OBVIOUS
        <5> QED
          BY <5>1, <5>2, <5>3
      <4>6. seen.text = [i \in 1 .. n |-> e(i)]
        BY <4>1 DEF PromptRows
      <4>7. n \in Nat
        BY <4>4
      <4> HIDE DEF e, n
      <4>8. [i \in 1 .. n |-> e(i)] \in Seq(Seq(Token))
        BY <4>5, <4>7
      <4> QED
        BY <4>6, <4>8
    <3> QED
      BY <3>1, <3>2
  <2> HIDE DEF seen
  <2>5. seen.kind \in {Reading, "absent", "captured"} \cup Failure
    BY <2>3 DEF Failure
  <2> QED
    BY <1>2, <2>1, <2>2, <2>4, <2>5 DEF seen
<1> QED
  BY <1>1, <1>2

\* At first one view is shown and nothing was read.
LEMMA Initially == Init => Inv
<1> SUFFICES ASSUME Init PROVE Inv
  OBVIOUS
<1>1. /\ new \in Opening /\ old = new /\ drawn = Height + 1 /\ draws = 0
      /\ pc = "before" /\ before = Unread /\ result = Skipped(Reading) /\ shown = {}
  BY DEF Init
<1>2. new \in Views /\ Height \in Nat
  BY <1>1, RowsOfAre DEF Views, Height
<1>3. PaneInv
  BY <1>1, <1>2, MaxDrawsIsNat DEF PaneInv, Whole
<1>4. before \in MetadataType
  BY <1>1 DEF Unread, MetadataType
<1>5. result.kind = Reading /\ result.text = <<>> /\ <<>> \in Seq(Seq(Token))
  BY <1>1 DEF Skipped
<1>6. TypeOK
  BY <1>1, <1>2, <1>3, <1>4, <1>5 DEF TypeOK, PaneInv, MetadataType
<1> QED
  BY <1>1, <1>3, <1>6 DEF Inv, FirstInv, AfterInv, CapturedIsTheDraft, AbsentWasEmpty,
                          SupportedDraftIsCaptured

\* A read that fails says so.
LEMMA FailedRead ==
  ASSUME Inv, ReadFails, UNCHANGED pane
  PROVE  Inv'
<1>1. /\ pc' = "done" /\ result' = Skipped("read_failed") /\ UNCHANGED <<before, shown>>
      /\ UNCHANGED <<old, new, drawn, draws>>
  BY DEF ReadFails, Conclude, pane
<1>2. result'.kind = "read_failed" /\ result'.text = <<>> /\ <<>> \in Seq(Seq(Token))
  BY <1>1 DEF Skipped
<1>3. PaneInv'
  BY <1>1 DEF Inv, PaneInv, Whole, Height
<1>4. "read_failed" \in Failure
  BY DEF Failure
<1>5. TypeOK'
  BY <1>1, <1>2, <1>3, <1>4 DEF Inv, PaneInv, TypeOK
<1> QED
  BY <1>1, <1>2, <1>3, <1>5 DEF Inv, FirstInv, AfterInv, CapturedIsTheDraft, AbsentWasEmpty,
                                SupportedDraftIsCaptured

\* The first read takes the metadata of the view, as long as nothing is drawn.
LEMMA ReadBeforeStep ==
  ASSUME Inv, ReadBefore
  PROVE  Inv'
<1>1. CASE /\ pc = "before" /\ before' = Metadata /\ pc' = "grid"
           /\ UNCHANGED <<result, shown>> /\ UNCHANGED pane
  <2>1. UNCHANGED <<old, new, drawn, draws>>
    BY <1>1 DEF pane
  <2>2. PaneInv /\ PaneInv'
    BY <2>1 DEF Inv, PaneInv, Whole, Height
  <2>3. before' \in MetadataType /\ (Whole => before' = MetadataOf(new))
    BY <1>1, <2>2, MetadataIs
  <2>4. TypeOK'
    BY <1>1, <2>1, <2>2, <2>3 DEF Inv, PaneInv, TypeOK, MetadataType
  <2>5. FirstInv'
    BY <2>1, <2>2, <2>3 DEF PaneInv, FirstInv
  <2> QED
    BY <1>1, <2>2, <2>4, <2>5 DEF Inv, AfterInv, CapturedIsTheDraft, AbsentWasEmpty,
                                  SupportedDraftIsCaptured
<1>2. CASE ReadFails /\ UNCHANGED pane
  BY <1>2, FailedRead
<1> QED
  BY <1>1, <1>2 DEF ReadBefore

\* The rows are those of the view shown, or between two views.
LEMMA ReadGridStep ==
  ASSUME Inv, ReadGrid
  PROVE  Inv'
<1>1. CASE /\ pc = "grid" /\ result' = ReadingOf(before, Screen)
           /\ shown' = {old, new} /\ pc' = "after" /\ UNCHANGED before /\ UNCHANGED pane
  <2>1. UNCHANGED <<old, new, drawn, draws>>
    BY <1>1 DEF pane
  <2>2. PaneInv /\ PaneInv' /\ FirstInv /\ before \in MetadataType
        /\ old \in Views /\ new \in Views
    BY <2>1 DEF Inv, TypeOK, MetadataType, PaneInv, Whole, Height
  <2>3. IsBetween(Screen, old, new) /\ Screen \in Seq(Seq(Cell))
    BY <2>2, ScreenIs DEF IsBetween
  <2>4. /\ result'.kind \in {Reading, "absent", "captured"} \cup Failure
        /\ result'.text \in Seq(Seq(Token))
        /\ result'.kind \in {"absent", "captured"} =>
             before.height = Len(Screen) /\ result' = Visible(before, GridOf(Screen))
    BY <1>1, <2>2, <2>3, ReadingType
  <2>5. TypeOK'
    BY <1>1, <2>1, <2>2, <2>4 DEF Inv, PaneInv, TypeOK, MetadataType
  <2>6. FirstInv'
    BY <1>1, <2>1, <2>2 DEF FirstInv
  <2>7. result'.kind = "absent" => \E v \in shown' : WasEmpty(v)'
    <3> SUFFICES ASSUME result'.kind = "absent" PROVE \E v \in shown' : WasEmpty(v)'
      OBVIOUS
    <3>1. before.height = Len(Screen) /\ Visible(before, GridOf(Screen)).kind = "absent"
      BY <2>4
    <3>2. before \in [height : Nat, cursor : [x : Nat, y : Nat], mode : BOOLEAN]
      BY <2>2 DEF MetadataType
    <3>3. OneWasEmpty(old, new)
      BY <2>2, <2>3, <3>1, <3>2, AbsentSeen
    <3>4. PICK v \in {old, new} :
            /\ v.kind = "composer" /\ (IsEmpty(v) \/ v.pen = "faint")
            /\ {old, new} = {v} => \A i \in 2 .. Len(v.text) : v.text[i] = <<>>
      BY <3>3 DEF OneWasEmpty
    <3>5. shown' = {old, new}
      BY <1>1
    <3>6. v \in shown' /\ (shown' = {v} => \A i \in 2 .. Len(v.text) : v.text[i] = <<>>)
      BY <3>4, <3>5
    <3>7. WasEmpty(v)'
      BY <3>4, <3>6 DEF WasEmpty
    <3> QED
      BY <3>6, <3>7
  <2>8. ASSUME NEW v \in shown', shown' = {v}
        PROVE  result' = ReadingOf(before, RowsOf(v)) /\ old = v /\ new = v
    <3>1. old = v /\ new = v
      BY <1>1, <2>8
    <3>2. Screen = RowsOf(v)
      BY <2>3, <3>1 DEF IsBetween
    <3> QED
      BY <1>1, <3>1, <3>2
  <2>9. draws' = 0 => shown' = {new'}
    BY <1>1, <2>1, <2>2 DEF PaneInv
  <2>10. AfterInv'
    BY <1>1, <2>1, <2>7, <2>8, <2>9 DEF AfterInv
  <2> QED
    BY <1>1, <2>2, <2>5, <2>6, <2>10 DEF Inv, CapturedIsTheDraft, AbsentWasEmpty,
                                         SupportedDraftIsCaptured
<1>2. CASE ReadFails /\ UNCHANGED pane
  BY <1>2, FailedRead
<1> QED
  BY <1>1, <1>2 DEF ReadGrid, ReadingOf

\* The second metadata is the same: the rows were read with the metadata of
\* their view.
LEMMA ReadAfterStep ==
  ASSUME Inv, ReadAfter
  PROVE  Inv'
<1>1. CASE /\ pc = "after"
           /\ Conclude(IF SameMetadata(before, Metadata) THEN result
                       ELSE Skipped("metadata_changed"))
           /\ UNCHANGED <<before, shown>> /\ UNCHANGED pane
  <2>1. UNCHANGED <<old, new, drawn, draws, before, shown>> /\ pc' = "done"
    BY <1>1 DEF pane, Conclude
  <2>2. PaneInv /\ PaneInv' /\ TypeOK /\ AfterInv /\ FirstInv /\ before \in MetadataType
        /\ shown \subseteq Views
    BY <2>1 DEF Inv, TypeOK, MetadataType, PaneInv, Whole, Height
  <2>3. \/ result' = result /\ before = Metadata
        \/ result' = Skipped("metadata_changed") /\ before # Metadata
    BY <1>1 DEF Conclude, SameMetadata
  <2>4. Skipped("metadata_changed").kind = "metadata_changed"
        /\ Skipped("metadata_changed").text = <<>> /\ <<>> \in Seq(Seq(Token))
        /\ "metadata_changed" \in Failure
    BY DEF Skipped, Failure
  <2>5. TypeOK'
    <3>1. result'.kind \in {Reading, "absent", "captured"} \cup Failure
          /\ result'.text \in Seq(Seq(Token))
      BY <2>2, <2>3, <2>4 DEF TypeOK
    <3> QED
      BY <2>1, <2>2, <3>1 DEF PaneInv, TypeOK
  <2>6. FirstInv' /\ AfterInv'
    BY <2>1 DEF FirstInv, AfterInv
  <2>7. Whole => Metadata = MetadataOf(new)
    BY <2>2, MetadataIs
  <2>8. CapturedIsTheDraft'
    <3> SUFFICES ASSUME result'.kind = "captured", draws <= 1, NEW v \in shown, shown = {v}
                 PROVE  IsDraft(result'.text, v)
      BY <2>1 DEF CapturedIsTheDraft
    <3>1. result' = result /\ before = Metadata
      BY <2>3, <2>4
    <3>2. result = ReadingOf(before, RowsOf(v))
          /\ (before = MetadataOf(v) \/ (old = v /\ new = v))
      BY <1>1, <2>2 DEF AfterInv
    <3>3. before = MetadataOf(v)
      BY <2>2, <2>7, <3>1, <3>2 DEF PaneInv
    <3>4. v \in Views /\ RowsOf(v) \in Seq(Seq(Cell))
      BY <2>2, RowsOfAre
    <3>5. result = Visible(MetadataOf(v), GridOf(RowsOf(v)))
      BY <2>2, <3>1, <3>2, <3>3, <3>4, ReadingType
    <3> QED
      BY <3>1, <3>4, <3>5, CapturedDraft
  <2>9. AbsentWasEmpty'
    <3> SUFFICES ASSUME result'.kind = "absent" PROVE \E v \in shown : WasEmpty(v)
      BY <2>1 DEF AbsentWasEmpty, WasEmpty
    <3> QED
      BY <1>1, <2>2, <2>3, <2>4 DEF AfterInv
  <2>10. SupportedDraftIsCaptured'
    <3> SUFFICES ASSUME draws = 0, IsSupportedView(new)
                 PROVE  result' = IF IsEmpty(new) THEN Absent ELSE Captured(new.text)
      BY <2>1 DEF SupportedDraftIsCaptured
    <3>1. Whole /\ old = new /\ new \in Views
      BY <2>2 DEF PaneInv
    <3>2. before = MetadataOf(new)
      BY <1>1, <2>2 DEF FirstInv
    <3>3. result' = result
      BY <2>3, <2>7, <3>1, <3>2
    <3>4. result = ReadingOf(before, RowsOf(new))
      BY <1>1, <2>2 DEF AfterInv
    <3>5. /\ ValidGrid(MetadataOf(new), Styled(RowsOf(new)))
          /\ Visible(MetadataOf(new), GridOf(RowsOf(new)))
               = IF IsEmpty(new) THEN Absent ELSE Captured(new.text)
      BY <3>1, SupportedRead
    <3>6. RowsOf(new) \in Seq(Seq(Cell))
      BY <3>1, RowsOfAre
    <3>7. Decode(Styled(RowsOf(new))) = GridOf(RowsOf(new))
      BY <3>5, <3>6, GridIsExact
    <3> QED
      BY <3>2, <3>3, <3>4, <3>5, <3>7 DEF ReadingOf
  <2> QED
    BY <2>2, <2>5, <2>6, <2>8, <2>9, <2>10 DEF Inv
<1>2. CASE ReadFails /\ UNCHANGED pane
  BY <1>2, FailedRead
<1> QED
  BY <1>1, <1>2 DEF ReadAfter

\* The first view drawn after the metadata was read leaves what was read of it.
LEMMA RedrawStep ==
  ASSUME Inv, Redraw
  PROVE  Inv'
<1>1. /\ Whole /\ draws < MaxDraws /\ pc # "done"
      /\ new' \in Later \ {new} /\ old' = new /\ drawn' = 0 /\ draws' = draws + 1
      /\ pc' = pc /\ before' = before /\ result' = result /\ shown' = shown
  BY DEF Redraw
<1>2. PaneInv /\ TypeOK /\ AfterInv
  BY DEF Inv
<1>3. draws \in Nat /\ draws' \in 0 .. MaxDraws /\ draws' # 0 /\ (draws' <= 1 => draws = 0)
  BY <1>1, <1>2, MaxDrawsIsNat DEF PaneInv
<1>4. new' \in Views /\ Height' \in Nat /\ old' \in Views /\ old' # new'
  BY <1>1, <1>2, RowsOfAre DEF Views, Height, PaneInv
<1>5. PaneInv'
  <2>1. drawn' \in 0 .. Height' + 1 /\ drawn' # Height' + 1
    <3>1. \A h \in Nat : 0 \in 0 .. h + 1 /\ 0 # h + 1
      OBVIOUS
    <3> QED
      BY <1>1, <1>4, <3>1
  <2>2. ~Whole'
    BY <2>1 DEF Whole
  <2> QED
    BY <1>3, <1>4, <2>1, <2>2 DEF PaneInv
<1>6. TypeOK'
  BY <1>1, <1>2, <1>5 DEF TypeOK, PaneInv
<1>7. FirstInv'
  BY <1>3 DEF FirstInv
<1>8. AfterInv'
  <2> SUFFICES ASSUME pc = "after"
               PROVE  /\ result.kind = "absent" => \E v \in shown : WasEmpty(v)
                      /\ \A v \in shown : shown = {v} =>
                           /\ result = ReadingOf(before, RowsOf(v))
                           /\ draws' <= 1 => before = MetadataOf(v)
    BY <1>1, <1>3 DEF AfterInv, WasEmpty
  <2>1. ASSUME NEW v \in shown, shown = {v}, draws' <= 1
        PROVE  before = MetadataOf(v)
    <3>1. draws = 0
      BY <1>3, <2>1
    <3>2. shown = {new} /\ before = MetadataOf(new)
      BY <1>2, <3>1 DEF AfterInv, Inv, FirstInv
    <3> QED
      BY <2>1, <3>2
  <2> QED
    BY <1>2, <2>1 DEF AfterInv
<1> QED
  BY <1>1, <1>5, <1>6, <1>7, <1>8 DEF Inv, CapturedIsTheDraft, AbsentWasEmpty,
                                      SupportedDraftIsCaptured

\* A row that is drawn changes neither view.
LEMMA DrawRowStep ==
  ASSUME Inv, DrawRow
  PROVE  Inv'
<1> DEFINE differs == {y \in drawn + 1 .. Height : Screen[y] # RowsOf(new)[y]}
<1>1. /\ ~Whole /\ pc # "done"
      /\ drawn' = IF differs = {} THEN Height + 1 ELSE Min(differs)
      /\ old' = IF drawn' = Height + 1 THEN new ELSE old
      /\ new' = new /\ draws' = draws /\ pc' = pc /\ before' = before
      /\ result' = result /\ shown' = shown
  BY DEF DrawRow
<1>2. PaneInv /\ TypeOK /\ AfterInv /\ FirstInv
  BY DEF Inv
<1>3. old \in Views /\ new \in Views /\ Height \in Nat /\ Height' = Height
      /\ drawn \in 0 .. Height + 1 /\ old # new /\ draws # 0
  BY <1>1, <1>2, RowsOfAre DEF PaneInv, Height
<1>4. drawn' \in 0 .. Height + 1
  <2>1. CASE differs = {}
    BY <1>1, <1>3, <2>1
  <2>2. CASE differs # {}
    <3>1. differs \subseteq drawn + 1 .. Height /\ differs \subseteq Nat
      BY <1>3
    <3> HIDE DEF differs
    <3>2. \E k \in differs : \A l \in differs : k <= l
      BY <2>2, <3>1, LeastNumber
    <3>3. Min(differs) \in differs
      BY <3>2 DEF Min
    <3>4. Min(differs) \in drawn + 1 .. Height
      BY <3>1, <3>3
    <3> QED
      BY <1>1, <1>3, <2>2, <3>4
  <2> QED
    BY <2>1, <2>2
<1> HIDE DEF differs
<1>5. PaneInv'
  BY <1>1, <1>2, <1>3, <1>4 DEF PaneInv, Whole
<1>6. TypeOK'
  BY <1>1, <1>2, <1>5 DEF TypeOK, PaneInv
<1>7. FirstInv'
  BY <1>1, <1>3 DEF FirstInv
<1>8. AfterInv'
  BY <1>1, <1>2, <1>3 DEF AfterInv, WasEmpty
<1> QED
  BY <1>1, <1>5, <1>6, <1>7, <1>8 DEF Inv, CapturedIsTheDraft, AbsentWasEmpty,
                                      SupportedDraftIsCaptured

\* The invariant holds throughout.
LEMMA Always == Spec => []Inv
<1>1. Inv /\ [Next]_vars => Inv'
  <2> SUFFICES ASSUME Inv, [Next]_vars PROVE Inv'
    OBVIOUS
  <2>1. CASE Next
    BY <2>1, ReadBeforeStep, ReadGridStep, ReadAfterStep, RedrawStep, DrawRowStep
       DEF Next, Read, Draw
  <2>2. CASE UNCHANGED vars
    BY <2>2 DEF vars, pane, Inv, TypeOK, PaneInv, Whole, Height, FirstInv, AfterInv, WasEmpty,
                CapturedIsTheDraft, AbsentWasEmpty, SupportedDraftIsCaptured
  <2> QED
    BY <2>1, <2>2
<1> QED
  BY Initially, <1>1, PTL DEF Spec

----------------------------------------------------------------------------
(* The properties.                                                         *)

\* The state of the reads and of the pane has its type.
THEOREM TypeOKHolds == Spec => []TypeOK
<1>1. Inv => TypeOK
  BY DEF Inv
<1> QED
  BY Always, <1>1, PTL

\* A draft that is captured was the draft of the composer whose rows were read,
\* with at most one redraw between the reads.  That a dialog has no supported footer
\* is assumed; that nothing else on a screen is taken for the draft is proved.
THEOREM CapturedIsTheDraftHolds == Spec => []CapturedIsTheDraft
<1>1. Inv => CapturedIsTheDraft
  BY DEF Inv
<1> QED
  BY Always, <1>1, PTL

\* A composer is taken for empty only if it was empty, or its draft faint, however
\* often the pane is redrawn between the reads.
THEOREM AbsentWasEmptyHolds == Spec => []AbsentWasEmpty
<1>1. Inv => AbsentWasEmpty
  BY DEF Inv
<1> QED
  BY Always, <1>1, PTL

\* From a supported screen that stands still the draft is read to the last blank.
THEOREM SupportedDraftIsCapturedHolds == Spec => []SupportedDraftIsCaptured
<1>1. Inv => SupportedDraftIsCaptured
  BY DEF Inv
<1> QED
  BY Always, <1>1, PTL
=============================================================================
