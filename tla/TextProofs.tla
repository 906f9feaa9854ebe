----------------------------- MODULE TextProofs -----------------------------
(***************************************************************************)
(* Proofs about text on its way to the screen and to programs and about    *)
(* the paths in it, for every size of the screen, of the queues and of the *)
(* path buffers and every sequence of bytes, of keystrokes and of          *)
(* directories changed to.                                                 *)
(***************************************************************************)
EXTENDS Text, SequenceTheorems, WellFoundedInduction, TLAPS

-----------------------------------------------------------------------------
(* Least and greatest elements.                                            *)
LEMMA LeastNatural ==
  ASSUME NEW T \in SUBSET Nat, T # {} PROVE \E x \in T : \A y \in T : x <= y
<1> DEFINE R == OpToRel(<, Nat)
<1>1. IsWellFoundedOn(R, Nat)
  BY NatLessThanWellFounded
<1>2. \A x, y \in Nat : <<y, x>> \in R <=> y < x
  BY DEF OpToRel
<1> HIDE DEF R
<1>3. PICK x \in T : \A y \in T : ~(<<y, x>> \in R)
  BY <1>1, WFMin
<1>4. \A y \in T : ~(y < x)
  BY <1>2, <1>3
<1> QED  BY <1>4

LEMMA MaxIs ==
  ASSUME NEW S \in SUBSET Int, NEW x \in S, \A y \in S : y <= x PROVE Max(S) = x
<1>1. \A z \in S : (\A y \in S : z >= y) => z = x
  OBVIOUS
<1> QED  BY <1>1 DEF Max

LEMMA MaxOfBounded ==
  ASSUME NEW bound \in Int, NEW S \in SUBSET Int, S # {}, NEW low \in Int,
         \A x \in S : low <= x /\ x <= bound
  PROVE  Max(S) \in S /\ \A y \in S : y <= Max(S)
<1> DEFINE T == {bound - x : x \in S}
<1>1. T \in SUBSET Nat /\ T # {}
  <2>1. \A x \in S : bound - x \in Nat
    OBVIOUS
  <2> QED  BY <2>1
<1>2. PICK t \in T : \A y \in T : t <= y
  BY <1>1, LeastNatural
<1>3. PICK x \in S : t = bound - x
  BY <1>2
<1>4. \A y \in S : y <= x
  BY <1>2, <1>3
<1> QED  BY <1>4, MaxIs

LEMMA MaxOfTwo ==
  ASSUME NEW x \in Int, NEW y \in Int PROVE Max({x, y}) = IF x >= y THEN x ELSE y
BY MaxIs

LEMMA PrefixOf ==
  ASSUME NEW S, NEW q \in Seq(S), NEW n \in Nat, n <= Len(q)
  PROVE  /\ SubSeq(q, 1, n) \in Seq(S) /\ Len(SubSeq(q, 1, n)) = n
         /\ \A i \in 1..n : SubSeq(q, 1, n)[i] = q[i]
<1>1. Len(q) \in Nat /\ \A i \in 1..n : q[i] \in S
  OBVIOUS
<1>2. \A i \in 1..(n - 1 + 1) : SubSeq(q, 1, n)[i] = q[1 + i - 1]
  BY <1>1, SubSeqProperties
<1>3. SubSeq(q, 1, n) \in Seq(S) /\ Len(SubSeq(q, 1, n)) = IF 1 <= n THEN n - 1 + 1 ELSE 0
  BY <1>1, SubSeqProperties
<1>4. \A i \in 1..n : SubSeq(q, 1, n)[i] = q[i]
  BY <1>2
<1> QED  BY <1>3, <1>4

LEMMA FrontOf ==
  ASSUME NEW S, NEW q \in Seq(S), q # <<>>
  PROVE  /\ Len(q) \in Nat /\ Len(q) >= 1
         /\ Front(q) \in Seq(S) /\ Len(Front(q)) = Len(q) - 1
         /\ \A i \in 1..(Len(q) - 1) : Front(q)[i] = q[i]
<1>1. Len(q) \in Nat /\ Len(q) >= 1 /\ Len(q) - 1 \in Nat /\ Len(q) - 1 <= Len(q)
  OBVIOUS
<1> QED  BY <1>1, PrefixOf DEF Front

-----------------------------------------------------------------------------
(* The console.  The inductive invariant relates the grid k to the lines d *)
(* that were written, s of which have left the screen and b of which are   *)
(* the banner's: beside the cells and the cursor, the lengths of the rows  *)
(* are those of the lines, and the floor is the first row of the session,  *)
(* or the first row of the screen when that has left it.                   *)
Chars == Glyphs \cup {"boot"}
Grids ==
  [cells : [RowIds -> [ColumnIds -> Chars \cup {Blank}]], row : Int, column : Int,
   lengths : [RowIds -> Int], floor : [row : Int, column : Int]]
LineOf(d, r) == IF r \in DOMAIN d THEN d[r] ELSE <<>>
FloorAt(s, b) == [row |-> IF b > s THEN b - s ELSE 0, column |-> 0]
Lines(d) == d \in Seq(Seq(Chars)) /\ d # <<>> /\ \A r \in 1..Len(d) : Len(d[r]) <= Columns
Kept(d, s) == s \in Nat /\ s < Len(d) /\ Len(d) <= s + Rows
Cells(k, d, s) == \A r \in RowIds : k.cells[r] = ShownRow(LineOf(d, s + r + 1))
Lengths(k, d, s) == \A r \in RowIds : k.lengths[r] = Len(LineOf(d, s + r + 1))
Cursor(k, d, s) == k.row = Len(d) - 1 - s /\ k.column = Len(d[Len(d)])
Floor(k, d, s, b) ==
  b \in Nat /\ (k.floor = NoFloor \/ (k.floor = FloorAt(s, b) /\ b < Len(d)))
Shows(k, d, s, b) ==
  k \in Grids /\ Lines(d) /\ Kept(d, s) /\ Cells(k, d, s) /\ Lengths(k, d, s)
    /\ Cursor(k, d, s) /\ Floor(k, d, s, b)

Top(d, s) == IF Len(d) - Rows > s THEN Len(d) - Rows ELSE s

LEMMA LineOfType == ASSUME NEW d, Lines(d), NEW r \in Int PROVE LineOf(d, r) \in Seq(Chars)
BY DEF Lines, LineOf

LEMMA ShownRowType ==
  ASSUME NEW l \in Seq(Chars) PROVE ShownRow(l) \in [ColumnIds -> Chars \cup {Blank}]
<1>1. \A c \in ColumnIds : c < Len(l) => l[c + 1] \in Chars
  BY ConsoleAssumption DEF ColumnIds
<1> QED  BY <1>1 DEF ShownRow

LEMMA RowIdsAre == RowIds = {r \in Int : 0 <= r /\ r < Rows} /\ Rows >= 2 /\ Rows \in Int
BY ConsoleAssumption DEF RowIds

LEMMA EmptyRow == ShownRow(<<>>) = BlankRow
BY DEF ShownRow, BlankRow, ColumnIds

(* A line appended, on a screen with room for it and on a full one.        *)
LEMMA AppendedLine ==
  ASSUME NEW d, Lines(d), NEW l \in Seq(Chars), Len(l) <= Columns
  PROVE  /\ Lines(Append(d, l)) /\ Len(Append(d, l)) = Len(d) + 1
         /\ \A r \in Int : LineOf(Append(d, l), r) = IF r = Len(d) + 1 THEN l ELSE LineOf(d, r)
<1>1. d \in Seq(Seq(Chars)) /\ Len(d) \in Nat
  BY DEF Lines
<1>2. /\ Append(d, l) \in Seq(Seq(Chars)) /\ Len(Append(d, l)) = Len(d) + 1 /\ Append(d, l) # <<>>
      /\ Append(d, l)[Len(d) + 1] = l /\ \A r \in 1..Len(d) : Append(d, l)[r] = d[r]
  BY <1>1, AppendProperties
<1>3. DOMAIN Append(d, l) = 1..(Len(d) + 1) /\ DOMAIN d = 1..Len(d)
  BY <1>1, <1>2
<1>4. Lines(Append(d, l))
  BY <1>1, <1>2 DEF Lines
<1>5. ASSUME NEW r \in Int PROVE LineOf(Append(d, l), r) = IF r = Len(d) + 1 THEN l ELSE LineOf(d, r)
  BY <1>1, <1>2, <1>3 DEF LineOf
<1> QED  BY <1>2, <1>4, <1>5

LEMMA StartLineShows ==
  ASSUME NEW k, NEW d, NEW s, NEW b, Shows(k, d, s, b)
  PROVE  Shows(StartLine(k), NewLine(d), Top(NewLine(d), s), b)
<1>a. PICK e : e = NewLine(d)
  OBVIOUS
<1>b. PICK j : j = StartLine(k)
  OBVIOUS
<1>c. PICK t : t = Top(e, s)
  OBVIOUS
<1>1. /\ Lines(e) /\ Len(e) = Len(d) + 1 /\ d \in Seq(Seq(Chars)) /\ Len(d) \in Nat
      /\ \A r \in Int : LineOf(e, r) = LineOf(d, r)
  <2>1. <<>> \in Seq(Chars) /\ Len(<<>>) <= Columns /\ Lines(d)
    BY ConsoleAssumption DEF Shows
  <2>2. e = Append(d, <<>>) /\ Len(<<>>) = 0 /\ Len(d) + 1 \notin DOMAIN d
    BY <1>a, <2>1 DEF NewLine, Lines
  <2>3. \A r \in Int : LineOf(e, r) = IF r = Len(d) + 1 THEN <<>> ELSE LineOf(d, r)
    BY <2>1, <2>2, AppendedLine
  <2> QED  BY <2>1, <2>2, <2>3, AppendedLine DEF Lines, LineOf
<1>2. e[Len(e)] = <<>>
  BY <1>1, <1>a DEF NewLine
<1>3. /\ k \in Grids /\ s \in Nat /\ s < Len(d) /\ Len(d) <= s + Rows
      /\ k.row = Len(d) - 1 - s /\ k.row \in RowIds
      /\ k.cells \in [RowIds -> [ColumnIds -> Chars \cup {Blank}]] /\ k.lengths \in [RowIds -> Int]
      /\ k.floor \in [row : Int, column : Int]
  BY RowIdsAre, <1>1 DEF Shows, Kept, Cursor, Grids
<1>4. CASE k.row + 1 >= Rows
  <2>1. t = s + 1 /\ Len(d) = s + Rows
    <3>1. Len(d) = s + Rows
      BY <1>4, <1>1, <1>3, RowIdsAre
    <3>2. Len(e) - Rows = s + 1
      BY <3>1, <1>1, <1>3, RowIdsAre
    <3> QED  BY <3>1, <3>2, <1>3, <1>c DEF Top
  <2>2. /\ j = [ScrollUp(k) EXCEPT !.column = 0, !.row = Rows - 1]
        /\ j.cells = [r \in RowIds |-> IF r = Rows - 1 THEN BlankRow ELSE k.cells[r + 1]]
        /\ j.lengths = [r \in RowIds |-> IF r = Rows - 1 THEN 0 ELSE k.lengths[r + 1]]
        /\ j.row = Rows - 1 /\ j.column = 0
        /\ j.floor = [k.floor EXCEPT !.row = IF @ > 0 THEN @ - 1 ELSE @]
        /\ j \in [cells : {j.cells}, lengths : {j.lengths}, row : {j.row}, column : {j.column}, floor : {j.floor}]
    BY <1>4, <1>3, <1>b DEF StartLine, ScrollUp, Grids
  <2>3. Kept(e, t)
    BY <2>1, <1>1, <1>3, RowIdsAre DEF Kept
  <2>4. Cells(j, e, t)
    <3>1. ASSUME NEW r \in RowIds, r # Rows - 1 PROVE j.cells[r] = ShownRow(LineOf(e, t + r + 1))
      <4>1. r + 1 \in RowIds /\ t + r + 1 = s + (r + 1) + 1 /\ t + r + 1 \in Int
        BY <3>1, <2>1, <1>3, RowIdsAre
      <4> QED  BY <4>1, <2>2, <1>1, <3>1 DEF Shows, Cells
    <3>2. j.cells[Rows - 1] = ShownRow(LineOf(e, t + (Rows - 1) + 1))
      <4>1. t + (Rows - 1) + 1 = Len(e) /\ Rows - 1 \in RowIds /\ Len(e) \in DOMAIN e
        BY <2>1, <1>1, <1>3, RowIdsAre DEF Lines
      <4> QED  BY <4>1, <2>2, <1>2, EmptyRow DEF LineOf
    <3> QED  BY <3>1, <3>2 DEF Cells
  <2>5. Lengths(j, e, t)
    <3>1. ASSUME NEW r \in RowIds, r # Rows - 1 PROVE j.lengths[r] = Len(LineOf(e, t + r + 1))
      <4>1. r + 1 \in RowIds /\ t + r + 1 = s + (r + 1) + 1 /\ t + r + 1 \in Int
        BY <3>1, <2>1, <1>3, RowIdsAre
      <4> QED  BY <4>1, <2>2, <1>1, <3>1 DEF Shows, Lengths
    <3>2. j.lengths[Rows - 1] = Len(LineOf(e, t + (Rows - 1) + 1))
      <4>1. t + (Rows - 1) + 1 = Len(e) /\ Rows - 1 \in RowIds /\ Len(e) \in DOMAIN e
        BY <2>1, <1>1, <1>3, RowIdsAre DEF Lines
      <4> QED  BY <4>1, <2>2, <1>2 DEF LineOf
    <3> QED  BY <3>1, <3>2 DEF Lengths
  <2>6. Cursor(j, e, t)
    BY <2>1, <2>2, <1>1, <1>2, <1>3, RowIdsAre DEF Cursor
  <2>7. Floor(j, e, t, b)
    <3>1. b \in Nat /\ (k.floor = NoFloor \/ (k.floor = FloorAt(s, b) /\ b < Len(d)))
      BY DEF Shows, Floor
    <3>2. CASE k.floor = NoFloor
      BY <3>1, <3>2, <2>2 DEF Floor, NoFloor
    <3>3. CASE k.floor = FloorAt(s, b) /\ b < Len(d)
      <4>1. k.floor.row = IF b > s THEN b - s ELSE 0
        BY <3>3 DEF FloorAt
      <4>2. k.floor.column = 0
        BY <3>3 DEF FloorAt
      <4>3. j.floor = [row |-> IF k.floor.row > 0 THEN k.floor.row - 1 ELSE k.floor.row, column |-> 0]
        BY <2>2, <1>3, <4>2
      <4>4. (IF k.floor.row > 0 THEN k.floor.row - 1 ELSE k.floor.row) = IF b > t THEN b - t ELSE 0
        BY <4>1, <3>1, <2>1, <1>3
      <4>5. j.floor = FloorAt(t, b)
        BY <4>3, <4>4 DEF FloorAt
      <4> QED  BY <4>5, <3>1, <3>3, <1>1 DEF Floor
    <3> QED  BY <3>1, <3>2, <3>3
  <2>8. j \in Grids
    <3>1. j.cells \in [RowIds -> [ColumnIds -> Chars \cup {Blank}]]
      <4>1. BlankRow \in [ColumnIds -> Chars \cup {Blank}]
        BY DEF BlankRow
      <4>2. \A r \in RowIds : r # Rows - 1 => r + 1 \in RowIds
        BY RowIdsAre
      <4> QED  BY <2>2, <1>3, <4>1, <4>2
    <3>2. j.lengths \in [RowIds -> Int]
      <4>2. \A r \in RowIds : r # Rows - 1 => r + 1 \in RowIds
        BY RowIdsAre
      <4> QED  BY <2>2, <1>3, <4>2 DEF Grids
    <3>3. j.floor \in [row : Int, column : Int]
      BY <2>2, <1>3, SMTT(30) DEF Grids
    <3> QED  BY <2>2, <3>1, <3>2, <3>3, RowIdsAre DEF Grids
  <2> QED  BY <2>3, <2>4, <2>5, <2>6, <2>7, <2>8, <1>1, <1>a, <1>b, <1>c DEF Shows
<1>5. CASE ~(k.row + 1 >= Rows)
  <2>1. t = s
    BY <1>5, <1>1, <1>3, <1>c, RowIdsAre DEF Top
  <2>2. /\ j = [k EXCEPT !.column = 0, !.row = k.row + 1]
        /\ j.cells = k.cells /\ j.lengths = k.lengths /\ j.floor = k.floor
        /\ j.row = k.row + 1 /\ j.column = 0
    BY <1>5, <1>3, <1>b DEF StartLine, Grids
  <2>3. Kept(e, t)
    BY <2>1, <1>1, <1>3, <1>5, RowIdsAre DEF Kept
  <2>a. \A r \in RowIds : LineOf(e, t + r + 1) = LineOf(d, s + r + 1)
    BY <2>1, <1>1, <1>3, RowIdsAre
  <2>4. Cells(j, e, t)
    BY <2>a, <2>2 DEF Shows, Cells
  <2>5. Lengths(j, e, t)
    BY <2>a, <2>2 DEF Shows, Lengths
  <2>6. Cursor(j, e, t)
    BY <2>1, <2>2, <1>1, <1>2, <1>3 DEF Cursor
  <2>7. Floor(j, e, t, b)
    BY <2>1, <2>2, <1>1 DEF Shows, Floor
  <2>8. j \in Grids
    <3>1. j.row \in Int /\ j.column \in Int
      BY <2>2, <1>3, RowIdsAre
    <3> QED  BY <2>2, <1>3, <3>1 DEF Grids
  <2> QED  BY <2>3, <2>4, <2>5, <2>6, <2>7, <2>8, <1>1, <1>a, <1>b, <1>c DEF Shows
<1> QED  BY <1>4, <1>5
(* A character behind the last line, which has room for it.                *)
Drawn(k, c) ==
  [k EXCEPT !.cells[k.row][k.column] = c, !.column = @ + 1,
            !.lengths[k.row] = IF k.column + 1 > @ THEN k.column + 1 ELSE @]
Longer(d, c) == Append(Front(d), Append(Last(d), c))

(* The last line replaced.                                                 *)
LEMMA LastReplaced ==
  ASSUME NEW d, Lines(d), NEW l \in Seq(Chars), Len(l) <= Columns
  PROVE  LET e == Append(Front(d), l)
         IN  /\ Lines(e) /\ Len(e) = Len(d)
             /\ e[Len(d)] = l
             /\ \A r \in Int : LineOf(e, r) = IF r = Len(d) THEN l ELSE LineOf(d, r)
<1>1. d \in Seq(Seq(Chars)) /\ Len(d) \in Nat /\ Len(d) >= 1
  BY DEF Lines
<1>2. PICK h : h = Front(d)
  OBVIOUS
<1>3. /\ h \in Seq(Seq(Chars)) /\ Len(h) = Len(d) - 1 /\ \A r \in 1..(Len(d) - 1) : h[r] = d[r]
  BY <1>1, <1>2, FrontOf DEF Lines
<1>4. PICK e : e = Append(h, l)
  OBVIOUS
<1>5. /\ e \in Seq(Seq(Chars)) /\ Len(e) = Len(d) /\ e # <<>>
      /\ e[Len(d)] = l /\ \A r \in 1..(Len(d) - 1) : e[r] = d[r]
  <2>1. /\ e \in Seq(Seq(Chars)) /\ Len(e) = Len(h) + 1 /\ e # <<>>
        /\ e[Len(h) + 1] = l /\ \A r \in 1..Len(h) : e[r] = h[r]
    BY <1>3, <1>4, AppendProperties
  <2>2. Len(h) = Len(d) - 1 /\ Len(h) + 1 = Len(d)
    BY <1>1, <1>3
  <2> QED  BY <2>1, <2>2, <1>3
<1>6. Lines(e)
  <2>1. \A r \in 1..Len(d) : Len(e[r]) <= Columns
    <3>1. \A r \in 1..Len(d) : r # Len(d) => r \in 1..(Len(d) - 1)
      BY <1>1
    <3> QED  BY <3>1, <1>1, <1>5 DEF Lines
  <2> QED  BY <2>1, <1>5 DEF Lines
<1>7. ASSUME NEW r \in Int PROVE LineOf(e, r) = IF r = Len(d) THEN l ELSE LineOf(d, r)
  <2>1. DOMAIN e = 1..Len(d) /\ DOMAIN d = 1..Len(d)
    BY <1>1, <1>5
  <2>2. r \in 1..Len(d) /\ r # Len(d) => r \in 1..(Len(d) - 1)
    BY <1>1
  <2>3. Len(d) \in 1..Len(d)
    BY <1>1
  <2> QED  BY <2>1, <2>2, <2>3, <1>5 DEF LineOf
<1> QED  BY <1>2, <1>4, <1>5, <1>6, <1>7

LEMMA DrawnShows ==
  ASSUME NEW k, NEW d, NEW s, NEW b, Shows(k, d, s, b), k.column < Columns, NEW c \in Chars
  PROVE  Shows(Drawn(k, c), Longer(d, c), s, b) /\ Len(Longer(d, c)) = Len(d)
<1>1. /\ k \in Grids /\ s \in Nat /\ s < Len(d) /\ Len(d) <= s + Rows /\ Lines(d)
      /\ k.row = Len(d) - 1 - s /\ k.column = Len(d[Len(d)]) /\ k.row \in RowIds
      /\ k.cells \in [RowIds -> [ColumnIds -> Chars \cup {Blank}]] /\ k.lengths \in [RowIds -> Int]
      /\ d \in Seq(Seq(Chars)) /\ Len(d) \in Nat
  BY RowIdsAre DEF Shows, Kept, Cursor, Grids, Lines
<1>2. PICK old : old = d[Len(d)]
  OBVIOUS
<1>3. /\ old \in Seq(Chars) /\ Len(old) < Columns /\ k.column = Len(old) /\ LineOf(d, Len(d)) = old
      /\ Len(old) \in Nat
  BY <1>1, <1>2 DEF LineOf
<1>4. PICK l : l = Append(old, c)
  OBVIOUS
<1>5. /\ l \in Seq(Chars) /\ Len(l) = Len(old) + 1 /\ Len(l) <= Columns /\ l[Len(old) + 1] = c
      /\ \A i \in 1..Len(old) : l[i] = old[i]
  BY <1>3, <1>4, ConsoleAssumption
<1>6. PICK e : e = Longer(d, c)
  OBVIOUS
<1>7. e = Append(Front(d), l)
  BY <1>2, <1>4, <1>6 DEF Longer, Last
<1>8. /\ Lines(e) /\ Len(e) = Len(d) /\ e[Len(d)] = l
      /\ \A r \in Int : LineOf(e, r) = IF r = Len(d) THEN l ELSE LineOf(d, r)
  BY <1>1, <1>5, <1>7, LastReplaced
<1>9. PICK j : j = Drawn(k, c)
  OBVIOUS
<1>10. /\ j.cells = [k.cells EXCEPT ![k.row] = [k.cells[k.row] EXCEPT ![k.column] = c]]
       /\ j.lengths = [k.lengths EXCEPT ![k.row] = IF k.column + 1 > @ THEN k.column + 1 ELSE @]
       /\ j.row = k.row /\ j.column = k.column + 1 /\ j.floor = k.floor
       /\ j \in [cells : {j.cells}, lengths : {j.lengths}, row : {j.row}, column : {j.column}, floor : {j.floor}]
  BY <1>1, <1>9 DEF Drawn, Grids
<1>11. k.column \in ColumnIds
  BY <1>3, ConsoleAssumption DEF ColumnIds
<1>12. s + k.row + 1 = Len(d)
  BY <1>1
<1>13. Cells(j, e, s)
  <2>1. ASSUME NEW r \in RowIds, r # k.row PROVE j.cells[r] = ShownRow(LineOf(e, s + r + 1))
    <3>1. j.cells[r] = k.cells[r]
      BY <1>1, <1>10, <2>1
    <3>2. s + r + 1 # Len(d) /\ s + r + 1 \in Int
      BY <1>1, <2>1, RowIdsAre
    <3> QED  BY <3>1, <3>2, <1>8 DEF Shows, Cells
  <2>2. j.cells[k.row] = ShownRow(LineOf(e, s + k.row + 1))
    <3>1. k.cells[k.row] = ShownRow(old)
      BY <1>1, <1>3, <1>12 DEF Shows, Cells
    <3>2. j.cells[k.row] = [ShownRow(old) EXCEPT ![k.column] = c]
      BY <1>1, <1>10, <3>1
    <3>3. [ShownRow(old) EXCEPT ![k.column] = c] = ShownRow(l)
      <4>1. \A i \in ColumnIds : i \in Int /\ 0 <= i
        BY ConsoleAssumption DEF ColumnIds
      <4>2. \A i \in ColumnIds : [ShownRow(old) EXCEPT ![k.column] = c][i] = ShownRow(l)[i]
        BY <4>1, <1>3, <1>5, <1>11 DEF ShownRow
      <4> QED  BY <4>2 DEF ShownRow
    <3>4. LineOf(e, s + k.row + 1) = l
      BY <1>8, <1>12, <1>1
    <3> QED  BY <3>2, <3>3, <3>4
  <2> QED  BY <2>1, <2>2 DEF Cells
<1>14. Lengths(j, e, s)
  <2>1. ASSUME NEW r \in RowIds, r # k.row PROVE j.lengths[r] = Len(LineOf(e, s + r + 1))
    <3>1. j.lengths[r] = k.lengths[r]
      BY <1>1, <1>10, <2>1
    <3>2. s + r + 1 # Len(d) /\ s + r + 1 \in Int
      BY <1>1, <2>1, RowIdsAre
    <3> QED  BY <3>1, <3>2, <1>8 DEF Shows, Lengths
  <2>2. j.lengths[k.row] = Len(LineOf(e, s + k.row + 1))
    <3>1. k.lengths[k.row] = Len(old)
      BY <1>1, <1>3, <1>12 DEF Shows, Lengths
    <3>2. j.lengths[k.row] = Len(old) + 1
      BY <1>1, <1>3, <1>10, <3>1
    <3>4. LineOf(e, s + k.row + 1) = l
      BY <1>8, <1>12, <1>1
    <3> QED  BY <3>2, <3>4, <1>5
  <2> QED  BY <2>1, <2>2 DEF Lengths
<1>15. Cursor(j, e, s)
  BY <1>1, <1>3, <1>5, <1>8, <1>10 DEF Cursor
<1>16. Floor(j, e, s, b)
  BY <1>8, <1>10 DEF Shows, Floor
<1>17. j \in Grids
  <2>1. j.cells \in [RowIds -> [ColumnIds -> Chars \cup {Blank}]]
    BY <1>10, <1>1, <1>11
  <2>2. j.lengths \in [RowIds -> Int] /\ j.column \in Int
    BY <1>10, <1>1, <1>3
  <2>3. j.row \in Int /\ j.floor \in [row : Int, column : Int]
    BY <1>10, <1>1 DEF Grids
  <2> QED  BY <2>1, <2>2, <2>3, <1>10 DEF Grids
<1>18. Kept(e, s)
  BY <1>8 DEF Shows, Kept
<1> QED  BY <1>6, <1>8, <1>9, <1>13, <1>14, <1>15, <1>16, <1>17, <1>18 DEF Shows

(* A character wherever the cursor stands.                                 *)
LEMMA DrawByteShows ==
  ASSUME NEW k, NEW d, NEW s, NEW b, Shows(k, d, s, b), NEW c \in Chars
  PROVE  Shows(DrawByte(k, c), PutChar(d, c, Columns), Top(PutChar(d, c, Columns), s), b)
<1>1. k.column = Len(Last(d)) /\ Lines(d) /\ Kept(d, s)
  BY DEF Shows, Cursor, Last
<1>2. CASE k.column >= Columns
  <2>1. PICK j : j = StartLine(k)
    OBVIOUS
  <2>2. PICK e : e = NewLine(d)
    OBVIOUS
  <2>3. Shows(j, e, Top(e, s), b)
    BY <2>1, <2>2, StartLineShows
  <2>4. /\ d \in Seq(Seq(Chars)) /\ e = Append(d, <<>>) /\ e \in Seq(Seq(Chars)) /\ Len(e) = Len(d) + 1
        /\ e[Len(d) + 1] = <<>> /\ Len(d) \in Nat
    BY <1>1, <2>2 DEF NewLine, Lines
  <2>5. j.column < Columns
    BY <2>3, <2>4, ConsoleAssumption DEF Shows, Cursor
  <2>6. Shows(Drawn(j, c), Longer(e, c), Top(e, s), b) /\ Len(Longer(e, c)) = Len(e)
    BY <2>3, <2>5, DrawnShows
  <2>7. DrawByte(k, c) = Drawn(j, c)
    BY <1>2, <2>1 DEF DrawByte, Drawn
  <2>8. Longer(e, c) = PutChar(d, c, Columns)
    <3>1. Last(e) = <<>> /\ Append(<<>>, c) = <<c>>
      BY <2>4 DEF Last
    <3>2. Front(e) = d
      BY <2>4 DEF Front
    <3> QED  BY <3>1, <3>2, <1>1, <1>2 DEF Longer, PutChar
  <2> QED  BY <2>6, <2>7, <2>8 DEF Top
<1>3. CASE ~(k.column >= Columns)
  <2>1. k.column < Columns
    <3>1. k.column \in Int
      BY DEF Shows, Grids
    <3> QED  BY <3>1, <1>3, ConsoleAssumption
  <2>2. Shows(Drawn(k, c), Longer(d, c), s, b) /\ Len(Longer(d, c)) = Len(d)
    BY <2>1, DrawnShows
  <2>3. DrawByte(k, c) = Drawn(k, c) /\ PutChar(d, c, Columns) = Longer(d, c)
    BY <1>1, <1>3 DEF DrawByte, Drawn, PutChar, Longer
  <2>4. Top(Longer(d, c), s) = s
    BY <2>2, <1>1, RowIdsAre DEF Top, Kept, Lines
  <2> QED  BY <2>2, <2>3, <2>4
<1> QED  BY <1>2, <1>3
(* The last character of line q rubbed out, with nothing written behind.   *)
Rubbed(k, r, c) ==
  [k EXCEPT !.cells[r][c] = Blank, !.row = r, !.column = c, !.lengths[r] = c]
Shorter(d, q) == Append(SubSeq(d, 1, q - 1), Front(d[q]))

LEMMA ShorterLines ==
  ASSUME NEW d, Lines(d), NEW q \in 1..Len(d), d[q] # <<>>, \A r \in (q + 1)..Len(d) : d[r] = <<>>
  PROVE  LET e == Shorter(d, q)
         IN  /\ Lines(e) /\ Len(e) = q
             /\ e[q] = Front(d[q]) /\ Len(e[q]) = Len(d[q]) - 1
             /\ \A r \in Int : LineOf(e, r) = IF r = q THEN e[q] ELSE LineOf(d, r)
<1>1. d \in Seq(Seq(Chars)) /\ Len(d) \in Nat /\ d[q] \in Seq(Chars) /\ q \in Nat /\ q >= 1
  BY DEF Lines
<1>2. PICK l : l = Front(d[q])
  OBVIOUS
<1>3. l \in Seq(Chars) /\ Len(l) = Len(d[q]) - 1
  BY <1>1, <1>2 DEF Front
<1>4. PICK h : h = SubSeq(d, 1, q - 1)
  OBVIOUS
<1>5. /\ h \in Seq(Seq(Chars)) /\ Len(h) = q - 1 /\ \A r \in 1..(q - 1) : h[r] = d[r]
  BY <1>1, <1>4
<1>6. PICK e : e = Append(h, l)
  OBVIOUS
<1>7. /\ e \in Seq(Seq(Chars)) /\ Len(e) = q /\ e # <<>> /\ e[q] = l
      /\ \A r \in 1..(q - 1) : e[r] = d[r]
  BY <1>1, <1>3, <1>5, <1>6, SMTT(30)
<1>8. Lines(e)
  <2>1. Len(l) <= Columns
    BY <1>1, <1>3, ConsoleAssumption DEF Lines
  <2>2. \A r \in 1..q : Len(e[r]) <= Columns
    <3>1. \A r \in 1..q : r # q => r \in 1..(q - 1) /\ r \in 1..Len(d)
      BY <1>1
    <3> QED  BY <3>1, <1>7, <2>1 DEF Lines
  <2> QED  BY <1>7, <2>2 DEF Lines
<1>9. ASSUME NEW r \in Int PROVE LineOf(e, r) = IF r = q THEN l ELSE LineOf(d, r)
  <2>1. CASE r \in (q + 1)..Len(d)
    BY <1>1, <1>7, <2>1 DEF LineOf
  <2>2. CASE r \notin (q + 1)..Len(d)
    BY <1>1, <1>7, <2>2 DEF LineOf
  <2> QED  BY <2>1, <2>2
<1> QED  BY <1>2, <1>3, <1>4, <1>6, <1>7, <1>8, <1>9 DEF Shorter

LEMMA RubbedShows ==
  ASSUME NEW k, NEW d, NEW s, NEW b, Shows(k, d, s, b),
         NEW q \in 1..Len(d), d[q] # <<>>, \A r \in (q + 1)..Len(d) : d[r] = <<>>,
         s < q, b < q
  PROVE  /\ Shows(Rubbed(k, q - s - 1, Len(d[q]) - 1), Shorter(d, q), s, b)
         /\ Top(Shorter(d, q), s) = s
<1>1. /\ k \in Grids /\ s \in Nat /\ s < Len(d) /\ Len(d) <= s + Rows /\ Lines(d)
      /\ k.cells \in [RowIds -> [ColumnIds -> Chars \cup {Blank}]] /\ k.lengths \in [RowIds -> Int]
      /\ d \in Seq(Seq(Chars)) /\ Len(d) \in Nat /\ q \in Nat /\ q <= Len(d)
  BY RowIdsAre DEF Shows, Kept, Cursor, Grids, Lines
<1>2. PICK old : old = d[q]
  OBVIOUS
<1>3. /\ old \in Seq(Chars) /\ Len(old) <= Columns /\ LineOf(d, q) = old
      /\ Len(old) \in Nat /\ Len(old) >= 1
  BY <1>1, <1>2 DEF LineOf, Lines
<1>4. PICK e : e = Shorter(d, q)
  OBVIOUS
<1>5. PICK l : l = Front(old)
  OBVIOUS
<1>6. /\ Lines(e) /\ Len(e) = q /\ e[q] = l /\ Len(l) = Len(old) - 1
      /\ \A r \in Int : LineOf(e, r) = IF r = q THEN l ELSE LineOf(d, r)
  BY <1>1, <1>2, <1>4, <1>5, ShorterLines
<1>7. \A i \in 1..(Len(old) - 1) : l[i] = old[i]
  BY <1>3, <1>5 DEF Front
<1>8. PICK u : u = q - s - 1
  OBVIOUS
<1>9. PICK v : v = Len(old) - 1
  OBVIOUS
<1>10. u \in RowIds /\ u \in Int /\ s + u + 1 = q /\ v \in ColumnIds /\ v \in Int
  BY <1>1, <1>3, <1>8, <1>9, RowIdsAre, ConsoleAssumption DEF ColumnIds
<1>11. PICK j : j = Rubbed(k, u, v)
  OBVIOUS
<1>12. /\ j.cells = [k.cells EXCEPT ![u] = [k.cells[u] EXCEPT ![v] = Blank]]
       /\ j.lengths = [k.lengths EXCEPT ![u] = v]
       /\ j.row = u /\ j.column = v /\ j.floor = k.floor
       /\ j \in [cells : {j.cells}, lengths : {j.lengths}, row : {j.row}, column : {j.column}, floor : {j.floor}]
  BY <1>1, <1>11 DEF Rubbed, Grids
<1>13. Cells(j, e, s)
  <2>1. ASSUME NEW r \in RowIds, r # u PROVE j.cells[r] = ShownRow(LineOf(e, s + r + 1))
    <3>1. j.cells[r] = k.cells[r]
      BY <1>1, <1>12, <2>1
    <3>2. s + r + 1 # q /\ s + r + 1 \in Int
      BY <1>1, <1>10, <2>1, RowIdsAre
    <3> QED  BY <3>1, <3>2, <1>6 DEF Shows, Cells
  <2>2. j.cells[u] = ShownRow(LineOf(e, s + u + 1))
    <3>1. k.cells[u] = ShownRow(old)
      BY <1>3, <1>10 DEF Shows, Cells
    <3>2. j.cells[u] = [ShownRow(old) EXCEPT ![v] = Blank]
      BY <1>1, <1>10, <1>12, <3>1
    <3>3. [ShownRow(old) EXCEPT ![v] = Blank] = ShownRow(l)
      <4>1. \A i \in ColumnIds : i \in Int /\ 0 <= i
        BY ConsoleAssumption DEF ColumnIds
      <4>2. \A i \in ColumnIds : [ShownRow(old) EXCEPT ![v] = Blank][i] = ShownRow(l)[i]
        <5>1. SUFFICES ASSUME NEW i \in ColumnIds
                       PROVE  [ShownRow(old) EXCEPT ![v] = Blank][i] = ShownRow(l)[i]
          OBVIOUS
        <5>2. /\ ShownRow(old)[i] = IF i < Len(old) THEN old[i + 1] ELSE Blank
              /\ ShownRow(l)[i] = IF i < Len(old) - 1 THEN l[i + 1] ELSE Blank
          BY <1>6 DEF ShownRow
        <5>3. [ShownRow(old) EXCEPT ![v] = Blank][i] = IF i = v THEN Blank ELSE ShownRow(old)[i]
          BY DEF ShownRow
        <5>4. i < Len(old) - 1 => l[i + 1] = old[i + 1]
          BY <4>1, <1>3, <1>7
        <5> QED  BY <5>2, <5>3, <5>4, <4>1, <1>3, <1>9
      <4> QED  BY <4>2 DEF ShownRow
    <3>4. LineOf(e, s + u + 1) = l
      BY <1>6, <1>10, <1>1
    <3> QED  BY <3>2, <3>3, <3>4
  <2> QED  BY <2>1, <2>2 DEF Cells
<1>14. Lengths(j, e, s)
  <2>1. ASSUME NEW r \in RowIds, r # u PROVE j.lengths[r] = Len(LineOf(e, s + r + 1))
    <3>1. j.lengths[r] = k.lengths[r]
      BY <1>1, <1>12, <2>1
    <3>2. s + r + 1 # q /\ s + r + 1 \in Int
      BY <1>1, <1>10, <2>1, RowIdsAre
    <3> QED  BY <3>1, <3>2, <1>6 DEF Shows, Lengths
  <2>2. j.lengths[u] = Len(LineOf(e, s + u + 1))
    BY <1>1, <1>6, <1>9, <1>10, <1>12
  <2> QED  BY <2>1, <2>2 DEF Lengths
<1>15. Cursor(j, e, s)
  BY <1>1, <1>6, <1>8, <1>9, <1>12 DEF Cursor
<1>16. Floor(j, e, s, b)
  BY <1>6, <1>12 DEF Shows, Floor
<1>17. j \in Grids
  <2>1. j.cells \in [RowIds -> [ColumnIds -> Chars \cup {Blank}]]
    BY <1>10, <1>12, <1>1, SMTT(30)
  <2>2. j.lengths \in [RowIds -> Int] /\ j.column \in Int /\ j.row \in Int
    BY <1>10, <1>12, <1>1
  <2>3. j.floor \in [row : Int, column : Int]
    BY <1>12, <1>1 DEF Grids
  <2> QED  BY <2>1, <2>2, <2>3, <1>12 DEF Grids
<1>18. Kept(e, s) /\ Top(e, s) = s
  BY <1>1, <1>6, RowIdsAre DEF Kept, Top
<1> QED  BY <1>2, <1>4, <1>6, <1>8, <1>9, <1>11, <1>13, <1>14, <1>15, <1>16, <1>17, <1>18 DEF Shows

(* Where a character is rubbed out: at the last line of the session on the *)
(* screen that has one.                                                    *)
Within(s, b) == IF s >= b THEN s ELSE b
LEMMA BackspaceShows ==
  ASSUME NEW k, NEW d, NEW s, NEW b, Shows(k, d, s, b)
  PROVE  LET e == IF k.floor # NoFloor THEN RubOut(d, Within(s, b) + 1) ELSE d
         IN  Shows(BackspaceFromSession(k), e, Top(e, s), b)
<1>1. /\ k \in Grids /\ s \in Nat /\ s < Len(d) /\ Len(d) <= s + Rows /\ Lines(d)
      /\ k.row = Len(d) - 1 - s /\ k.column = Len(d[Len(d)]) /\ k.row \in RowIds
      /\ k.lengths \in [RowIds -> Int] /\ k.column \in Int
      /\ d \in Seq(Seq(Chars)) /\ Len(d) \in Nat /\ b \in Nat
  BY RowIdsAre DEF Shows, Kept, Cursor, Grids, Lines, Floor
<1>2. Top(d, s) = s
  BY <1>1, RowIdsAre DEF Top
<1>3. CASE k.floor = NoFloor
  <2>1. BackspaceFromSession(k) = k
    BY <1>3 DEF BackspaceFromSession, MayErase
  <2> QED  BY <2>1, <1>2, <1>3
<1>4. CASE k.floor # NoFloor
  <2>1. k.floor = FloorAt(s, b) /\ b < Len(d)
    BY <1>4 DEF Shows, Floor
  <2>2. PICK low : low = Within(s, b) + 1
    OBVIOUS
  <2>3. /\ low \in Nat /\ low <= Len(d) /\ low > s /\ low > b /\ low >= 1
        /\ k.floor.row = low - s - 1 /\ k.floor.column = 0
    <3>1. /\ low = (IF s >= b THEN s ELSE b) + 1
          /\ k.floor.row = (IF b > s THEN b - s ELSE 0) /\ k.floor.column = 0
      BY <2>1, <2>2 DEF Within, FloorAt
    <3>2. CASE s >= b
      <4>1. low = s + 1 /\ k.floor.row = 0
        BY <3>1, <3>2, <1>1
      <4> QED  BY <4>1, <3>1, <3>2, <1>1
    <3>3. CASE ~(s >= b)
      <4>1. low = b + 1 /\ k.floor.row = b - s
        BY <3>1, <3>3, <1>1
      <4> QED  BY <4>1, <3>1, <3>3, <2>1, <1>1
    <3> QED  BY <3>2, <3>3
  <2>4. PICK W : W = {r \in low..Len(d) : d[r] # <<>>}
    OBVIOUS
  <2>5. RubOut(d, low) = IF W = {} THEN d ELSE Shorter(d, Max(W))
    BY <2>4 DEF RubOut, Shorter
  <2>6. \A r \in 1..Len(d) : d[r] \in Seq(Chars) /\ Len(d[r]) \in Nat /\ (d[r] = <<>> <=> Len(d[r]) = 0)
    BY <1>1
  <2>7. \A r \in 0..(k.row - 1) : r \in RowIds /\ s + r + 1 \in 1..(Len(d) - 1) /\ k.lengths[r] = Len(d[s + r + 1])
    <3>1. ASSUME NEW r \in 0..(k.row - 1) PROVE r \in RowIds /\ s + r + 1 \in 1..(Len(d) - 1) /\ s + r + 1 \in DOMAIN d
      <4>1. PICK row, length : row = k.row /\ length = Len(d)
        OBVIOUS
      <4>2. r \in RowIds /\ s + r + 1 \in 1..(length - 1)
        BY <4>1, <1>1, RowIdsAre
      <4>3. DOMAIN d = 1..length /\ length \in Nat
        BY <4>1, <1>1
      <4> QED  BY <4>1, <4>2, <4>3
    <3> QED  BY <3>1 DEF Shows, Lengths, LineOf
  <2>8. PICK above : above = {r \in 0..(k.row - 1) : k.lengths[r] > 0}
    OBVIOUS
  <2>9. above \in SUBSET Int /\ \A x \in above : 0 <= x /\ x <= k.row
    BY <2>8, <1>1
  <2>10. PreviousPositions(k) =
           IF k.column > 0 THEN {[row |-> k.row, column |-> k.column - 1]}
           ELSE IF above = {} THEN {}
           ELSE {[row |-> Max(above), column |-> k.lengths[Max(above)] - 1]}
    BY <2>8 DEF PreviousPositions
  <2>11. above # {} => Max(above) \in above /\ \A y \in above : y <= Max(above)
    <3>1. 0 \in Int /\ k.row \in Int
      BY <1>1
    <3> QED  BY <3>1, <2>9, MaxOfBounded
  <2>12. CASE W = {}
    <3>1. k.column = 0
      BY <2>12, <2>4, <2>3, <2>6, <1>1
    <3>2. \A p \in PreviousPositions(k) : ~MayErase(k, p)
      <4>1. SUFFICES ASSUME above # {}, NEW p, p = [row |-> Max(above), column |-> k.lengths[Max(above)] - 1],
                            MayErase(k, p) PROVE FALSE
        BY <3>1, <2>10
      <4>2. Max(above) \in 0..(k.row - 1) /\ k.lengths[Max(above)] > 0
        BY <4>1, <2>11, <2>8
      <4>3. PICK y : y = Max(above)
        OBVIOUS
      <4>4. y >= k.floor.row
        BY <4>1, <4>2, <4>3, <2>3, <1>1 DEF MayErase, CellBefore
      <4>5. s + y + 1 \in low..Len(d)
        BY <4>2, <4>3, <4>4, <2>3, <1>1, SMTT(30)
      <4>6. d[s + y + 1] # <<>>
        <5>1. s + y + 1 \in 1..(Len(d) - 1) /\ Len(d[s + y + 1]) > 0
          BY <4>2, <4>3, <2>7
        <5> QED  BY <5>1, <2>6, <1>1
      <4> QED  BY <4>5, <4>6, <2>12, <2>4
    <3>3. BackspaceFromSession(k) = k
      BY <3>2 DEF BackspaceFromSession
    <3> QED  BY <3>3, <2>12, <2>5, <2>2, <1>2, <1>4
  <2>13. CASE W # {}
    <3>1. W \in SUBSET Int /\ \A x \in W : low <= x /\ x <= Len(d)
      BY <2>4, <2>3, <1>1
    <3>2. PICK q : q = Max(W)
      OBVIOUS
    <3>3. q \in W /\ \A y \in W : y <= q
      <4>1. low \in Int /\ Len(d) \in Int
        BY <2>3, <1>1
      <4> QED  BY <4>1, <3>1, <3>2, <2>13, MaxOfBounded
    <3>4. q \in low..Len(d) /\ q \in 1..Len(d) /\ d[q] # <<>> /\ s < q /\ b < q
      BY <3>3, <2>4, <2>3, <1>1, SMTT(30)
    <3>5. \A r \in (q + 1)..Len(d) : d[r] = <<>>
      BY <3>3, <3>4, <2>4, <2>3, <1>1
    <3>6. PICK p : p = [row |-> q - s - 1, column |-> Len(d[q]) - 1]
      OBVIOUS
    <3>7. PreviousPositions(k) = {p}
      <4>1. CASE k.column > 0
        <5>1. d[Len(d)] # <<>> /\ Len(d) \in low..Len(d)
          BY <4>1, <1>1, <2>3, <2>6
        <5>2. q = Len(d)
          BY <5>1, <3>3, <3>4, <2>4, <1>1
        <5> QED  BY <4>1, <5>2, <2>10, <3>6, <1>1
      <4>2. CASE ~(k.column > 0)
        <5>1. d[Len(d)] = <<>>
          BY <4>2, <1>1, <2>6, <2>3
        <5>2. q < Len(d)
          BY <5>1, <3>4, <1>1
        <5>3. q - s - 1 \in 0..(k.row - 1) /\ s + (q - s - 1) + 1 = q
          BY <5>2, <3>4, <1>1
        <5>4. q - s - 1 \in above
          BY <5>3, <3>4, <2>6, <2>7, <2>8
        <5>5. \A y \in above : y <= q - s - 1
          <6>1. SUFFICES ASSUME NEW y \in above PROVE y <= q - s - 1
            OBVIOUS
          <6>2. y \in 0..(k.row - 1) /\ k.lengths[y] > 0
            BY <2>8
          <6>3. s + y + 1 \in 1..(Len(d) - 1) /\ d[s + y + 1] # <<>>
            BY <6>2, <2>6, <2>7, <1>1, SMTT(30)
          <6> QED  BY <6>2, <6>3, <3>4, <3>5, <1>1
        <5>6. Max(above) = q - s - 1
          BY <5>4, <5>5, <2>9, MaxIs
        <5>7. k.lengths[q - s - 1] = Len(d[q])
          BY <5>3, <2>7
        <5> QED  BY <4>2, <5>4, <5>6, <5>7, <2>10, <3>6
      <4> QED  BY <4>1, <4>2
    <3>8. MayErase(k, p)
      <4>1. ~AtFloor(k)
        <5>1. SUFFICES ASSUME AtFloor(k) PROVE FALSE
          OBVIOUS
        <5>2. Len(d) = low /\ Len(d[Len(d)]) = 0
          BY <5>1, <2>3, <1>1 DEF AtFloor
        <5> QED  BY <5>2, <3>4, <2>6, <1>1
      <4>2. ~CellBefore(p, k.floor)
        BY <3>4, <3>6, <2>3, <2>6, <1>1 DEF CellBefore
      <4> QED  BY <4>1, <4>2, <1>4 DEF MayErase
    <3>9. BackspaceFromSession(k) = Rubbed(k, q - s - 1, Len(d[q]) - 1)
      <4>1. (CHOOSE x \in PreviousPositions(k) : TRUE) = p
        BY <3>7
      <4>2. \E x \in PreviousPositions(k) : MayErase(k, x)
        BY <3>7, <3>8
      <4>3. BackspaceFromSession(k) = Rubbed(k, p.row, p.column)
        BY <4>1, <4>2 DEF BackspaceFromSession, Rubbed
      <4> QED  BY <4>3, <3>6
    <3>10. Shows(Rubbed(k, q - s - 1, Len(d[q]) - 1), Shorter(d, q), s, b) /\ Top(Shorter(d, q), s) = s
      BY <3>4, <3>5, RubbedShows
    <3> QED  BY <3>9, <3>10, <3>2, <2>13, <2>5, <2>2, <1>4
  <2> QED  BY <2>12, <2>13
<1> QED  BY <1>3, <1>4

(* The inductive invariant of the console.                                 *)
ConsoleInv == banner \in Seq(Seq(Chars)) /\ Shows(con, doc, scrolled, Len(banner))

LEMMA ConsoleStarts == ConsoleInit => ConsoleInv
<1> SUFFICES ASSUME ConsoleInit PROVE ConsoleInv
  OBVIOUS
<1>1. /\ con = Empty /\ doc = <<<<>>>> /\ scrolled = 0 /\ banner = <<>>
  BY DEF ConsoleInit
<1>2. <<>> \in Seq(Chars) /\ Len(<<>>) = 0
  OBVIOUS
<1>3. doc \in Seq(Seq(Chars)) /\ Len(doc) = 1 /\ doc[1] = <<>> /\ doc # <<>> /\ DOMAIN doc = 1..1
  BY <1>1, <1>2
<1>4. Lines(doc)
  BY <1>3, <1>2, ConsoleAssumption DEF Lines
<1>5. \A r \in Int : LineOf(doc, r) = <<>>
  BY <1>3 DEF LineOf
<1>6. /\ con.cells = [r \in RowIds |-> BlankRow] /\ con.row = 0 /\ con.column = 0
      /\ con.lengths = [r \in RowIds |-> 0] /\ con.floor = NoFloor
  BY <1>1 DEF Empty
<1>7. con \in Grids
  <2>1. BlankRow \in [ColumnIds -> Chars \cup {Blank}]
    BY DEF BlankRow
  <2>2. NoFloor \in [row : Int, column : Int]
    BY DEF NoFloor
  <2> QED  BY <1>1, <2>1, <2>2 DEF Empty, Grids
<1>8. Cells(con, doc, scrolled) /\ Lengths(con, doc, scrolled)
  BY <1>1, <1>2, <1>5, <1>6, EmptyRow, RowIdsAre DEF Cells, Lengths
<1>9. Kept(doc, scrolled) /\ Cursor(con, doc, scrolled)
  BY <1>1, <1>2, <1>3, <1>6, RowIdsAre DEF Kept, Cursor
<1>10. Floor(con, doc, scrolled, Len(banner)) /\ banner \in Seq(Seq(Chars))
  BY <1>1, <1>2, <1>6 DEF Floor
<1> QED  BY <1>4, <1>7, <1>8, <1>9, <1>10 DEF ConsoleInv, Shows

LEMMA ByteShows ==
  ASSUME ConsoleInv, NEW byte \in Chars \cup {"newline", "backspace"}, Write(byte)
  PROVE  ConsoleInv'
<1>1. PICK b : b = Len(banner)
  OBVIOUS
<1>2. Shows(con, doc, scrolled, b) /\ b \in Nat /\ scrolled \in Nat
  BY <1>1 DEF ConsoleInv, Shows, Kept
<1>3. Shows(con', doc', Top(doc', scrolled), b)
  <2>1. con' = WriteTerminalByte(con, byte) /\ doc' = Expected(byte)
    BY DEF Write
  <2>2. CASE byte = "newline"
    <3>1. con' = StartLine(con) /\ doc' = NewLine(doc)
      BY <2>1, <2>2 DEF WriteTerminalByte, Expected
    <3> QED  BY <3>1, <1>2, StartLineShows
  <2>3. CASE byte = "backspace"
    <3>1. Max({scrolled, b}) = Within(scrolled, b)
      BY <1>2, MaxOfTwo DEF Within
    <3>2. /\ con' = BackspaceFromSession(con)
          /\ doc' = IF con.floor # NoFloor THEN RubOut(doc, Within(scrolled, b) + 1) ELSE doc
      BY <2>1, <2>3, <3>1, <1>1 DEF WriteTerminalByte, Expected, InSession
    <3> QED  BY <3>2, <1>2, BackspaceShows
  <2>4. CASE byte # "newline" /\ byte # "backspace"
    <3>1. con' = DrawByte(con, byte) /\ doc' = PutChar(doc, byte, Columns) /\ byte \in Chars
      BY <2>1, <2>4 DEF WriteTerminalByte, Expected
    <3> QED  BY <3>1, <1>2, DrawByteShows
  <2> QED  BY <2>2, <2>3, <2>4
<1>4. scrolled' = Top(doc', scrolled)
  <2>1. scrolled \in Int /\ Len(doc') - Rows \in Int
    BY <1>2, <1>3, ConsoleAssumption DEF Shows, Lines
  <2> QED  BY <2>1, MaxOfTwo DEF Write, Top
<1>5. banner' = banner
  BY DEF Write
<1> QED  BY <1>1, <1>3, <1>4, <1>5 DEF ConsoleInv

LEMMA SessionBegins == ASSUME ConsoleInv, BeginTerminalSession PROVE ConsoleInv'
<1>1. /\ con.column = 0 /\ con' = [con EXCEPT !.floor = [row |-> con.row, column |-> con.column]]
      /\ banner' = Front(doc) /\ doc' = doc /\ scrolled' = scrolled
  BY DEF BeginTerminalSession
<1>2. Shows(con, doc, scrolled, Len(banner)) /\ con \in Grids /\ Lines(doc) /\ Kept(doc, scrolled)
  BY DEF ConsoleInv, Shows
<1>3. PICK j : j = con'
  OBVIOUS
<1>4. /\ j.cells = con.cells /\ j.lengths = con.lengths /\ j.row = con.row /\ j.column = con.column
      /\ j.floor = [row |-> con.row, column |-> 0] /\ j \in Grids
  BY <1>1, <1>2, <1>3 DEF Grids
<1>5. PICK b : b = Len(banner')
  OBVIOUS
<1>6. banner' \in Seq(Seq(Chars)) /\ b = Len(doc) - 1 /\ b \in Nat /\ b < Len(doc)
  BY <1>1, <1>2, <1>5, FrontOf DEF Lines
<1>7. con.row = b - scrolled /\ b >= scrolled /\ scrolled \in Nat
  BY <1>2, <1>6 DEF Shows, Cursor, Kept, Lines
<1>8. j.floor = FloorAt(scrolled, b)
  <2>1. con.row = IF b > scrolled THEN b - scrolled ELSE 0
    BY <1>6, <1>7
  <2> QED  BY <2>1, <1>4 DEF FloorAt
<1>9. Floor(j, doc, scrolled, b)
  BY <1>6, <1>8 DEF Floor
<1>10. Cells(j, doc, scrolled) /\ Lengths(j, doc, scrolled) /\ Cursor(j, doc, scrolled)
  BY <1>2, <1>4 DEF Shows, Cells, Lengths, Cursor
<1>11. Shows(j, doc, scrolled, b)
  BY <1>2, <1>4, <1>9, <1>10 DEF Shows
<1> QED  BY <1>1, <1>3, <1>5, <1>6, <1>11 DEF ConsoleInv

LEMMA ConsoleSteps == ConsoleInv /\ [ConsoleNext]_consoleVars => ConsoleInv'
<1> SUFFICES ASSUME ConsoleInv, [ConsoleNext]_consoleVars PROVE ConsoleInv'
  OBVIOUS
<1>1. CASE BootByte
  BY <1>1, ByteShows DEF BootByte, Chars
<1>2. CASE BeginTerminalSession
  BY <1>2, SessionBegins
<1>3. CASE SessionByte
  BY <1>3, ByteShows DEF SessionByte, Chars
<1>4. CASE UNCHANGED consoleVars
  BY <1>4 DEF ConsoleInv, consoleVars
<1> QED  BY <1>1, <1>2, <1>3, <1>4 DEF ConsoleNext

LEMMA ConsoleImplied == ConsoleInv => ScreenShowsDocument
<1> SUFFICES ASSUME ConsoleInv PROVE ScreenShowsDocument
  OBVIOUS
<1>1. Cells(con, doc, scrolled) /\ Cursor(con, doc, scrolled)
  BY DEF ConsoleInv, Shows
<1> QED  BY <1>1 DEF ScreenShowsDocument, Cells, Cursor, Line, LineOf, Last

LEMMA TextSteps ==
  ASSUME [Next]_vars
  PROVE  /\ [ConsoleNext]_consoleVars
         /\ [InputNext]_inputVars
         /\ [PathNext]_pathVars
BY DEF Next, vars, Keyboard, Display, TypeLine, ChangeDirectory

(* The framebuffer shows the last lines of what was written and the cursor *)
(* stands behind the last character, on every screen of at least two rows  *)
(* and one column and for every sequence of characters, newlines and       *)
(* backspaces: wrapping, scrolling and the backspace that goes up a row    *)
(* keep cells, row lengths, cursor and the session's floor in step         *)
(* (FramebufferConsole).                                                   *)
THEOREM ConsoleCorrect == Spec => []ScreenShowsDocument
<1>1. Init => ConsoleInv
  BY ConsoleStarts DEF Init
<1>2. ConsoleInv /\ [Next]_vars => ConsoleInv'
  BY TextSteps, ConsoleSteps
<1>3. ConsoleInv => ScreenShowsDocument
  BY ConsoleImplied
<1> QED  BY <1>1, <1>2, <1>3, PTL DEF Spec

-----------------------------------------------------------------------------
(* The rings.  A ring counts its elements from the place it reads to the   *)
(* place it writes, around the end of its slots.                           *)
Wrapped(n, capacity) == IF n < capacity THEN n ELSE n - capacity
Rings(S, capacity) ==
  [slots : [0..(capacity - 1) -> S], capacity : {capacity}, read : 0..(capacity - 1),
   write : 0..(capacity - 1), len : 0..capacity]
RingOf(q, S, capacity) == q \in Rings(S, capacity) /\ q.write = Wrapped(q.read + q.len, capacity)

LEMMA WrapsOnce ==
  ASSUME NEW c \in Nat \ {0}, NEW n \in Nat, n < 2 * c
  PROVE  n % c = Wrapped(n, c) /\ Wrapped(n, c) \in 0..(c - 1)
<1>1. n = c * (n \div c) + (n % c) /\ (n % c) \in 0..(c - 1) /\ n \div c \in Int
  BY Z3
<1>2. PICK d \in Int : d = n \div c
  BY <1>1
<1>3. PICK e \in Int : e = n % c
  BY <1>1
<1>4. n = c * d + e /\ 0 <= e /\ e < c
  BY <1>1, <1>2, <1>3
<1>5. d = 0 \/ d = 1
  <2>1. ~(d >= 2)
    <3>1. d >= 2 => c * d >= c * 2
      OBVIOUS
    <3> QED  BY <3>1, <1>4
  <2>2. ~(d <= -1)
    <3>1. d <= -1 => c * d <= c * (-1)
      OBVIOUS
    <3> QED  BY <3>1, <1>4
  <2> QED  BY <2>1, <2>2
<1> QED  BY <1>3, <1>4, <1>5 DEF Wrapped

LEMMA RingContents ==
  ASSUME NEW c \in Nat \ {0}, NEW S, NEW q, RingOf(q, S, c)
  PROVE  /\ q.len \in Nat /\ q.read \in Nat /\ Contents(q) \in Seq(S) /\ Len(Contents(q)) = q.len
         /\ \A i \in 1..q.len : Contents(q)[i] = q.slots[Wrapped(q.read + i - 1, c)]
<1>1. /\ q.slots \in [0..(c - 1) -> S] /\ q.capacity = c /\ q.read \in 0..(c - 1)
      /\ q.len \in 0..c
  BY DEF RingOf, Rings
<1>2. ASSUME NEW i \in 1..q.len
      PROVE  /\ (q.read + i - 1) % c = Wrapped(q.read + i - 1, c)
             /\ Wrapped(q.read + i - 1, c) \in 0..(c - 1)
  <2>1. q.read + i - 1 \in Nat /\ q.read + i - 1 < 2 * c
    BY <1>1
  <2> QED  BY <2>1, WrapsOnce
<1>3. Contents(q) = [i \in 1..q.len |-> q.slots[Wrapped(q.read + i - 1, c)]]
  BY <1>1, <1>2 DEF Contents
<1>4. Contents(q) \in [1..q.len -> S] /\ q.len \in Nat
  BY <1>1, <1>2, <1>3
<1>5. Contents(q) \in Seq(S) /\ Len(Contents(q)) = q.len
  BY <1>4
<1>6. q.read \in Nat
  BY <1>1
<1> QED  BY <1>3, <1>4, <1>5, <1>6

LEMMA RingPush ==
  ASSUME NEW c \in Nat \ {0}, NEW S, NEW q, RingOf(q, S, c), NEW x \in S
  PROVE  /\ RingOf(Push(q, x), S, c)
         /\ IsFull(q) => Push(q, x) = q
         /\ ~IsFull(q) => /\ Push(q, x).len = q.len + 1
                          /\ Contents(Push(q, x))[q.len + 1] = x
                          /\ \A i \in 1..q.len : Contents(Push(q, x))[i] = Contents(q)[i]
<1>1. /\ q.slots \in [0..(c - 1) -> S] /\ q.capacity = c /\ q.read \in 0..(c - 1)
      /\ q.write \in 0..(c - 1) /\ q.len \in 0..c /\ q.write = Wrapped(q.read + q.len, c)
      /\ q \in Rings(S, c)
  BY DEF RingOf, Rings
<1>2. CASE IsFull(q)
  BY <1>2 DEF Push
<1>3. CASE ~IsFull(q)
  <2>1. q.len < c
    BY <1>1, <1>3 DEF IsFull
  <2>2. PICK p : p = Push(q, x)
    OBVIOUS
  <2>3. (q.write + 1) % c = Wrapped(q.write + 1, c) /\ Wrapped(q.write + 1, c) \in 0..(c - 1)
    <3>1. q.write + 1 \in Nat /\ q.write + 1 < 2 * c
      BY <1>1
    <3> QED  BY <3>1, WrapsOnce
  <2>4. /\ p.slots = [q.slots EXCEPT ![q.write] = x] /\ p.capacity = c /\ p.read = q.read
        /\ p.write = Wrapped(q.write + 1, c) /\ p.len = q.len + 1
        /\ p \in [slots : {p.slots}, capacity : {p.capacity}, read : {p.read}, write : {p.write}, len : {p.len}]
    BY <2>2, <2>3, <1>1, <1>3 DEF Push, Rings
  <2>5. p.slots \in [0..(c - 1) -> S] /\ p.len \in 0..c
    BY <2>1, <2>4, <1>1
  <2>6. p \in Rings(S, c)
    BY <2>3, <2>4, <2>5, <1>1 DEF Rings
  <2>7. p.write = Wrapped(p.read + p.len, c)
    BY <2>1, <2>4, <1>1 DEF Wrapped
  <2>8. RingOf(p, S, c)
    BY <2>6, <2>7 DEF RingOf
  <2>9. \A i \in 1..p.len : Contents(p)[i] = p.slots[Wrapped(p.read + i - 1, c)]
    BY <2>8, RingContents
  <2>10. \A i \in 1..q.len : Contents(q)[i] = q.slots[Wrapped(q.read + i - 1, c)]
    BY RingContents
  <2>11. ASSUME NEW i \in 1..q.len PROVE Contents(p)[i] = Contents(q)[i]
    <3>1. Wrapped(q.read + i - 1, c) \in 0..(c - 1) /\ Wrapped(q.read + i - 1, c) # q.write
      BY <2>1, <1>1 DEF Wrapped
    <3>2. i \in 1..p.len
      BY <2>4, <1>1
    <3> QED  BY <3>1, <3>2, <2>4, <2>9, <2>10, <1>1
  <2>12. Contents(p)[q.len + 1] = x
    <3>1. q.len + 1 \in 1..p.len /\ q.read + (q.len + 1) - 1 = q.read + q.len
      BY <2>4, <1>1, SMTT(30)
    <3>2. Contents(p)[q.len + 1] = p.slots[q.write]
      BY <3>1, <2>4, <2>9, <1>1
    <3> QED  BY <3>2, <2>4, <1>1
  <2> QED  BY <1>3, <2>2, <2>4, <2>8, <2>11, <2>12
<1> QED  BY <1>2, <1>3

LEMMA RingPop ==
  ASSUME NEW c \in Nat \ {0}, NEW S, NEW q, RingOf(q, S, c), ~IsEmpty(q)
  PROVE  /\ RingOf(Pop(q), S, c) /\ Pop(q).len = q.len - 1 /\ q.len >= 1
         /\ Oldest(q) = Contents(q)[1] /\ Oldest(q) \in S
         /\ \A i \in 1..(q.len - 1) : Contents(Pop(q))[i] = Contents(q)[i + 1]
<1>1. /\ q.slots \in [0..(c - 1) -> S] /\ q.capacity = c /\ q.read \in 0..(c - 1)
      /\ q.write \in 0..(c - 1) /\ q.len \in 0..c /\ q.write = Wrapped(q.read + q.len, c)
      /\ q \in Rings(S, c) /\ q.len >= 1
  BY DEF RingOf, Rings, IsEmpty
<1>2. PICK p : p = Pop(q)
  OBVIOUS
<1>3. (q.read + 1) % c = Wrapped(q.read + 1, c) /\ Wrapped(q.read + 1, c) \in 0..(c - 1)
  <2>1. q.read + 1 \in Nat /\ q.read + 1 < 2 * c
    BY <1>1
  <2> QED  BY <2>1, WrapsOnce
<1>4. /\ p.slots = q.slots /\ p.capacity = c /\ p.read = Wrapped(q.read + 1, c)
      /\ p.write = q.write /\ p.len = q.len - 1
      /\ p \in [slots : {p.slots}, capacity : {p.capacity}, read : {p.read}, write : {p.write}, len : {p.len}]
  BY <1>2, <1>3, <1>1 DEF Pop, Rings
<1>5. p.len \in 0..c
  BY <1>1, <1>4
<1>6. p \in Rings(S, c)
  BY <1>3, <1>4, <1>5, <1>1 DEF Rings
<1>7. p.write = Wrapped(p.read + p.len, c)
  <2>1. Wrapped(Wrapped(q.read + 1, c) + (q.len - 1), c) = Wrapped(q.read + q.len, c)
    <3>1. PICK r, n : r = q.read /\ n = q.len
      OBVIOUS
    <3>2. r \in 0..(c - 1) /\ n \in 1..c /\ c \in Nat
      BY <3>1, <1>1
    <3>3. Wrapped(Wrapped(r + 1, c) + (n - 1), c) = Wrapped(r + n, c)
      BY ONLY <3>2 DEF Wrapped
    <3> QED  BY <3>1, <3>3
  <2> QED  BY <2>1, <1>4, <1>1
<1>8. RingOf(p, S, c)
  BY <1>6, <1>7 DEF RingOf
<1>9. \A i \in 1..p.len : Contents(p)[i] = p.slots[Wrapped(p.read + i - 1, c)]
  BY <1>8, RingContents
<1>10. \A i \in 1..q.len : Contents(q)[i] = q.slots[Wrapped(q.read + i - 1, c)]
  BY RingContents
<1>11. ASSUME NEW i \in 1..(q.len - 1) PROVE Contents(p)[i] = Contents(q)[i + 1]
  <2>1. i \in 1..p.len /\ i + 1 \in 1..q.len
    BY <1>1, <1>4
  <2>2. Wrapped(Wrapped(q.read + 1, c) + i - 1, c) = Wrapped(q.read + (i + 1) - 1, c)
    BY <1>1, SMTT(30) DEF Wrapped
  <2> QED  BY <2>1, <2>2, <1>4, <1>9, <1>10
<1>12. Oldest(q) = Contents(q)[1] /\ Oldest(q) \in S
  <2>1. 1 \in 1..q.len /\ Wrapped(q.read + 1 - 1, c) = q.read
    BY <1>1 DEF Wrapped
  <2> QED  BY <2>1, <1>10, <1>1 DEF Oldest
<1> QED  BY <1>1, <1>2, <1>4, <1>8, <1>11, <1>12

-----------------------------------------------------------------------------
(* The way of the input.  What is on its way stands in slots, in the order *)
(* in which programs will read it: g has been read, i is in the input      *)
(* queue, e in the event queue, w in the controller.  A slot that will     *)
(* never yield a byte holds NoByte.                                        *)
InBytes == {"newline", "upper", "lower"}
Slots == Seq(InBytes \cup {NoByte})
WayLen(g, i, e, w) == Len(g) + Len(i) + Len(e) + Len(w)
Way(g, i, e, w) ==
  [n \in 1..WayLen(g, i, e, w) |->
     IF n <= Len(g) THEN g[n]
     ELSE IF n <= Len(g) + Len(i) THEN i[n - Len(g)]
     ELSE IF n <= Len(g) + Len(i) + Len(e) THEN e[n - Len(g) - Len(i)]
     ELSE w[n - Len(g) - Len(i) - Len(e)]]

(* The N slots of W yield bytes of t, in order; all of them if full.       *)
Places(f, W, N, t) ==
  /\ f \in [1..N -> Nat]
  /\ \A n \in 1..N : W[n] # NoByte => f[n] \in 1..Len(t) /\ W[n] = t[f[n]]
  /\ \A n, k \in 1..N : n < k /\ W[n] # NoByte /\ W[k] # NoByte => f[n] < f[k]
Covers(f, W, N, t) == \A x \in 1..Len(t) : \E n \in 1..N : W[n] # NoByte /\ f[n] = x
Yields(W, N, t, full) == \E f : Places(f, W, N, t) /\ (full => Covers(f, W, N, t))

LEMMA OneMoreSlot ==
  ASSUME NEW W, NEW N \in Nat, NEW t \in Seq(InBytes), NEW full, Yields(W, N, t, full),
         NEW V, NEW b \in InBytes \cup {NoByte},
         \A n \in 1..N : V[n] = W[n], V[N + 1] = b
  PROVE  Yields(V, N + 1, Given(t, b), full)
<1>1. PICK f : Places(f, W, N, t) /\ (full => Covers(f, W, N, t))
  BY DEF Yields
<1>2. PICK u : u = Given(t, b)
  OBVIOUS
<1>3. PICK h : h = [n \in 1..(N + 1) |-> IF n = N + 1 THEN Len(u) ELSE f[n]]
  OBVIOUS
<1>4. /\ f \in [1..N -> Nat]
      /\ \A n \in 1..N : W[n] # NoByte => f[n] \in 1..Len(t) /\ W[n] = t[f[n]]
      /\ \A n, k \in 1..N : n < k /\ W[n] # NoByte /\ W[k] # NoByte => f[n] < f[k]
  BY <1>1 DEF Places
<1>5. \A n \in 1..(N + 1) : n # N + 1 => n \in 1..N
  OBVIOUS
<1>6. CASE b = NoByte
  <2>1. u = t /\ Len(t) \in Nat
    BY <1>2, <1>6 DEF Given
  <2>2. h \in [1..(N + 1) -> Nat]
    BY <2>1, <1>3, <1>4, <1>5
  <2>3. Places(h, V, N + 1, u)
    BY <2>1, <2>2, <1>3, <1>4, <1>5, <1>6 DEF Places
  <2>4. full => Covers(h, V, N + 1, u)
    <3>1. \A n \in 1..N : n \in 1..(N + 1) /\ h[n] = f[n]
      BY <1>3
    <3> QED  BY <3>1, <2>1, <1>1 DEF Covers
  <2> QED  BY <1>2, <2>3, <2>4 DEF Yields
<1>7. CASE b # NoByte
  <2>1. /\ u = Append(t, b) /\ Len(t) \in Nat /\ Len(u) = Len(t) + 1 /\ u[Len(t) + 1] = b
        /\ \A x \in 1..Len(t) : u[x] = t[x]
    BY <1>2, <1>7 DEF Given
  <2>2. h \in [1..(N + 1) -> Nat]
    BY <2>1, <1>3, <1>4, <1>5
  <2>3. \A n \in 1..(N + 1) : V[n] # NoByte => h[n] \in 1..Len(u) /\ V[n] = u[h[n]]
    <3>1. ASSUME NEW n \in 1..N, V[n] # NoByte PROVE h[n] \in 1..Len(u) /\ V[n] = u[h[n]]
      <4>a. n \in 1..(N + 1) /\ n # N + 1 /\ V[n] = W[n]
        OBVIOUS
      <4>1. h[n] = f[n] /\ f[n] \in 1..Len(t) /\ V[n] = t[f[n]]
        BY <4>a, <3>1, <1>3, <1>4
      <4> QED  BY <4>1, <2>1
    <3>2. h[N + 1] = Len(t) + 1 /\ Len(t) + 1 \in 1..Len(u)
      BY <1>3, <2>1
    <3> QED  BY <3>1, <3>2, <2>1, <1>5
  <2>4. \A n, k \in 1..(N + 1) : n < k /\ V[n] # NoByte /\ V[k] # NoByte => h[n] < h[k]
    <3>1. ASSUME NEW n \in 1..(N + 1), NEW k \in 1..(N + 1), n < k, V[n] # NoByte, V[k] # NoByte
          PROVE  h[n] < h[k]
      <4>1. n \in 1..N /\ h[n] = f[n] /\ f[n] \in 1..Len(t)
        BY <3>1, <1>3, <1>4, SMTT(30)
      <4>2. CASE k = N + 1
        BY <4>1, <4>2, <2>1, <1>3
      <4>3. CASE k # N + 1
        BY <4>1, <4>3, <3>1, <1>3, <1>4, <1>5
      <4> QED  BY <4>2, <4>3
    <3> QED  BY <3>1
  <2>5. Places(h, V, N + 1, u)
    BY <2>2, <2>3, <2>4 DEF Places
  <2>6. full => Covers(h, V, N + 1, u)
    <3>1. ASSUME full, NEW x \in 1..Len(u) PROVE \E n \in 1..(N + 1) : V[n] # NoByte /\ h[n] = x
      <4>1. CASE x = Len(t) + 1
        <5>1. N + 1 \in 1..(N + 1) /\ h[N + 1] = x
          BY <4>1, <2>1, <1>3
        <5> QED  BY <5>1, <1>7
      <4>2. CASE x # Len(t) + 1
        <5>1. x \in 1..Len(t)
          BY <4>2, <2>1
        <5>2. PICK n \in 1..N : W[n] # NoByte /\ f[n] = x
          BY <5>1, <3>1, <1>1 DEF Covers
        <5>3. n \in 1..(N + 1) /\ h[n] = f[n]
          BY <1>3
        <5> QED  BY <5>2, <5>3
      <4> QED  BY <4>1, <4>2
    <3> QED  BY <3>1 DEF Covers
  <2> QED  BY <1>2, <2>5, <2>6 DEF Yields
<1> QED  BY <1>6, <1>7

LEMMA OneSlotLess ==
  ASSUME NEW W, NEW N \in Nat, NEW t \in Seq(InBytes), NEW full, Yields(W, N, t, full),
         NEW V, NEW p \in 1..N, NEW still, still => full, W[p] = NoByte \/ ~still,
         \A n \in 1..(N - 1) : V[n] = W[IF n < p THEN n ELSE n + 1]
  PROVE  Yields(V, N - 1, t, still)
<1>1. PICK f : Places(f, W, N, t) /\ (full => Covers(f, W, N, t))
  BY DEF Yields
<1>2. PICK h : h = [n \in 1..(N - 1) |-> f[IF n < p THEN n ELSE n + 1]]
  OBVIOUS
<1>3. /\ f \in [1..N -> Nat]
      /\ \A n \in 1..N : W[n] # NoByte => f[n] \in 1..Len(t) /\ W[n] = t[f[n]]
      /\ \A n, k \in 1..N : n < k /\ W[n] # NoByte /\ W[k] # NoByte => f[n] < f[k]
  BY <1>1 DEF Places
<1>4. PICK to : to = [n \in 1..(N - 1) |-> IF n < p THEN n ELSE n + 1]
  OBVIOUS
<1>5. /\ \A n \in 1..(N - 1) : to[n] \in 1..N /\ V[n] = W[to[n]] /\ h[n] = f[to[n]]
      /\ \A n, k \in 1..(N - 1) : n < k => to[n] < to[k]
  BY <1>2, <1>4
<1>6. \A x \in 1..N : x # p => \E n \in 1..(N - 1) : to[n] = x
  <2>1. ASSUME NEW x \in 1..N, x # p PROVE \E n \in 1..(N - 1) : to[n] = x
    <3>1. CASE x < p
      <4>1. x \in 1..(N - 1) /\ to[x] = x
        BY <3>1, <1>4
      <4> QED  BY <4>1
    <3>2. CASE ~(x < p)
      <4>1. x - 1 \in 1..(N - 1) /\ ~(x - 1 < p)
        BY <2>1, <3>2
      <4>2. to[x - 1] = x
        BY <4>1, <1>4
      <4> QED  BY <4>1, <4>2
    <3> QED  BY <3>1, <3>2
  <2> QED  BY <2>1
<1>7. h \in [1..(N - 1) -> Nat]
  BY <1>2, <1>3
<1>8. Places(h, V, N - 1, t)
  <2>1. ASSUME NEW n \in 1..(N - 1), V[n] # NoByte PROVE h[n] \in 1..Len(t) /\ V[n] = t[h[n]]
    BY <2>1, <1>3, <1>5
  <2>2. ASSUME NEW n \in 1..(N - 1), NEW k \in 1..(N - 1), n < k, V[n] # NoByte, V[k] # NoByte
        PROVE  h[n] < h[k]
    <3>1. /\ to[n] \in 1..N /\ V[n] = W[to[n]] /\ h[n] = f[to[n]]
          /\ to[k] \in 1..N /\ V[k] = W[to[k]] /\ h[k] = f[to[k]] /\ to[n] < to[k]
      BY <2>2, <1>5
    <3> QED  BY <3>1, <2>2, <1>3
  <2> QED  BY <2>1, <2>2, <1>7 DEF Places
<1>9. still => Covers(h, V, N - 1, t)
  <2>1. ASSUME still, NEW x \in 1..Len(t) PROVE \E n \in 1..(N - 1) : V[n] # NoByte /\ h[n] = x
    <3>1. PICK k \in 1..N : W[k] # NoByte /\ f[k] = x
      BY <2>1, <1>1 DEF Covers
    <3>2. k # p
      BY <3>1, <2>1
    <3>3. PICK n \in 1..(N - 1) : to[n] = k
      BY <3>2, <1>6
    <3> QED  BY <3>1, <3>3, <1>5
  <2> QED  BY <2>1 DEF Covers
<1> QED  BY <1>8, <1>9 DEF Yields

(* s without its first element, and s with one more.                       *)
IsTail(r, s) == Len(r) = Len(s) - 1 /\ \A n \in 1..(Len(s) - 1) : r[n] = s[n + 1]
IsLonger(r, s, x) == Len(r) = Len(s) + 1 /\ r[Len(s) + 1] = x /\ \A n \in 1..Len(s) : r[n] = s[n]

LEMMA ReadOne ==
  ASSUME NEW g \in Slots, NEW i \in Slots, NEW e \in Slots, NEW w \in Slots, Len(i) >= 1,
         NEW g2 \in Slots, NEW i2 \in Slots, IsTail(i2, i), IsLonger(g2, g, i[1])
  PROVE  WayLen(g2, i2, e, w) = WayLen(g, i, e, w) /\ Way(g2, i2, e, w) = Way(g, i, e, w)
<1>1. /\ Len(g) \in Nat /\ Len(i) \in Nat /\ Len(e) \in Nat /\ Len(w) \in Nat
      /\ Len(g2) = Len(g) + 1 /\ Len(i2) = Len(i) - 1
  BY DEF Slots, IsTail, IsLonger
<1>2. WayLen(g2, i2, e, w) = WayLen(g, i, e, w) /\ WayLen(g, i, e, w) \in Nat
  BY <1>1 DEF WayLen
<1>3. ASSUME NEW n \in 1..WayLen(g, i, e, w) PROVE Way(g2, i2, e, w)[n] = Way(g, i, e, w)[n]
  <2>1. CASE n <= Len(g)
    BY <1>1, <1>2, <2>1 DEF Way, IsLonger
  <2>2. CASE n = Len(g) + 1
    BY <1>1, <1>2, <2>2 DEF Way, IsLonger
  <2>3. CASE n > Len(g) + 1 /\ n <= Len(g) + Len(i)
    <3>1. n - Len(g2) \in 1..(Len(i) - 1) /\ n - Len(g2) + 1 = n - Len(g)
      BY <1>1, <2>3
    <3>2. Way(g2, i2, e, w)[n] = i2[n - Len(g2)]
      BY <1>1, <1>2, <2>3 DEF Way
    <3>3. Way(g, i, e, w)[n] = i[n - Len(g)]
      BY <1>1, <1>2, <2>3 DEF Way
    <3>4. i2[n - Len(g2)] = i[n - Len(g2) + 1]
      BY <3>1 DEF IsTail
    <3> QED  BY <3>1, <3>2, <3>3, <3>4
  <2>4. CASE n > Len(g) + Len(i)
    BY <1>1, <1>2, <2>4 DEF Way
  <2> QED  BY <1>1, <2>1, <2>2, <2>3, <2>4
<1> QED  BY <1>2, <1>3 DEF Way

LEMMA DispatchOne ==
  ASSUME NEW g \in Slots, NEW i \in Slots, NEW e \in Slots, NEW w \in Slots, Len(e) >= 1,
         NEW i2 \in Slots, NEW e2 \in Slots, IsTail(e2, e), IsLonger(i2, i, e[1])
  PROVE  WayLen(g, i2, e2, w) = WayLen(g, i, e, w) /\ Way(g, i2, e2, w) = Way(g, i, e, w)
<1>1. /\ Len(g) \in Nat /\ Len(i) \in Nat /\ Len(e) \in Nat /\ Len(w) \in Nat
      /\ Len(i2) = Len(i) + 1 /\ Len(e2) = Len(e) - 1
  BY DEF Slots, IsTail, IsLonger
<1>2. WayLen(g, i2, e2, w) = WayLen(g, i, e, w) /\ WayLen(g, i, e, w) \in Nat
  BY <1>1 DEF WayLen
<1>3. ASSUME NEW n \in 1..WayLen(g, i, e, w) PROVE Way(g, i2, e2, w)[n] = Way(g, i, e, w)[n]
  <2>1. CASE n <= Len(g)
    BY <1>1, <1>2, <2>1 DEF Way
  <2>2. CASE n > Len(g) /\ n <= Len(g) + Len(i)
    <3>1. n - Len(g) \in 1..Len(i)
      BY <1>1, <2>2
    <3> QED  BY <1>1, <1>2, <2>2, <3>1, SMTT(30) DEF Way, IsLonger
  <2>3. CASE n = Len(g) + Len(i) + 1
    <3>1. n - Len(g) = Len(i) + 1 /\ n - Len(g) - Len(i) = 1
      BY <1>1, <2>3
    <3> QED  BY <1>1, <1>2, <2>3, <3>1 DEF Way, IsLonger
  <2>4. CASE n > Len(g) + Len(i) + 1 /\ n <= Len(g) + Len(i) + Len(e)
    <3>1. n - Len(g) - Len(i2) \in 1..(Len(e) - 1) /\ n - Len(g) - Len(i2) + 1 = n - Len(g) - Len(i)
      BY <1>1, <2>4
    <3>2. Way(g, i2, e2, w)[n] = e2[n - Len(g) - Len(i2)]
      BY <1>1, <1>2, <2>4 DEF Way
    <3>3. Way(g, i, e, w)[n] = e[n - Len(g) - Len(i)]
      BY <1>1, <1>2, <2>4 DEF Way
    <3>4. e2[n - Len(g) - Len(i2)] = e[n - Len(g) - Len(i2) + 1]
      BY <3>1 DEF IsTail
    <3> QED  BY <3>1, <3>2, <3>3, <3>4
  <2>5. CASE n > Len(g) + Len(i) + Len(e)
    BY <1>1, <1>2, <2>5 DEF Way
  <2> QED  BY <1>1, <2>1, <2>2, <2>3, <2>4, <2>5
<1> QED  BY <1>2, <1>3 DEF Way

LEMMA DecodeOne ==
  ASSUME NEW g \in Slots, NEW i \in Slots, NEW e \in Slots, NEW w \in Slots, Len(w) >= 1,
         NEW e2 \in Slots, NEW w2 \in Slots, IsTail(w2, w), IsLonger(e2, e, w[1])
  PROVE  WayLen(g, i, e2, w2) = WayLen(g, i, e, w) /\ Way(g, i, e2, w2) = Way(g, i, e, w)
<1>1. /\ Len(g) \in Nat /\ Len(i) \in Nat /\ Len(e) \in Nat /\ Len(w) \in Nat
      /\ Len(e2) = Len(e) + 1 /\ Len(w2) = Len(w) - 1
  BY DEF Slots, IsTail, IsLonger
<1>2. WayLen(g, i, e2, w2) = WayLen(g, i, e, w) /\ WayLen(g, i, e, w) \in Nat
  BY <1>1 DEF WayLen
<1>3. ASSUME NEW n \in 1..WayLen(g, i, e, w) PROVE Way(g, i, e2, w2)[n] = Way(g, i, e, w)[n]
  <2>1. CASE n <= Len(g) + Len(i)
    BY <1>1, <1>2, <2>1 DEF Way
  <2>2. CASE n > Len(g) + Len(i) /\ n <= Len(g) + Len(i) + Len(e)
    <3>1. n - Len(g) - Len(i) \in 1..Len(e)
      BY <1>1, <2>2
    <3> QED  BY <1>1, <1>2, <2>2, <3>1, SMTT(30) DEF Way, IsLonger
  <2>3. CASE n = Len(g) + Len(i) + Len(e) + 1
    <3>1. n - Len(g) - Len(i) = Len(e) + 1 /\ n - Len(g) - Len(i) - Len(e) = 1
      BY <1>1, <2>3
    <3> QED  BY <1>1, <1>2, <2>3, <3>1 DEF Way, IsLonger
  <2>4. CASE n > Len(g) + Len(i) + Len(e) + 1
    <3>1. /\ n - Len(g) - Len(i) - Len(e2) \in 1..(Len(w) - 1)
          /\ n - Len(g) - Len(i) - Len(e2) + 1 = n - Len(g) - Len(i) - Len(e)
      BY <1>1, <2>4 DEF WayLen
    <3>2. Way(g, i, e2, w2)[n] = w2[n - Len(g) - Len(i) - Len(e2)]
      BY <1>1, <1>2, <2>4 DEF Way
    <3>3. Way(g, i, e, w)[n] = w[n - Len(g) - Len(i) - Len(e)]
      BY <1>1, <1>2, <2>4 DEF Way
    <3>4. w2[n - Len(g) - Len(i) - Len(e2)] = w[n - Len(g) - Len(i) - Len(e2) + 1]
      BY <3>1 DEF IsTail
    <3> QED  BY <3>1, <3>2, <3>3, <3>4
  <2> QED  BY <1>1, <2>1, <2>2, <2>3, <2>4
<1> QED  BY <1>2, <1>3 DEF Way

(* The first event, or the first byte of the controller, taken away.       *)
LEMMA EventGone ==
  ASSUME NEW g \in Slots, NEW i \in Slots, NEW e \in Slots, NEW w \in Slots, Len(e) >= 1,
         NEW e2 \in Slots, IsTail(e2, e), NEW t \in Seq(InBytes), NEW full, NEW still,
         Yields(Way(g, i, e, w), WayLen(g, i, e, w), t, full), still => full, e[1] = NoByte \/ ~still
  PROVE  Yields(Way(g, i, e2, w), WayLen(g, i, e2, w), t, still)
<1>1. /\ Len(g) \in Nat /\ Len(i) \in Nat /\ Len(e) \in Nat /\ Len(w) \in Nat /\ Len(e2) = Len(e) - 1
  BY DEF Slots, IsTail
<1>2. PICK N : N = WayLen(g, i, e, w)
  OBVIOUS
<1>3. PICK p : p = Len(g) + Len(i) + 1
  OBVIOUS
<1>4. N \in Nat /\ p \in 1..N /\ WayLen(g, i, e2, w) = N - 1
  BY <1>1, <1>2, <1>3 DEF WayLen
<1>5. Way(g, i, e, w)[p] = e[1]
  BY <1>1, <1>2, <1>3, <1>4 DEF Way
<1>6. ASSUME NEW n \in 1..(N - 1)
      PROVE  Way(g, i, e2, w)[n] = Way(g, i, e, w)[IF n < p THEN n ELSE n + 1]
  <2>1. CASE n < p
    BY <1>1, <1>2, <1>3, <1>4, <2>1 DEF Way
  <2>2. CASE ~(n < p) /\ n <= Len(g) + Len(i) + Len(e2)
    <3>1. n - Len(g) - Len(i) \in 1..(Len(e) - 1) /\ (n + 1) - Len(g) - Len(i) = (n - Len(g) - Len(i)) + 1
      BY <1>1, <1>3, <2>2
    <3>2. Way(g, i, e2, w)[n] = e2[n - Len(g) - Len(i)]
      BY <1>1, <1>2, <1>3, <1>4, <2>2 DEF Way
    <3>3. Way(g, i, e, w)[n + 1] = e[(n + 1) - Len(g) - Len(i)]
      BY <1>1, <1>2, <1>3, <1>4, <2>2 DEF Way
    <3>4. e2[n - Len(g) - Len(i)] = e[(n - Len(g) - Len(i)) + 1]
      BY <3>1 DEF IsTail
    <3> QED  BY <2>2, <3>1, <3>2, <3>3, <3>4
  <2>3. CASE ~(n < p) /\ ~(n <= Len(g) + Len(i) + Len(e2))
    <3>1. (n + 1) - Len(g) - Len(i) - Len(e) = n - Len(g) - Len(i) - Len(e2)
      BY <1>1
    <3> QED  BY <1>1, <1>2, <1>3, <1>4, <2>3, <3>1 DEF Way
  <2> QED  BY <2>1, <2>2, <2>3
<1>7. Way(g, i, e, w)[p] = NoByte \/ ~still
  BY <1>5
<1>8. PICK W, V : W = Way(g, i, e, w) /\ V = Way(g, i, e2, w)
  OBVIOUS
<1>9. /\ N \in Nat /\ p \in 1..N /\ Yields(W, N, t, full) /\ (still => full)
      /\ (W[p] = NoByte \/ ~still) /\ \A n \in 1..(N - 1) : V[n] = W[IF n < p THEN n ELSE n + 1]
  BY <1>2, <1>4, <1>6, <1>7, <1>8
<1>10. Yields(V, N - 1, t, still)
  BY <1>9, OneSlotLess
<1> QED  BY <1>4, <1>8, <1>10

LEMMA WireByteGone ==
  ASSUME NEW g \in Slots, NEW i \in Slots, NEW e \in Slots, NEW w \in Slots, Len(w) >= 1,
         NEW w2 \in Slots, IsTail(w2, w), NEW t \in Seq(InBytes), NEW full, NEW still,
         Yields(Way(g, i, e, w), WayLen(g, i, e, w), t, full), still => full, w[1] = NoByte \/ ~still
  PROVE  Yields(Way(g, i, e, w2), WayLen(g, i, e, w2), t, still)
<1>1. /\ Len(g) \in Nat /\ Len(i) \in Nat /\ Len(e) \in Nat /\ Len(w) \in Nat /\ Len(w2) = Len(w) - 1
  BY DEF Slots, IsTail
<1>2. PICK N : N = WayLen(g, i, e, w)
  OBVIOUS
<1>3. PICK p : p = Len(g) + Len(i) + Len(e) + 1
  OBVIOUS
<1>4. N \in Nat /\ p \in 1..N /\ WayLen(g, i, e, w2) = N - 1 /\ N = Len(g) + Len(i) + Len(e) + Len(w)
  BY <1>1, <1>2, <1>3 DEF WayLen
<1>5. Way(g, i, e, w)[p] = w[1]
  BY <1>1, <1>2, <1>3, <1>4 DEF Way
<1>6. ASSUME NEW n \in 1..(N - 1)
      PROVE  Way(g, i, e, w2)[n] = Way(g, i, e, w)[IF n < p THEN n ELSE n + 1]
  <2>1. CASE n < p
    BY <1>1, <1>2, <1>3, <1>4, <2>1 DEF Way
  <2>2. CASE ~(n < p)
    <3>1. /\ n - Len(g) - Len(i) - Len(e) \in 1..(Len(w) - 1)
          /\ (n + 1) - Len(g) - Len(i) - Len(e) = (n - Len(g) - Len(i) - Len(e)) + 1
      BY <1>1, <1>3, <1>4, <2>2
    <3>2. Way(g, i, e, w2)[n] = w2[n - Len(g) - Len(i) - Len(e)]
      BY <1>1, <1>2, <1>3, <1>4, <2>2 DEF Way
    <3>3. Way(g, i, e, w)[n + 1] = w[(n + 1) - Len(g) - Len(i) - Len(e)]
      BY <1>1, <1>2, <1>3, <1>4, <2>2 DEF Way
    <3>4. w2[n - Len(g) - Len(i) - Len(e)] = w[(n - Len(g) - Len(i) - Len(e)) + 1]
      BY <3>1 DEF IsTail
    <3> QED  BY <2>2, <3>1, <3>2, <3>3, <3>4
  <2> QED  BY <2>1, <2>2
<1>7. Way(g, i, e, w)[p] = NoByte \/ ~still
  BY <1>5
<1>8. Yields(Way(g, i, e, w), N, t, full)
  BY <1>2
<1>9. Yields(Way(g, i, e, w2), N - 1, t, still)
  BY <1>4, <1>6, <1>7, <1>8, OneSlotLess
<1> QED  BY <1>4, <1>9

(* A byte sent.                                                            *)
LEMMA WireByteCome ==
  ASSUME NEW g \in Slots, NEW i \in Slots, NEW e \in Slots, NEW w \in Slots,
         NEW w2 \in Slots, NEW b \in InBytes \cup {NoByte}, IsLonger(w2, w, b),
         NEW t \in Seq(InBytes), NEW full, Yields(Way(g, i, e, w), WayLen(g, i, e, w), t, full)
  PROVE  Yields(Way(g, i, e, w2), WayLen(g, i, e, w2), Given(t, b), full)
<1>1. /\ Len(g) \in Nat /\ Len(i) \in Nat /\ Len(e) \in Nat /\ Len(w) \in Nat /\ Len(w2) = Len(w) + 1
  BY DEF Slots, IsLonger
<1>2. PICK N : N = WayLen(g, i, e, w)
  OBVIOUS
<1>3. N \in Nat /\ WayLen(g, i, e, w2) = N + 1 /\ N = Len(g) + Len(i) + Len(e) + Len(w)
  BY <1>1, <1>2 DEF WayLen
<1>4. Way(g, i, e, w2)[N + 1] = b
  <2>1. N + 1 - Len(g) - Len(i) - Len(e) = Len(w) + 1
    BY <1>1, <1>3
  <2> QED  BY <1>1, <1>2, <1>3, <2>1 DEF Way, IsLonger
<1>5. ASSUME NEW n \in 1..N PROVE Way(g, i, e, w2)[n] = Way(g, i, e, w)[n]
  <2>1. CASE n <= Len(g) + Len(i) + Len(e)
    BY <1>1, <1>2, <1>3, <2>1 DEF Way
  <2>2. CASE n > Len(g) + Len(i) + Len(e)
    <3>1. n - Len(g) - Len(i) - Len(e) \in 1..Len(w)
      BY <1>1, <1>3, <2>2
    <3>2. Way(g, i, e, w2)[n] = w2[n - Len(g) - Len(i) - Len(e)]
      BY <1>1, <1>2, <1>3, <2>2 DEF Way
    <3>3. Way(g, i, e, w)[n] = w[n - Len(g) - Len(i) - Len(e)]
      BY <1>1, <1>2, <1>3, <2>2 DEF Way
    <3>4. w2[n - Len(g) - Len(i) - Len(e)] = w[n - Len(g) - Len(i) - Len(e)]
      BY <3>1 DEF IsLonger
    <3> QED  BY <3>2, <3>3, <3>4
  <2> QED  BY <1>1, <1>3, <2>1, <2>2
<1> QED  BY <1>2, <1>3, <1>4, <1>5, OneMoreSlot

-----------------------------------------------------------------------------
(* Induction up to a bound, and functions defined by recursion up to one.  *)
LEMMA UpTo ==
  ASSUME NEW L \in Nat, NEW T, 0 \in T, \A n \in 1..L : n - 1 \in T => n \in T
  PROVE  \A n \in 0..L : n \in T
<1> DEFINE bad == {n \in 0..L : n \notin T}
<1> SUFFICES ASSUME bad # {} PROVE FALSE
  OBVIOUS
<1>1. bad \in SUBSET Nat
  OBVIOUS
<1>2. PICK n \in bad : \A k \in bad : n <= k
  BY <1>1, LeastNatural
<1>3. n \in 1..L /\ n - 1 \in 0..L /\ ~(n <= n - 1)
  BY <1>2
<1>4. n - 1 \in T
  BY <1>2, <1>3
<1> QED  BY <1>3, <1>4

Steps(L, S) == [1..L -> [S -> S]]
Chain(f, L, S, start, step) ==
  f \in [0..L -> S] /\ f[0] = start /\ \A n \in 1..L : f[n] = step[n][f[n - 1]]
LEMMA Recursion ==
  ASSUME NEW L \in Nat, NEW S, NEW start \in S, NEW step \in Steps(L, S)
  PROVE  \E f : Chain(f, L, S, start, step)
<1> DEFINE Good(f, n) == f[0] = start /\ \A i \in 1..n : f[i] = step[i][f[i - 1]]
           T == {n \in 0..L : \E f \in [0..n -> S] : Good(f, n)}
<1>1. 0 \in T
  <2>1. PICK f : f = [n \in 0..0 |-> start]
    OBVIOUS
  <2>2. f \in [0..0 -> S] /\ Good(f, 0)
    BY <2>1
  <2>3. 0 \in 0..L
    OBVIOUS
  <2> QED  BY <2>2, <2>3
<1>2. ASSUME NEW n \in 1..L, n - 1 \in T PROVE n \in T
  <2>1. PICK f \in [0..(n - 1) -> S] : Good(f, n - 1)
    BY <1>2
  <2>2. PICK h : h = [i \in 0..n |-> IF i = n THEN step[n][f[n - 1]] ELSE f[i]]
    OBVIOUS
  <2>3. \A i \in 0..(n - 1) : i \in 0..n /\ i # n /\ h[i] = f[i] /\ f[i] \in S
    BY <2>2
  <2>4. n - 1 \in 0..(n - 1) /\ n \in 0..n /\ 0 \in 0..(n - 1)
    OBVIOUS
  <2>5. step[n] \in [S -> S] /\ f[n - 1] \in S /\ h[n] = step[n][f[n - 1]]
    BY <2>2, <2>3, <2>4 DEF Steps
  <2>6. h[n] \in S /\ h[n] = step[n][h[n - 1]]
    BY <2>3, <2>4, <2>5
  <2>7. h \in [0..n -> S]
    <3>1. \A i \in 0..n : i = n \/ i \in 0..(n - 1)
      OBVIOUS
    <3>2. \A i \in 0..n : h[i] \in S
      BY <3>1, <2>3, <2>6
    <3> QED  BY <3>2, <2>2
  <2>8. Good(h, n)
    <3>1. h[0] = start
      BY <2>1, <2>3, <2>4
    <3>2. ASSUME NEW i \in 1..n PROVE h[i] = step[i][h[i - 1]]
      <4>1. CASE i = n
        BY <4>1, <2>6
      <4>2. CASE i # n
        <5>1. i \in 1..(n - 1) /\ i \in 0..(n - 1) /\ i - 1 \in 0..(n - 1)
          BY <4>2
        <5> QED  BY <5>1, <2>1, <2>3
      <4> QED  BY <4>1, <4>2
    <3> QED  BY <3>1, <3>2
  <2> QED  BY <2>7, <2>8
<1>3. L \in 0..L
  OBVIOUS
<1> HIDE DEF T
<1>4. L \in T
  BY <1>1, <1>2, <1>3, UpTo
<1> QED  BY <1>4 DEF T, Chain

-----------------------------------------------------------------------------
(* The bytes of events: V holds the byte or NoByte of each of n events,    *)
(* and g tells where the bytes of b come from.                             *)
Picks(b, g, V, n) ==
  /\ b \in Seq(InBytes) /\ g \in [1..Len(b) -> 1..n]
  /\ \A k \in 1..Len(b) : b[k] = V[g[k]] /\ V[g[k]] # NoByte
  /\ \A k, l \in 1..Len(b) : k < l => g[k] < g[l]
  /\ \A x \in 1..n : V[x] # NoByte => \E k \in 1..Len(b) : g[k] = x

LEMMA PicksOneMore ==
  ASSUME NEW b, NEW g, NEW V, NEW n \in Nat, Picks(b, g, V, n),
         V[n + 1] \in InBytes \cup {NoByte}
  PROVE  \E h : Picks(Given(b, V[n + 1]), h, V, n + 1)
<1>1. /\ b \in Seq(InBytes) /\ g \in [1..Len(b) -> 1..n] /\ Len(b) \in Nat
      /\ \A k \in 1..Len(b) : b[k] = V[g[k]] /\ V[g[k]] # NoByte
      /\ \A k, l \in 1..Len(b) : k < l => g[k] < g[l]
      /\ \A x \in 1..n : V[x] # NoByte => \E k \in 1..Len(b) : g[k] = x
  BY DEF Picks
<1>2. CASE V[n + 1] = NoByte
  <2>1. g \in [1..Len(b) -> 1..(n + 1)]
    BY <1>1
  <2>2. \A x \in 1..(n + 1) : V[x] # NoByte => \E k \in 1..Len(b) : g[k] = x
    <3>1. \A x \in 1..(n + 1) : x = n + 1 \/ x \in 1..n
      OBVIOUS
    <3> QED  BY <3>1, <1>1, <1>2
  <2>3. Picks(b, g, V, n + 1)
    BY <2>1, <2>2, <1>1 DEF Picks
  <2> QED  BY <2>3, <1>2 DEF Given
<1>3. CASE V[n + 1] # NoByte
  <2>1. PICK u : u = Append(b, V[n + 1])
    OBVIOUS
  <2>2. V[n + 1] \in InBytes
    BY <1>3
  <2>3. /\ u \in Seq(InBytes) /\ Len(u) = Len(b) + 1 /\ u[Len(b) + 1] = V[n + 1]
        /\ \A k \in 1..Len(b) : u[k] = b[k]
    BY <2>1, <2>2, <1>1, AppendProperties
  <2>4. PICK h : h = [k \in 1..(Len(b) + 1) |-> IF k = Len(b) + 1 THEN n + 1 ELSE g[k]]
    OBVIOUS
  <2>5. h[Len(b) + 1] = n + 1 /\ Len(b) + 1 \in 1..Len(u)
    BY <2>3, <2>4, <1>1
  <2>6. \A k \in 1..Len(b) : h[k] = g[k] /\ k \in 1..Len(u) /\ g[k] \in 1..n /\ g[k] < n + 1
    <3>1. \A k \in 1..Len(b) : k \in 1..(Len(b) + 1) /\ k # Len(b) + 1 /\ g[k] \in 1..n
      BY <1>1
    <3> QED  BY <3>1, <2>3, <2>4
  <2>7. \A k \in 1..Len(u) : k = Len(b) + 1 \/ k \in 1..Len(b)
    BY <2>3, <1>1
  <2>8. h \in [1..Len(u) -> 1..(n + 1)]
    <3>1. \A k \in 1..Len(u) : h[k] \in 1..(n + 1)
      BY <2>5, <2>6, <2>7
    <3> QED  BY <3>1, <2>3, <2>4
  <2>9. \A k \in 1..Len(u) : u[k] = V[h[k]] /\ V[h[k]] # NoByte
    BY <2>3, <2>5, <2>6, <2>7, <1>1, <1>3
  <2>10. \A k, l \in 1..Len(u) : k < l => h[k] < h[l]
    <3>1. ASSUME NEW k \in 1..Len(u), NEW l \in 1..Len(u), k < l PROVE h[k] < h[l]
      <4>1. k \in 1..Len(b)
        BY <3>1, <2>3, <1>1
      <4>2. CASE l = Len(b) + 1
        BY <4>1, <4>2, <2>5, <2>6
      <4>3. CASE l \in 1..Len(b)
        BY <4>1, <4>3, <3>1, <2>6, <1>1
      <4> QED  BY <4>2, <4>3, <2>7
    <3> QED  BY <3>1
  <2>11. \A x \in 1..(n + 1) : V[x] # NoByte => \E k \in 1..Len(u) : h[k] = x
    <3>1. ASSUME NEW x \in 1..(n + 1), V[x] # NoByte PROVE \E k \in 1..Len(u) : h[k] = x
      <4>1. CASE x = n + 1
        BY <4>1, <2>5
      <4>2. CASE x # n + 1
        <5>1. x \in 1..n
          BY <4>2
        <5>2. PICK k \in 1..Len(b) : g[k] = x
          BY <5>1, <3>1, <1>1
        <5> QED  BY <5>2, <2>6
      <4> QED  BY <4>1, <4>2
    <3> QED  BY <3>1
  <2>12. Picks(u, h, V, n + 1)
    BY <2>3, <2>8, <2>9, <2>10, <2>11 DEF Picks
  <2> QED  BY <2>12, <2>1, <1>3 DEF Given
<1> QED  BY <1>2, <1>3

Events == [key : Keys, released : BOOLEAN, shift : BOOLEAN]
EventSlots(es) == [n \in 1..Len(es) |-> InputByte(es[n])]

LEMMA InputByteType == ASSUME NEW e \in Events PROVE InputByte(e) \in InBytes \cup {NoByte}
BY DEF InputByte, Events, Keys, Shifts, InBytes

LEMMA EventSlotsType ==
  ASSUME NEW es \in Seq(Events)
  PROVE  /\ EventSlots(es) \in Slots /\ Len(EventSlots(es)) = Len(es)
         /\ \A n \in 1..Len(es) : EventSlots(es)[n] = InputByte(es[n])
<1>1. Len(es) \in Nat /\ \A n \in 1..Len(es) : InputByte(es[n]) \in InBytes \cup {NoByte}
  BY InputByteType
<1>2. EventSlots(es) \in [1..Len(es) -> InBytes \cup {NoByte}]
  BY <1>1 DEF EventSlots
<1>3. EventSlots(es) \in Slots
  BY <1>1, <1>2 DEF Slots
<1> QED  BY <1>1, <1>2, <1>3 DEF EventSlots

LEMMA BytesOfPicks ==
  ASSUME NEW es \in Seq(Events)
  PROVE  \E g : Picks(BytesOf(es), g, EventSlots(es), Len(es))
<1> DEFINE L == Len(es)
           V == EventSlots(es)
           B == Seq(InBytes)
           Is(f) == f = [n \in 0..L |-> IF n = 0 THEN <<>> ELSE Given(f[n - 1], InputByte(es[n]))]
<1>1. /\ L \in Nat
      /\ \A n \in 1..L : V[n] = InputByte(es[n]) /\ V[n] \in InBytes \cup {NoByte}
  BY EventSlotsType, InputByteType
<1>d. BytesOf(es) = (CHOOSE f : Is(f))[L]
  BY DEF BytesOf
<1>2. \A b \in B : \A x \in InBytes \cup {NoByte} : Given(b, x) \in B
  BY AppendProperties DEF Given
<1>3. PICK step : step = [n \in 1..L |-> [b \in B |-> Given(b, InputByte(es[n]))]]
  OBVIOUS
<1>4. step \in Steps(L, B)
  BY <1>1, <1>2, <1>3 DEF Steps
<1>5. <<>> \in B
  OBVIOUS
<1> HIDE DEF B, L, Is
<1>r. PICK f : Chain(f, L, B, <<>>, step)
  BY <1>1, <1>4, <1>5, Recursion
<1>6. f \in [0..L -> B] /\ f[0] = <<>> /\ \A n \in 1..L : f[n] = step[n][f[n - 1]]
  BY <1>r DEF Chain
<1>7. ASSUME NEW n \in 1..L PROVE f[n] = Given(f[n - 1], InputByte(es[n]))
  <2>1. n - 1 \in 0..L
    BY <1>1
  <2>2. f[n - 1] \in B
    BY <2>1, <1>6
  <2> QED  BY <2>2, <1>3, <1>6
<1>8. Is(f)
  <2>1. ASSUME NEW n \in 0..L PROVE f[n] = IF n = 0 THEN <<>> ELSE Given(f[n - 1], InputByte(es[n]))
    <3>1. CASE n = 0
      BY <3>1, <1>5, <1>6
    <3>2. CASE n # 0
      <4>1. n \in 1..L
        BY <3>2, <1>1
      <4> QED  BY <3>2, <4>1, <1>7
    <3> QED  BY <3>1, <3>2
  <2> QED  BY <2>1, <1>6 DEF Is
<1>9. PICK bytes : bytes = CHOOSE h : Is(h)
  OBVIOUS
<1>10. Is(bytes)
  BY <1>8, <1>9
<1>11. bytes[0] = <<>> /\ \A n \in 1..L : bytes[n] = Given(bytes[n - 1], V[n])
  <2>1. \A n \in 0..L : bytes[n] = IF n = 0 THEN <<>> ELSE Given(bytes[n - 1], InputByte(es[n]))
    BY <1>10 DEF Is
  <2>2. 0 \in 0..L /\ \A n \in 1..L : n \in 0..L /\ n # 0
    BY <1>1
  <2> QED  BY <2>1, <2>2, <1>1
<1> DEFINE T == {n \in 0..L : \E g : Picks(bytes[n], g, V, n)}
<1>12. 0 \in T
  <2>1. Picks(<<>>, [k \in 1..0 |-> 0], V, 0)
    BY DEF Picks
  <2> QED  BY <2>1, <1>1, <1>11
<1>13. ASSUME NEW n \in 1..L, n - 1 \in T PROVE n \in T
  <2>1. PICK g : Picks(bytes[n - 1], g, V, n - 1)
    BY <1>13
  <2>2. n - 1 \in Nat /\ (n - 1) + 1 = n
    OBVIOUS
  <2>3. \E h : Picks(Given(bytes[n - 1], V[(n - 1) + 1]), h, V, (n - 1) + 1)
    BY <2>1, <2>2, <1>1, PicksOneMore
  <2> QED  BY <2>2, <2>3, <1>11
<1>14. L \in 0..L
  BY <1>1
<1> HIDE DEF T
<1>15. L \in T
  BY <1>1, <1>12, <1>13, <1>14, UpTo
<1> QED  BY <1>15, <1>9, <1>d DEF T, L

(* A strictly increasing map of 1..m onto 1..k is the identity.            *)
OntoInOrder(h, m, k) ==
  /\ h \in [1..m -> 1..k]
  /\ \A x, y \in 1..m : x < y => h[x] < h[y]
  /\ \A x \in 1..k : \E y \in 1..m : h[y] = x
LEMMA IncreasingOnto ==
  ASSUME NEW m \in Nat, NEW k \in Nat, NEW h, OntoInOrder(h, m, k)
  PROVE  m = k /\ \A x \in 1..m : h[x] = x
<1> USE DEF OntoInOrder
<1> DEFINE T == {n \in 0..m : \A x \in 1..n : x <= h[x]}
<1>1. 0 \in T
  OBVIOUS
<1>2. ASSUME NEW n \in 1..m, n - 1 \in T PROVE n \in T
  <2>1. \A x \in 1..(n - 1) : x <= h[x]
    BY <1>2
  <2>2. n <= h[n]
    <3>1. CASE n = 1
      <4>1. h[n] \in 1..k
        OBVIOUS
      <4> QED  BY <3>1, <4>1
    <3>2. CASE n # 1
      <4>1. n - 1 \in 1..(n - 1) /\ n - 1 \in 1..m /\ n - 1 < n
        BY <3>2
      <4>2. h[n - 1] < h[n] /\ n - 1 <= h[n - 1] /\ h[n] \in Int /\ h[n - 1] \in Int
        BY <4>1, <2>1
      <4> QED  BY <4>2
    <3> QED  BY <3>1, <3>2
  <2>3. \A x \in 1..n : x = n \/ x \in 1..(n - 1)
    OBVIOUS
  <2>4. \A x \in 1..n : x <= h[x]
    BY ONLY <2>1, <2>2, <2>3
  <2>5. n \in 0..m
    OBVIOUS
  <2> QED  BY ONLY <2>4, <2>5 DEF T
<1>3. m \in T
  <2>1. m \in 0..m
    OBVIOUS
  <2> HIDE DEF T
  <2> QED  BY <1>1, <1>2, <2>1, UpTo
<1>4. \A x \in 1..m : x <= h[x] /\ h[x] \in 1..k
  BY <1>3
<1>5. \A x \in 1..m : h[x] = x
  <2> DEFINE bad == {x \in 1..m : h[x] # x}
  <2> SUFFICES ASSUME bad # {} PROVE FALSE
    OBVIOUS
  <2>1. bad \in SUBSET Nat
    OBVIOUS
  <2>2. PICK x \in bad : \A y \in bad : x <= y
    BY <2>1, LeastNatural
  <2>3. x \in 1..m /\ x < h[x] /\ x \in 1..k
    BY <2>2, <1>4
  <2>4. PICK y \in 1..m : h[y] = x
    BY <2>3
  <2>5. ~(y < x)
    <3>1. y < x => y \notin bad
      BY <2>2, <2>3
    <3> QED  BY <3>1, <2>4
  <2>6. y # x
    BY <2>3, <2>4
  <2>7. x < y
    BY <2>3, <2>5, <2>6
  <2>8. h[x] < h[y]
    BY <2>3, <2>7
  <2> QED  BY <2>3, <2>4, <2>8
<1>6. m <= k
  <2>1. CASE m = 0
    BY <2>1
  <2>2. CASE m # 0
    <3>1. m \in 1..m
      BY <2>2
    <3> QED  BY <3>1, <1>4, <1>5
  <2> QED  BY <2>1, <2>2
<1>7. k <= m
  <2>1. CASE k = 0
    BY <2>1
  <2>2. CASE k # 0
    <3>1. k \in 1..k
      BY <2>2
    <3>2. PICK y \in 1..m : h[y] = k
      BY <3>1
    <3> QED  BY <3>2, <1>5
  <2> QED  BY <2>1, <2>2
<1> QED  BY <1>5, <1>6, <1>7

-----------------------------------------------------------------------------
(* The bytes in the controller.  K is the decoder's state before each of   *)
(* them and after the last, which is the state of the keys themselves.     *)
WireBytes == [key : Keys \cup {"prefix"}, released : BOOLEAN, aux : BOOLEAN]
Boards == [shift : SUBSET Shifts, extended : BOOLEAN]
AfterByte(kb, b) == IF b.aux THEN kb ELSE NextKeyboard(kb, b)
ByteOf(kb, b) ==
  IF b.aux \/ Decode(kb, b) = <<>> THEN NoByte ELSE InputByte(Decode(kb, b)[1])
WireSlots(K, c) == [n \in 1..Len(c) |-> ByteOf(K[n], c[n])]
Trace(K, c, first, last) ==
  /\ K \in [1..(Len(c) + 1) -> Boards]
  /\ K[1] = first /\ K[Len(c) + 1] = last
  /\ \A n \in 1..Len(c) : K[n + 1] = AfterByte(K[n], c[n])

(* What programs have read, the queues and the controller still hold the   *)
(* bytes of t, in order.                                                   *)
Pending(g, q, es, c, kb, last, t, full) ==
  \E K : /\ Trace(K, c, kb, last)
         /\ Yields(Way(g, q, EventSlots(es), WireSlots(K, c)),
                   WayLen(g, q, EventSlots(es), WireSlots(K, c)), t, full)

LEMMA AfterDecodeIs ==
  ASSUME NEW kb \in Boards, NEW b \in WireBytes
  PROVE  /\ AfterDecode(kb, b) \in Boards
         /\ b.key = "prefix" => AfterDecode(kb, b) = [shift |-> kb.shift, extended |-> TRUE]
         /\ b.key # "prefix" /\ kb.extended => AfterDecode(kb, b) = [shift |-> kb.shift, extended |-> FALSE]
         /\ ~kb.extended /\ b.key \in Shifts => AfterDecode(kb, b) = [extended |-> FALSE, shift |->
              IF b.released THEN kb.shift \ {b.key} ELSE kb.shift \cup {b.key}]
         /\ ~kb.extended /\ b.key \in {"letter", "enter"} => AfterDecode(kb, b) = kb
<1>1. /\ kb.shift \in SUBSET Shifts /\ kb.extended \in BOOLEAN
      /\ kb = [shift |-> kb.shift, extended |-> kb.extended]
      /\ b.key \in {"lshift", "rshift", "letter", "enter", "prefix"}
  BY DEF Boards, WireBytes, Keys, Shifts
<1>2. CASE b.key = "prefix"
  <2>1. AfterDecode(kb, b) = [kb EXCEPT !.extended = TRUE]
    BY <1>2 DEF AfterDecode, Shifts
  <2>2. AfterDecode(kb, b) = [shift |-> kb.shift, extended |-> TRUE]
    BY <2>1, <1>1
  <2>3. AfterDecode(kb, b) \in Boards
    BY <2>2, <1>1 DEF Boards
  <2> QED  BY <2>2, <2>3, <1>2 DEF Shifts
<1>3. CASE b.key # "prefix" /\ kb.extended
  <2>1. AfterDecode(kb, b) = [kb EXCEPT !.extended = FALSE]
    BY <1>3 DEF AfterDecode
  <2>2. AfterDecode(kb, b) = [shift |-> kb.shift, extended |-> FALSE]
    BY <2>1, <1>1
  <2>3. AfterDecode(kb, b) \in Boards
    BY <2>2, <1>1 DEF Boards
  <2> QED  BY <2>2, <2>3, <1>3
<1>4. CASE ~kb.extended /\ b.key \in Shifts
  <2>1. b.key # "prefix"
    BY <1>4 DEF Shifts
  <2>2. AfterDecode(kb, b) = [kb EXCEPT !.shift =
          IF b.released THEN kb.shift \ {b.key} ELSE kb.shift \cup {b.key}]
    BY <1>4, <2>1 DEF AfterDecode
  <2>3. kb.extended = FALSE
    BY <1>1, <1>4
  <2>4. AfterDecode(kb, b) = [extended |-> FALSE, shift |->
          IF b.released THEN kb.shift \ {b.key} ELSE kb.shift \cup {b.key}]
    BY <2>2, <2>3, <1>1
  <2>5. AfterDecode(kb, b) \in Boards
    BY <2>4, <1>1, <1>4 DEF Boards
  <2> QED  BY <2>1, <2>4, <2>5, <1>4 DEF Shifts
<1>5. CASE ~kb.extended /\ b.key \in {"letter", "enter"}
  <2>1. AfterDecode(kb, b) = kb
    BY <1>5 DEF AfterDecode, Shifts
  <2> QED  BY <2>1, <1>5 DEF Shifts
<1> QED  BY <1>1, <1>2, <1>3, <1>4, <1>5 DEF Shifts

LEMMA ByteType ==
  ASSUME NEW kb \in Boards, NEW b \in WireBytes
  PROVE  /\ AfterByte(kb, b) \in Boards /\ ByteOf(kb, b) \in InBytes \cup {NoByte}
         /\ Decode(kb, b) # <<>> => Decode(kb, b)[1] \in Events
<1>1. AfterDecode(kb, b) \in Boards
  BY AfterDecodeIs
<1>2. Decode(kb, b) # <<>> => Decode(kb, b)[1] \in Events
  <2>1. /\ b.key \in Keys \cup {"prefix"} /\ b.released \in BOOLEAN
        /\ (AfterDecode(kb, b).shift # {}) \in BOOLEAN
    BY DEF WireBytes
  <2>2. b.key # "prefix" => Event(b.key, b.released, AfterDecode(kb, b).shift # {}) \in Events
    BY <2>1 DEF Events, Event
  <2> QED  BY <2>2 DEF Decode
<1> QED  BY <1>1, <1>2, InputByteType DEF AfterByte, NextKeyboard, ByteOf

LEMMA WireSlotsType ==
  ASSUME NEW c \in Seq(WireBytes), NEW first, NEW last, NEW K, Trace(K, c, first, last)
  PROVE  /\ WireSlots(K, c) \in Slots /\ Len(WireSlots(K, c)) = Len(c) /\ Len(c) \in Nat
         /\ \A n \in 1..Len(c) : WireSlots(K, c)[n] = ByteOf(K[n], c[n]) /\ K[n] \in Boards
<1>1. Len(c) \in Nat /\ \A n \in 1..Len(c) : n \in 1..(Len(c) + 1) /\ c[n] \in WireBytes
  OBVIOUS
<1>2. \A n \in 1..Len(c) : K[n] \in Boards
  BY <1>1 DEF Trace
<1>3. \A n \in 1..Len(c) : ByteOf(K[n], c[n]) \in InBytes \cup {NoByte}
  BY <1>1, <1>2, ByteType
<1>4. WireSlots(K, c) \in [1..Len(c) -> InBytes \cup {NoByte}]
  BY <1>3 DEF WireSlots
<1>5. WireSlots(K, c) \in Slots /\ Len(WireSlots(K, c)) = Len(c)
  BY <1>1, <1>4 DEF Slots
<1> QED  BY <1>1, <1>2, <1>5 DEF WireSlots

LEMMA AreSlots == ASSUME NEW s \in Seq(InBytes) PROVE s \in Slots
<1>1. Len(s) \in Nat /\ s \in [1..Len(s) -> InBytes]
  OBVIOUS
<1>2. s \in [1..Len(s) -> InBytes \cup {NoByte}]
  BY <1>1
<1> QED  BY <1>1, <1>2 DEF Slots

(* One byte fewer, at the front; one more, at the end.                     *)
LEMMA TraceShorter ==
  ASSUME NEW c \in Seq(WireBytes), NEW first, NEW last, NEW K, Trace(K, c, first, last), c # <<>>
  PROVE  /\ Len(c) >= 1 /\ first \in Boards /\ Head(c) = c[1] /\ c[1] \in WireBytes
         /\ Tail(c) \in Seq(WireBytes) /\ WireSlots(K, c)[1] = ByteOf(first, c[1])
         /\ \E K2 : /\ Trace(K2, Tail(c), AfterByte(first, c[1]), last)
                    /\ IsTail(WireSlots(K2, Tail(c)), WireSlots(K, c))
<1>1. /\ Len(c) \in Nat /\ Len(c) >= 1 /\ Head(c) = c[1] /\ c[1] \in WireBytes
      /\ Tail(c) \in Seq(WireBytes) /\ Len(Tail(c)) = Len(c) - 1
      /\ \A n \in 1..(Len(c) - 1) : Tail(c)[n] = c[n + 1]
  OBVIOUS
<1>2. /\ K \in [1..(Len(c) + 1) -> Boards] /\ K[1] = first /\ K[Len(c) + 1] = last
      /\ \A n \in 1..Len(c) : K[n + 1] = AfterByte(K[n], c[n])
  BY DEF Trace
<1>3. 1 \in 1..(Len(c) + 1) /\ 1 \in 1..Len(c)
  BY <1>1
<1>4. first \in Boards /\ WireSlots(K, c)[1] = ByteOf(first, c[1]) /\ K[1 + 1] = AfterByte(first, c[1])
  BY <1>2, <1>3, WireSlotsType
<1>5. PICK K2 : K2 = [n \in 1..Len(c) |-> K[n + 1]]
  OBVIOUS
<1>6. /\ \A n \in 1..Len(c) : K2[n] = K[n + 1] /\ n + 1 \in 1..(Len(c) + 1)
      /\ K2 \in [1..Len(c) -> Boards] /\ Len(Tail(c)) + 1 = Len(c)
      /\ Len(c) \in 1..Len(c)
  BY <1>1, <1>2, <1>5
<1>7. ASSUME NEW n \in 1..Len(Tail(c)) PROVE K2[n + 1] = AfterByte(K2[n], Tail(c)[n])
  <2>1. n \in 1..(Len(c) - 1) /\ n \in 1..Len(c) /\ n + 1 \in 1..Len(c)
    BY <1>1
  <2> QED  BY <2>1, <1>1, <1>2, <1>6
<1>8. K2[1] = AfterByte(first, c[1]) /\ K2[Len(Tail(c)) + 1] = last
  BY <1>2, <1>3, <1>4, <1>6
<1>9. Trace(K2, Tail(c), AfterByte(first, c[1]), last)
  BY <1>6, <1>7, <1>8 DEF Trace
<1>10. IsTail(WireSlots(K2, Tail(c)), WireSlots(K, c))
  <2>1. /\ Len(WireSlots(K2, Tail(c))) = Len(Tail(c)) /\ Len(WireSlots(K, c)) = Len(c)
        /\ \A n \in 1..Len(Tail(c)) : WireSlots(K2, Tail(c))[n] = ByteOf(K2[n], Tail(c)[n])
        /\ \A n \in 1..Len(c) : WireSlots(K, c)[n] = ByteOf(K[n], c[n])
    <3>1. PICK d : d = Tail(c)
      OBVIOUS
    <3>2. d \in Seq(WireBytes) /\ Trace(K2, d, AfterByte(first, c[1]), last)
      BY <3>1, <1>1, <1>9
    <3>3. /\ Len(WireSlots(K2, d)) = Len(d)
          /\ \A n \in 1..Len(d) : WireSlots(K2, d)[n] = ByteOf(K2[n], d[n])
      BY <3>2, WireSlotsType
    <3> QED  BY <3>1, <3>3, WireSlotsType
  <2>2. ASSUME NEW n \in 1..(Len(c) - 1)
        PROVE  WireSlots(K2, Tail(c))[n] = WireSlots(K, c)[n + 1]
    <3>1. n \in 1..Len(Tail(c)) /\ n \in 1..Len(c) /\ n + 1 \in 1..Len(c)
      BY <1>1
    <3> QED  BY <3>1, <2>1, <1>1, <1>6
  <2> QED  BY <2>1, <2>2, <1>1 DEF IsTail
<1> QED  BY <1>1, <1>4, <1>9, <1>10

LEMMA TraceLonger ==
  ASSUME NEW c \in Seq(WireBytes), NEW first, NEW last, NEW K, Trace(K, c, first, last),
         NEW b \in WireBytes
  PROVE  /\ last \in Boards /\ Append(c, b) \in Seq(WireBytes)
         /\ \E K2 : /\ Trace(K2, Append(c, b), first, AfterByte(last, b))
                    /\ IsLonger(WireSlots(K2, Append(c, b)), WireSlots(K, c), ByteOf(last, b))
<1>1. PICK d : d = Append(c, b)
  OBVIOUS
<1>2. /\ Len(c) \in Nat /\ d \in Seq(WireBytes) /\ Len(d) = Len(c) + 1 /\ d[Len(c) + 1] = b
      /\ \A n \in 1..Len(c) : d[n] = c[n]
  BY <1>1, AppendProperties
<1>3. /\ K \in [1..(Len(c) + 1) -> Boards] /\ K[1] = first /\ K[Len(c) + 1] = last
      /\ \A n \in 1..Len(c) : K[n + 1] = AfterByte(K[n], c[n])
  BY DEF Trace
<1>4. last \in Boards
  <2>1. Len(c) + 1 \in 1..(Len(c) + 1)
    BY <1>2
  <2> QED  BY <2>1, <1>3
<1>5. AfterByte(last, b) \in Boards
  BY <1>4, ByteType
<1>6. PICK K2 : K2 = [n \in 1..(Len(d) + 1) |-> IF n = Len(d) + 1 THEN AfterByte(last, b) ELSE K[n]]
  OBVIOUS
<1>7. \A n \in 1..(Len(c) + 1) : n \in 1..(Len(d) + 1) /\ n # Len(d) + 1 /\ K2[n] = K[n]
  BY <1>2, <1>6
<1>8. K2[Len(d) + 1] = AfterByte(last, b)
  <2>1. Len(d) + 1 \in 1..(Len(d) + 1)
    BY <1>2
  <2> QED  BY <2>1, <1>6
<1>9. K2 \in [1..(Len(d) + 1) -> Boards]
  <2>1. \A n \in 1..(Len(d) + 1) : n = Len(d) + 1 \/ n \in 1..(Len(c) + 1)
    BY <1>2
  <2>2. \A n \in 1..(Len(d) + 1) : K2[n] \in Boards
    BY <2>1, <1>3, <1>5, <1>7, <1>8
  <2> QED  BY <2>2, <1>6
<1>10. ASSUME NEW n \in 1..Len(d) PROVE K2[n + 1] = AfterByte(K2[n], d[n])
  <2>1. CASE n = Len(c) + 1
    <3>1. n \in 1..(Len(c) + 1) /\ n + 1 = Len(d) + 1
      BY <2>1, <1>2
    <3> QED  BY <2>1, <3>1, <1>2, <1>3, <1>7, <1>8
  <2>2. CASE n # Len(c) + 1
    <3>1. n \in 1..Len(c) /\ n \in 1..(Len(c) + 1) /\ n + 1 \in 1..(Len(c) + 1)
      BY <2>2, <1>2
    <3> QED  BY <3>1, <1>2, <1>3, <1>7
  <2> QED  BY <2>1, <2>2
<1>11. K2[1] = first
  <2>1. 1 \in 1..(Len(c) + 1)
    BY <1>2
  <2> QED  BY <2>1, <1>3, <1>7
<1>12. Trace(K2, d, first, AfterByte(last, b))
  BY <1>8, <1>9, <1>10, <1>11 DEF Trace
<1>13. IsLonger(WireSlots(K2, d), WireSlots(K, c), ByteOf(last, b))
  <2>1. /\ Len(WireSlots(K2, d)) = Len(d) /\ Len(WireSlots(K, c)) = Len(c)
        /\ \A n \in 1..Len(d) : WireSlots(K2, d)[n] = ByteOf(K2[n], d[n])
        /\ \A n \in 1..Len(c) : WireSlots(K, c)[n] = ByteOf(K[n], c[n])
    BY <1>2, <1>12, WireSlotsType
  <2>2. WireSlots(K2, d)[Len(c) + 1] = ByteOf(last, b)
    <3>1. Len(c) + 1 \in 1..Len(d) /\ Len(c) + 1 \in 1..(Len(c) + 1)
      BY <1>2
    <3> QED  BY <3>1, <2>1, <1>2, <1>3, <1>7
  <2>3. ASSUME NEW n \in 1..Len(c) PROVE WireSlots(K2, d)[n] = WireSlots(K, c)[n]
    <3>1. n \in 1..Len(d) /\ n \in 1..(Len(c) + 1)
      BY <1>2
    <3> QED  BY <3>1, <2>1, <1>2, <1>7
  <2> QED  BY <2>1, <2>2, <2>3, <1>2 DEF IsLonger
<1> QED  BY <1>1, <1>2, <1>4, <1>12, <1>13

LEMMA SlotsShorter ==
  ASSUME NEW es \in Seq(Events), NEW es2 \in Seq(Events), IsTail(es2, es)
  PROVE  IsTail(EventSlots(es2), EventSlots(es))
<1>1. /\ Len(es) \in Nat /\ Len(es2) = Len(es) - 1
      /\ \A n \in 1..(Len(es) - 1) : es2[n] = es[n + 1]
  BY DEF IsTail
<1>2. \A n \in 1..(Len(es) - 1) : n \in 1..Len(es2) /\ n + 1 \in 1..Len(es)
  BY <1>1
<1> QED  BY <1>1, <1>2, EventSlotsType DEF IsTail

LEMMA SlotsLonger ==
  ASSUME NEW es \in Seq(Events), NEW es2 \in Seq(Events), NEW ev, IsLonger(es2, es, ev)
  PROVE  IsLonger(EventSlots(es2), EventSlots(es), InputByte(ev))
<1>1. /\ Len(es) \in Nat /\ Len(es2) = Len(es) + 1 /\ es2[Len(es) + 1] = ev
      /\ \A n \in 1..Len(es) : es2[n] = es[n]
  BY DEF IsLonger
<1>2. Len(es) + 1 \in 1..Len(es2) /\ \A n \in 1..Len(es) : n \in 1..Len(es2)
  BY <1>1
<1> QED  BY <1>1, <1>2, EventSlotsType DEF IsLonger

-----------------------------------------------------------------------------
(* Every step of the input keeps what is on its way.                       *)
LEMMA ByteSent ==
  ASSUME NEW g \in Seq(InBytes), NEW q \in Seq(InBytes), NEW es \in Seq(Events),
         NEW c \in Seq(WireBytes), NEW kb, NEW last, NEW t \in Seq(InBytes), NEW full,
         Pending(g, q, es, c, kb, last, t, full), NEW b \in WireBytes
  PROVE  Pending(g, q, es, Append(c, b), kb, AfterByte(last, b), Given(t, ByteOf(last, b)), full)
<1>1. PICK K : /\ Trace(K, c, kb, last)
               /\ Yields(Way(g, q, EventSlots(es), WireSlots(K, c)),
                         WayLen(g, q, EventSlots(es), WireSlots(K, c)), t, full)
  BY DEF Pending
<1>2. last \in Boards /\ Append(c, b) \in Seq(WireBytes)
  BY <1>1, TraceLonger
<1>3. PICK K2 : /\ Trace(K2, Append(c, b), kb, AfterByte(last, b))
                /\ IsLonger(WireSlots(K2, Append(c, b)), WireSlots(K, c), ByteOf(last, b))
  BY <1>1, TraceLonger
<1>4. PICK w : w = WireSlots(K, c)
  OBVIOUS
<1>5. PICK w2 : w2 = WireSlots(K2, Append(c, b))
  OBVIOUS
<1>6. g \in Slots /\ q \in Slots /\ EventSlots(es) \in Slots /\ w \in Slots
  BY <1>1, <1>4, AreSlots, EventSlotsType, WireSlotsType
<1>7. w2 \in Slots
  BY <1>2, <1>3, <1>5, WireSlotsType
<1>8. ByteOf(last, b) \in InBytes \cup {NoByte}
  BY <1>2, ByteType
<1>9. /\ Yields(Way(g, q, EventSlots(es), w), WayLen(g, q, EventSlots(es), w), t, full)
      /\ IsLonger(w2, w, ByteOf(last, b))
  BY <1>1, <1>3, <1>4, <1>5
<1>10. Yields(Way(g, q, EventSlots(es), w2), WayLen(g, q, EventSlots(es), w2), Given(t, ByteOf(last, b)), full)
  BY <1>6, <1>7, <1>8, <1>9, WireByteCome
<1> QED  BY <1>3, <1>5, <1>10 DEF Pending

LEMMA BytePolled ==
  ASSUME NEW g \in Seq(InBytes), NEW q \in Seq(InBytes), NEW es \in Seq(Events),
         NEW c \in Seq(WireBytes), NEW kb, NEW last, NEW t \in Seq(InBytes), NEW full,
         Pending(g, q, es, c, kb, last, t, full), c # <<>>
  PROVE  /\ Head(c) = c[1] /\ c[1] \in WireBytes /\ Tail(c) \in Seq(WireBytes) /\ kb \in Boards
         /\ \A still : (still => full) /\ (ByteOf(kb, c[1]) = NoByte \/ ~still)
              => Pending(g, q, es, Tail(c), AfterByte(kb, c[1]), last, t, still)
         /\ \A es2 \in Seq(Events) : \A ev :
              IsLonger(es2, es, ev) /\ InputByte(ev) = ByteOf(kb, c[1])
              => Pending(g, q, es2, Tail(c), AfterByte(kb, c[1]), last, t, full)
<1>1. PICK K : /\ Trace(K, c, kb, last)
               /\ Yields(Way(g, q, EventSlots(es), WireSlots(K, c)),
                         WayLen(g, q, EventSlots(es), WireSlots(K, c)), t, full)
  BY DEF Pending
<1>2. /\ Len(c) >= 1 /\ kb \in Boards /\ Head(c) = c[1] /\ c[1] \in WireBytes
      /\ Tail(c) \in Seq(WireBytes) /\ WireSlots(K, c)[1] = ByteOf(kb, c[1])
  BY <1>1, TraceShorter
<1>3. PICK K2 : /\ Trace(K2, Tail(c), AfterByte(kb, c[1]), last)
                /\ IsTail(WireSlots(K2, Tail(c)), WireSlots(K, c))
  BY <1>1, TraceShorter
<1>4. PICK w : w = WireSlots(K, c)
  OBVIOUS
<1>5. PICK w2 : w2 = WireSlots(K2, Tail(c))
  OBVIOUS
<1>6. g \in Slots /\ q \in Slots /\ EventSlots(es) \in Slots /\ w \in Slots /\ Len(w) >= 1
  BY <1>1, <1>2, <1>4, AreSlots, EventSlotsType, WireSlotsType
<1>7. w2 \in Slots
  <2>1. PICK d : d = Tail(c)
    OBVIOUS
  <2>2. d \in Seq(WireBytes) /\ Trace(K2, d, AfterByte(kb, c[1]), last)
    BY <2>1, <1>2, <1>3
  <2>3. WireSlots(K2, d) \in Slots
    BY <2>2, WireSlotsType
  <2> QED  BY <2>1, <2>3, <1>5
<1>8. /\ Yields(Way(g, q, EventSlots(es), w), WayLen(g, q, EventSlots(es), w), t, full)
      /\ IsTail(w2, w) /\ w[1] = ByteOf(kb, c[1])
  BY <1>1, <1>2, <1>3, <1>4, <1>5
<1>9. ASSUME NEW still, still => full, ByteOf(kb, c[1]) = NoByte \/ ~still
      PROVE  Pending(g, q, es, Tail(c), AfterByte(kb, c[1]), last, t, still)
  <2>1. w[1] = NoByte \/ ~still
    BY <1>8, <1>9
  <2>2. Yields(Way(g, q, EventSlots(es), w2), WayLen(g, q, EventSlots(es), w2), t, still)
    BY <1>6, <1>7, <1>8, <1>9, <2>1, WireByteGone
  <2> QED  BY <1>3, <1>5, <2>2 DEF Pending
<1>10. ASSUME NEW es2 \in Seq(Events), NEW ev, IsLonger(es2, es, ev), InputByte(ev) = ByteOf(kb, c[1])
       PROVE  Pending(g, q, es2, Tail(c), AfterByte(kb, c[1]), last, t, full)
  <2>1. PICK v : v = EventSlots(es)
    OBVIOUS
  <2>2. PICK v2 : v2 = EventSlots(es2)
    OBVIOUS
  <2>3. v \in Slots /\ v2 \in Slots /\ IsLonger(v2, v, w[1])
    BY <1>8, <1>10, <2>1, <2>2, EventSlotsType, SlotsLonger
  <2>4. WayLen(g, q, v2, w2) = WayLen(g, q, v, w) /\ Way(g, q, v2, w2) = Way(g, q, v, w)
    BY <1>6, <1>7, <1>8, <2>3, DecodeOne
  <2>5. Yields(Way(g, q, v2, w2), WayLen(g, q, v2, w2), t, full)
    BY <1>8, <2>1, <2>4
  <2> QED  BY <1>3, <1>5, <2>2, <2>5 DEF Pending
<1> QED  BY <1>2, <1>9, <1>10

LEMMA EventDispatched ==
  ASSUME NEW g \in Seq(InBytes), NEW q \in Seq(InBytes), NEW es \in Seq(Events),
         NEW c \in Seq(WireBytes), NEW kb, NEW last, NEW t \in Seq(InBytes), NEW full,
         Pending(g, q, es, c, kb, last, t, full), Len(es) >= 1,
         NEW es2 \in Seq(Events), IsTail(es2, es)
  PROVE  /\ \A still : (still => full) /\ (InputByte(es[1]) = NoByte \/ ~still)
              => Pending(g, q, es2, c, kb, last, t, still)
         /\ \A q2 \in Seq(InBytes) : IsLonger(q2, q, InputByte(es[1]))
              => Pending(g, q2, es2, c, kb, last, t, full)
<1>1. PICK K : /\ Trace(K, c, kb, last)
               /\ Yields(Way(g, q, EventSlots(es), WireSlots(K, c)),
                         WayLen(g, q, EventSlots(es), WireSlots(K, c)), t, full)
  BY DEF Pending
<1>2. PICK w : w = WireSlots(K, c)
  OBVIOUS
<1>3. PICK v : v = EventSlots(es)
  OBVIOUS
<1>4. PICK v2 : v2 = EventSlots(es2)
  OBVIOUS
<1>5. /\ g \in Slots /\ q \in Slots /\ v \in Slots /\ v2 \in Slots /\ Len(v) >= 1
      /\ v[1] = InputByte(es[1]) /\ IsTail(v2, v)
  <2>1. Len(es) \in Nat /\ 1 \in 1..Len(es)
    OBVIOUS
  <2> QED  BY <2>1, <1>3, <1>4, AreSlots, EventSlotsType, SlotsShorter
<1>6. w \in Slots
  BY <1>1, <1>2, WireSlotsType
<1>7. Yields(Way(g, q, v, w), WayLen(g, q, v, w), t, full)
  BY <1>1, <1>2, <1>3
<1>8. ASSUME NEW still, still => full, InputByte(es[1]) = NoByte \/ ~still
      PROVE  Pending(g, q, es2, c, kb, last, t, still)
  <2>1. v[1] = NoByte \/ ~still
    BY <1>5, <1>8
  <2>2. Yields(Way(g, q, v2, w), WayLen(g, q, v2, w), t, still)
    BY <1>5, <1>6, <1>7, <1>8, <2>1, EventGone
  <2> QED  BY <1>1, <1>2, <1>4, <2>2 DEF Pending
<1>9. ASSUME NEW q2 \in Seq(InBytes), IsLonger(q2, q, InputByte(es[1]))
      PROVE  Pending(g, q2, es2, c, kb, last, t, full)
  <2>1. q2 \in Slots /\ IsLonger(q2, q, v[1])
    BY <1>5, <1>9, AreSlots
  <2>2. WayLen(g, q2, v2, w) = WayLen(g, q, v, w) /\ Way(g, q2, v2, w) = Way(g, q, v, w)
    BY <1>5, <1>6, <2>1, DispatchOne
  <2>3. Yields(Way(g, q2, v2, w), WayLen(g, q2, v2, w), t, full)
    BY <1>7, <2>2
  <2> QED  BY <1>1, <1>2, <1>4, <2>3 DEF Pending
<1> QED  BY <1>8, <1>9

LEMMA ByteWasRead ==
  ASSUME NEW g \in Seq(InBytes), NEW q \in Seq(InBytes), NEW es \in Seq(Events),
         NEW c \in Seq(WireBytes), NEW kb, NEW last, NEW t \in Seq(InBytes), NEW full,
         Pending(g, q, es, c, kb, last, t, full), Len(q) >= 1,
         NEW q2 \in Seq(InBytes), IsTail(q2, q), NEW g2 \in Seq(InBytes), IsLonger(g2, g, q[1])
  PROVE  Pending(g2, q2, es, c, kb, last, t, full)
<1>1. PICK K : /\ Trace(K, c, kb, last)
               /\ Yields(Way(g, q, EventSlots(es), WireSlots(K, c)),
                         WayLen(g, q, EventSlots(es), WireSlots(K, c)), t, full)
  BY DEF Pending
<1>2. PICK w : w = WireSlots(K, c)
  OBVIOUS
<1>3. PICK v : v = EventSlots(es)
  OBVIOUS
<1>4. g \in Slots /\ q \in Slots /\ v \in Slots /\ w \in Slots /\ g2 \in Slots /\ q2 \in Slots
  BY <1>1, <1>2, <1>3, AreSlots, EventSlotsType, WireSlotsType
<1>5. WayLen(g2, q2, v, w) = WayLen(g, q, v, w) /\ Way(g2, q2, v, w) = Way(g, q, v, w)
  BY <1>4, ReadOne
<1>6. Yields(Way(g2, q2, v, w), WayLen(g2, q2, v, w), t, full)
  BY <1>1, <1>2, <1>3, <1>5
<1> QED  BY <1>1, <1>2, <1>3, <1>6 DEF Pending

-----------------------------------------------------------------------------
InputTypes ==
  /\ controller \in Seq(WireBytes) /\ keyboard \in Boards
  /\ RingOf(events, Events, EventCapacity)
  /\ RingOf(input, InBytes \cup {NoByte}, InputCapacity) /\ Contents(input) \in Seq(InBytes)
  /\ down \in SUBSET Shifts /\ prefixed \in BOOLEAN
  /\ typed \in Seq(InBytes) /\ got \in Seq(InBytes) /\ dropped \in BOOLEAN
Held == [shift |-> down, extended |-> prefixed]
InputInv ==
  /\ InputTypes
  /\ Pending(got, Contents(input), Contents(events), controller, keyboard, Held, typed, ~dropped)

LEMMA InputStarts == InputInit => InputInv
<1> SUFFICES ASSUME InputInit PROVE InputInv
  OBVIOUS
<1>1. EventCapacity \in Nat \ {0} /\ InputCapacity \in Nat \ {0}
  BY TerminalInputAssumption
<1>2. ASSUME NEW S, NEW x \in S, NEW n \in Nat \ {0}
      PROVE  RingOf(NewRing(n, x), S, n) /\ Contents(NewRing(n, x)) = <<>>
  <2>1. PICK q : q = NewRing(n, x)
    OBVIOUS
  <2>2. /\ q.slots \in [0..(n - 1) -> S] /\ q.read = 0 /\ q.write = 0 /\ q.len = 0 /\ q.capacity = n
        /\ q \in [slots : {q.slots}, capacity : {q.capacity}, read : {q.read}, write : {q.write}, len : {q.len}]
    BY <2>1 DEF NewRing
  <2>3. RingOf(q, S, n)
    BY <2>2 DEF RingOf, Rings, Wrapped
  <2>4. Contents(q) \in Seq(S) /\ Len(Contents(q)) = 0
    BY <2>2, <2>3, RingContents
  <2>5. Contents(q) = <<>>
    BY <2>4
  <2> QED  BY <2>1, <2>3, <2>5
<1>3. /\ Event("enter", TRUE, FALSE) \in Events /\ NoByte \in InBytes \cup {NoByte}
  BY DEF Event, Events, Keys
<1>4. /\ RingOf(events, Events, EventCapacity) /\ Contents(events) = <<>>
      /\ RingOf(input, InBytes \cup {NoByte}, InputCapacity) /\ Contents(input) = <<>>
  BY <1>1, <1>2, <1>3 DEF InputInit
<1>5. keyboard \in Boards /\ Held = keyboard
  BY DEF InputInit, Boards, Held
<1>6. /\ controller = <<>> /\ down = {} /\ prefixed = FALSE /\ typed = <<>>
      /\ got = <<>> /\ dropped = FALSE
  BY DEF InputInit
<1>7. InputTypes
  <2>1. /\ controller \in Seq(WireBytes) /\ typed \in Seq(InBytes) /\ got \in Seq(InBytes)
        /\ Contents(input) \in Seq(InBytes)
    BY <1>4, <1>6
  <2>2. down \in SUBSET Shifts /\ prefixed \in BOOLEAN /\ dropped \in BOOLEAN
    BY <1>6
  <2> QED  BY <2>1, <2>2, <1>4, <1>5 DEF InputTypes
<1>8. PICK K : K = [n \in 1..1 |-> keyboard]
  OBVIOUS
<1>9. Trace(K, controller, keyboard, Held)
  BY <1>5, <1>6, <1>8 DEF Trace
<1>10. PICK v : v = EventSlots(<<>>)
  OBVIOUS
<1>11. PICK w : w = WireSlots(K, controller)
  OBVIOUS
<1>12. <<>> \in Seq(Events) /\ <<>> \in Seq(WireBytes) /\ Len(<<>>) = 0
  OBVIOUS
<1>13. Len(v) = 0
  BY <1>10, <1>12, EventSlotsType
<1>14. Len(w) = 0
  BY <1>6, <1>9, <1>11, <1>12, WireSlotsType
<1>15. WayLen(<<>>, <<>>, v, w) = 0
  BY <1>12, <1>13, <1>14 DEF WayLen
<1>16. Yields(Way(<<>>, <<>>, v, w), 0, <<>>, TRUE)
  <2>1. PICK h : h = [n \in 1..0 |-> 0]
    OBVIOUS
  <2>2. h \in [1..0 -> Nat]
    BY <2>1
  <2>3. Places(h, Way(<<>>, <<>>, v, w), 0, <<>>) /\ Covers(h, Way(<<>>, <<>>, v, w), 0, <<>>)
    BY <2>2 DEF Places, Covers
  <2> QED  BY <2>3 DEF Yields
<1>17. Yields(Way(<<>>, <<>>, v, w), 0, <<>>, ~dropped)
  BY <1>6, <1>16
<1>18. Pending(<<>>, <<>>, <<>>, controller, keyboard, Held, <<>>, ~dropped)
  BY <1>9, <1>10, <1>11, <1>15, <1>17 DEF Pending
<1> QED  BY <1>4, <1>6, <1>7, <1>18 DEF InputInv

-----------------------------------------------------------------------------
(* The decoder, given a byte, follows the keys that the user holds.        *)
LEMMA HeldBoard ==
  ASSUME InputTypes PROVE Held \in Boards /\ Held.shift = down /\ Held.extended = prefixed
BY DEF InputTypes, Held, Boards

Follows(b) ==
  /\ controller' = Append(controller, b)
  /\ Held' = AfterByte(Held, b) /\ typed' = Given(typed, ByteOf(Held, b))
  /\ down' \in SUBSET Shifts /\ prefixed' \in BOOLEAN
  /\ UNCHANGED KernelState

LEMMA PressFollows ==
  ASSUME InputTypes, NEW key \in Keys, PressKey(key) PROVE \E b \in WireBytes : Follows(b)
<1>1. PICK b : b = WireByte(key, FALSE, FALSE)
  OBVIOUS
<1>2. b \in WireBytes /\ b.key = key /\ b.released = FALSE /\ b.aux = FALSE /\ key # "prefix"
  BY <1>1 DEF WireByte, WireBytes, Keys, Shifts
<1>3. /\ Held \in Boards /\ Held.shift = down /\ Held.extended = FALSE /\ down \in SUBSET Shifts
      /\ prefixed = FALSE
  BY HeldBoard DEF PressKey, InputTypes
<1>4. /\ controller' = Append(controller, b) /\ down' = down \cup (Shifts \cap {key})
      /\ prefixed' = FALSE /\ UNCHANGED KernelState
      /\ typed' = Given(typed, InputByte(Event(key, FALSE, down # {})))
  BY <1>1, <1>3 DEF PressKey, Send
<1>5. Held' = [shift |-> down \cup (Shifts \cap {key}), extended |-> FALSE]
  BY <1>4 DEF Held
<1>6. AfterByte(Held, b) = AfterDecode(Held, b) /\ Decode(Held, b) = <<Event(key, FALSE, AfterDecode(Held, b).shift # {})>>
  BY <1>2, <1>3 DEF AfterByte, NextKeyboard, Decode
<1>7. ByteOf(Held, b) = InputByte(Event(key, FALSE, AfterDecode(Held, b).shift # {}))
  <2>1. PICK ev : ev = Event(key, FALSE, AfterDecode(Held, b).shift # {})
    OBVIOUS
  <2>2. Decode(Held, b) = <<ev>> /\ <<ev>> # <<>> /\ <<ev>>[1] = ev
    BY <2>1, <1>6
  <2>3. ByteOf(Held, b) = InputByte(ev)
    BY <1>2, <2>2 DEF ByteOf
  <2> QED  BY <2>1, <2>3
<1>8. CASE key \in Shifts
  <2>1. AfterDecode(Held, b) = [extended |-> FALSE, shift |-> down \cup {key}]
    BY <1>2, <1>3, <1>8, AfterDecodeIs
  <2>2. down \cup (Shifts \cap {key}) = down \cup {key}
    BY <1>8
  <2>3. Held' = AfterByte(Held, b)
    BY <2>1, <2>2, <1>5, <1>6
  <2>4. \A x : InputByte(Event(key, FALSE, x)) = NoByte
    BY <1>8 DEF InputByte, Event, Shifts
  <2> QED  BY <2>2, <2>3, <2>4, <1>2, <1>3, <1>4, <1>7, <1>8 DEF Follows
<1>9. CASE key \notin Shifts
  <2>1. key \in {"letter", "enter"}
    BY <1>9 DEF Keys
  <2>2. AfterDecode(Held, b) = Held
    BY <2>1, <1>2, <1>3, AfterDecodeIs
  <2>3. down \cup (Shifts \cap {key}) = down
    BY <1>9
  <2>4. Held' = AfterByte(Held, b)
    BY <2>2, <2>3, <1>3, <1>5, <1>6 DEF Held
  <2> QED  BY <2>2, <2>3, <2>4, <1>2, <1>3, <1>4, <1>7 DEF Follows
<1> QED  BY <1>8, <1>9

LEMMA ReleaseFollows ==
  ASSUME InputTypes, NEW key \in Keys, ReleaseKey(key) PROVE \E b \in WireBytes : Follows(b)
<1>1. PICK b : b = WireByte(key, TRUE, FALSE)
  OBVIOUS
<1>2. b \in WireBytes /\ b.key = key /\ b.released = TRUE /\ b.aux = FALSE /\ key # "prefix"
  BY <1>1 DEF WireByte, WireBytes, Keys, Shifts
<1>3. /\ Held \in Boards /\ Held.shift = down /\ Held.extended = FALSE /\ down \in SUBSET Shifts
      /\ prefixed = FALSE
  BY HeldBoard DEF ReleaseKey, InputTypes
<1>4. /\ controller' = Append(controller, b) /\ down' = down \ {key}
      /\ prefixed' = FALSE /\ UNCHANGED KernelState /\ typed' = typed
  BY <1>1, <1>3 DEF ReleaseKey, Send
<1>5. Held' = [shift |-> down \ {key}, extended |-> FALSE]
  BY <1>4 DEF Held
<1>6. AfterByte(Held, b) = AfterDecode(Held, b) /\ Decode(Held, b) = <<Event(key, TRUE, AfterDecode(Held, b).shift # {})>>
  BY <1>2, <1>3 DEF AfterByte, NextKeyboard, Decode
<1>7. ByteOf(Held, b) = NoByte
  <2>1. ByteOf(Held, b) = InputByte(Event(key, TRUE, AfterDecode(Held, b).shift # {}))
    <3>1. PICK ev : ev = Event(key, TRUE, AfterDecode(Held, b).shift # {})
      OBVIOUS
    <3>2. Decode(Held, b) = <<ev>> /\ <<ev>> # <<>> /\ <<ev>>[1] = ev
      BY <3>1, <1>6
    <3>3. ByteOf(Held, b) = InputByte(ev)
      BY <1>2, <3>2 DEF ByteOf
    <3> QED  BY <3>1, <3>3
  <2>2. \A x : InputByte(Event(key, TRUE, x)) = NoByte
    BY DEF InputByte, Event
  <2> QED  BY <2>1, <2>2
<1>8. Held' = AfterByte(Held, b)
  <2>1. CASE key \in Shifts
    <3>1. AfterDecode(Held, b) = [extended |-> FALSE, shift |-> down \ {key}]
      BY <1>2, <1>3, <2>1, AfterDecodeIs
    <3> QED  BY <3>1, <1>5, <1>6
  <2>2. CASE key \notin Shifts
    <3>1. key \in {"letter", "enter"}
      BY <2>2 DEF Keys
    <3>2. AfterDecode(Held, b) = Held
      BY <3>1, <1>2, <1>3, AfterDecodeIs
    <3>3. down \ {key} = down
      BY <2>2, <1>3
    <3> QED  BY <3>2, <3>3, <1>3, <1>5, <1>6 DEF Held
  <2> QED  BY <2>1, <2>2
<1> QED  BY <1>2, <1>3, <1>4, <1>7, <1>8 DEF Follows, Given

LEMMA PrefixFollows ==
  ASSUME InputTypes, SendPrefix PROVE \E b \in WireBytes : Follows(b)
<1>1. PICK b : b = WireByte("prefix", FALSE, FALSE)
  OBVIOUS
<1>2. b \in WireBytes /\ b.key = "prefix" /\ b.aux = FALSE
  BY <1>1 DEF WireByte, WireBytes
<1>3. Held \in Boards /\ Held.shift = down /\ down \in SUBSET Shifts
  BY HeldBoard DEF InputTypes
<1>4. /\ controller' = Append(controller, b) /\ down' = down /\ prefixed' = TRUE
      /\ UNCHANGED KernelState /\ typed' = typed
  BY <1>1 DEF SendPrefix, Send
<1>5. AfterByte(Held, b) = [shift |-> down, extended |-> TRUE]
  BY <1>2, <1>3, AfterDecodeIs DEF AfterByte, NextKeyboard
<1>6. ByteOf(Held, b) = NoByte
  BY <1>2 DEF ByteOf, Decode
<1>7. Held' = AfterByte(Held, b)
  BY <1>4, <1>5 DEF Held
<1> QED  BY <1>2, <1>3, <1>4, <1>6, <1>7 DEF Follows, Given

LEMMA SecondFollows ==
  ASSUME InputTypes, NEW key \in Keys, NEW released \in BOOLEAN, SendSecondByte(key, released)
  PROVE  \E b \in WireBytes : Follows(b)
<1>1. PICK b : b = WireByte(key, released, FALSE)
  OBVIOUS
<1>2. b \in WireBytes /\ b.key = key /\ key # "prefix" /\ b.aux = FALSE
  BY <1>1 DEF WireByte, WireBytes, Keys, Shifts
<1>3. Held \in Boards /\ Held.shift = down /\ Held.extended /\ down \in SUBSET Shifts
  BY HeldBoard DEF InputTypes, SendSecondByte
<1>4. /\ controller' = Append(controller, b) /\ down' = down /\ prefixed' = FALSE
      /\ UNCHANGED KernelState /\ typed' = typed
  BY <1>1 DEF SendSecondByte, Send
<1>5. AfterByte(Held, b) = [shift |-> down, extended |-> FALSE]
  BY <1>2, <1>3, AfterDecodeIs DEF AfterByte, NextKeyboard
<1>6. ByteOf(Held, b) = NoByte
  BY <1>3 DEF ByteOf, Decode
<1>7. Held' = AfterByte(Held, b)
  BY <1>4, <1>5 DEF Held
<1> QED  BY <1>2, <1>3, <1>4, <1>6, <1>7 DEF Follows, Given

LEMMA MouseFollows ==
  ASSUME InputTypes, MoveMouse PROVE \E b \in WireBytes : Follows(b)
<1>1. PICK b : b = WireByte("letter", FALSE, TRUE)
  OBVIOUS
<1>2. b \in WireBytes /\ b.aux = TRUE
  BY <1>1 DEF WireByte, WireBytes, Keys
<1>3. /\ controller' = Append(controller, b) /\ down' = down /\ prefixed' = prefixed
      /\ UNCHANGED KernelState /\ typed' = typed
  BY <1>1 DEF MoveMouse, Send
<1>4. AfterByte(Held, b) = Held /\ ByteOf(Held, b) = NoByte
  BY <1>2 DEF AfterByte, ByteOf
<1>5. Held' = Held
  BY <1>3 DEF Held
<1> QED  BY <1>2, <1>3, <1>4, <1>5 DEF Follows, Given, InputTypes

LEMMA HardwareKeeps == ASSUME InputInv, Hardware PROVE InputInv'
<1>1. InputTypes
  BY DEF InputInv
<1>2. PICK b \in WireBytes : Follows(b)
  BY <1>1, PressFollows, ReleaseFollows, PrefixFollows, SecondFollows, MouseFollows DEF Hardware
<1>3. /\ controller \in Seq(WireBytes) /\ got \in Seq(InBytes) /\ typed \in Seq(InBytes)
      /\ Contents(input) \in Seq(InBytes) /\ Held \in Boards
  BY <1>1, HeldBoard DEF InputTypes
<1>4. Contents(events) \in Seq(Events)
  BY <1>1, RingContents, TerminalInputAssumption DEF InputTypes
<1>5. PICK old : old = typed
  OBVIOUS
<1>6. PICK x : x = ByteOf(Held, b)
  OBVIOUS
<1>7. x \in InBytes \cup {NoByte}
  BY <1>3, <1>6, ByteType
<1>8. Given(typed, x) \in Seq(InBytes)
  <2>1. CASE x = NoByte
    BY <2>1, <1>3 DEF Given
  <2>2. CASE x # NoByte
    <3>1. x \in InBytes
      BY <2>2, <1>7
    <3>2. Append(typed, x) \in Seq(InBytes)
      BY <3>1, <1>3, AppendProperties
    <3> QED  BY <3>2, <2>2 DEF Given
  <2> QED  BY <2>1, <2>2
<1>9. Append(controller, b) \in Seq(WireBytes)
  BY <1>3, AppendProperties
<1>10. Pending(got, Contents(input), Contents(events), Append(controller, b), keyboard,
               AfterByte(Held, b), Given(typed, ByteOf(Held, b)), ~dropped)
  BY <1>3, <1>4, ByteSent DEF InputInv
<1>11. /\ got' = got /\ input' = input /\ events' = events /\ keyboard' = keyboard /\ dropped' = dropped
       /\ controller' = Append(controller, b) /\ Held' = AfterByte(Held, b)
       /\ typed' = Given(typed, ByteOf(Held, b)) /\ down' \in SUBSET Shifts /\ prefixed' \in BOOLEAN
  BY <1>2 DEF Follows, KernelState
<1>12. InputTypes'
  BY <1>1, <1>6, <1>8, <1>9, <1>11 DEF InputTypes
<1>13. Contents(input)' = Contents(input) /\ Contents(events)' = Contents(events)
  BY <1>11 DEF Contents
<1> QED  BY <1>10, <1>11, <1>12, <1>13 DEF InputInv

LEMMA Pushed ==
  ASSUME NEW c \in Nat \ {0}, NEW S, NEW q, RingOf(q, S, c), NEW x \in S, ~IsFull(q)
  PROVE  /\ RingOf(Push(q, x), S, c) /\ Contents(Push(q, x)) \in Seq(S)
         /\ IsLonger(Contents(Push(q, x)), Contents(q), x)
<1>1. PICK p : p = Push(q, x)
  OBVIOUS
<1>2. /\ RingOf(p, S, c) /\ p.len = q.len + 1 /\ Contents(p)[q.len + 1] = x
      /\ \A i \in 1..q.len : Contents(p)[i] = Contents(q)[i]
  BY <1>1, RingPush
<1>3. Contents(p) \in Seq(S) /\ Len(Contents(p)) = p.len /\ Len(Contents(q)) = q.len
  BY <1>2, RingContents
<1> QED  BY <1>1, <1>2, <1>3 DEF IsLonger

LEMMA Popped ==
  ASSUME NEW c \in Nat \ {0}, NEW S, NEW q, RingOf(q, S, c), ~IsEmpty(q)
  PROVE  /\ RingOf(Pop(q), S, c) /\ Contents(Pop(q)) \in Seq(S) /\ Len(Contents(q)) >= 1
         /\ IsTail(Contents(Pop(q)), Contents(q)) /\ Oldest(q) = Contents(q)[1] /\ Oldest(q) \in S
<1>1. PICK p : p = Pop(q)
  OBVIOUS
<1>2. /\ RingOf(p, S, c) /\ p.len = q.len - 1 /\ q.len >= 1
      /\ Oldest(q) = Contents(q)[1] /\ Oldest(q) \in S
      /\ \A i \in 1..(q.len - 1) : Contents(p)[i] = Contents(q)[i + 1]
  BY <1>1, RingPop
<1>3. Contents(p) \in Seq(S) /\ Len(Contents(p)) = p.len /\ Len(Contents(q)) = q.len
  BY <1>2, RingContents
<1> QED  BY <1>1, <1>2, <1>3 DEF IsTail

LEMMA LongerType ==
  ASSUME NEW S, NEW T, NEW r \in Seq(S), NEW s \in Seq(T), NEW x \in T, IsLonger(r, s, x)
  PROVE  r \in Seq(T)
<1>1. /\ Len(s) \in Nat /\ Len(r) = Len(s) + 1 /\ r[Len(s) + 1] = x
      /\ \A n \in 1..Len(s) : r[n] = s[n] /\ s[n] \in T
  BY DEF IsLonger
<1>2. \A n \in 1..Len(r) : r[n] \in T
  <2>1. \A n \in 1..Len(r) : n = Len(s) + 1 \/ n \in 1..Len(s)
    BY <1>1
  <2> QED  BY <2>1, <1>1
<1>3. r \in [1..Len(r) -> T] /\ Len(r) \in Nat
  <2>1. r \in [1..Len(r) -> S] /\ Len(r) \in Nat
    OBVIOUS
  <2> QED  BY <2>1, <1>2
<1> QED  BY <1>3

LEMMA TailType ==
  ASSUME NEW S, NEW T, NEW r \in Seq(S), NEW s \in Seq(T), IsTail(r, s) PROVE r \in Seq(T)
<1>1. /\ Len(s) \in Nat /\ Len(r) = Len(s) - 1
      /\ \A n \in 1..(Len(s) - 1) : r[n] = s[n + 1] /\ n + 1 \in 1..Len(s)
  BY DEF IsTail
<1>2. \A n \in 1..Len(r) : r[n] \in T
  BY <1>1
<1>3. r \in [1..Len(r) -> T] /\ Len(r) \in Nat
  <2>1. r \in [1..Len(r) -> S] /\ Len(r) \in Nat
    OBVIOUS
  <2> QED  BY <2>1, <1>2
<1> QED  BY <1>3

(* What the invariant says of one state, for the steps of the kernel.      *)
LEMMA InputFacts ==
  ASSUME InputInv
  PROVE  /\ controller \in Seq(WireBytes) /\ keyboard \in Boards
         /\ EventCapacity \in Nat \ {0} /\ InputCapacity \in Nat \ {0}
         /\ RingOf(events, Events, EventCapacity) /\ Contents(events) \in Seq(Events)
         /\ RingOf(input, InBytes \cup {NoByte}, InputCapacity) /\ Contents(input) \in Seq(InBytes)
         /\ down \in SUBSET Shifts /\ prefixed \in BOOLEAN
         /\ typed \in Seq(InBytes) /\ got \in Seq(InBytes) /\ dropped \in BOOLEAN
         /\ Pending(got, Contents(input), Contents(events), controller, keyboard, Held, typed, ~dropped)
<1>1. EventCapacity \in Nat \ {0} /\ InputCapacity \in Nat \ {0}
  BY TerminalInputAssumption
<1>2. RingOf(events, Events, EventCapacity)
  BY DEF InputInv, InputTypes
<1>3. Contents(events) \in Seq(Events)
  BY <1>1, <1>2, RingContents
<1> QED  BY <1>1, <1>3 DEF InputInv, InputTypes

LEMMA PollKeeps == ASSUME InputInv, PollByte PROVE InputInv'
<1>1. /\ controller \in Seq(WireBytes) /\ keyboard \in Boards
      /\ EventCapacity \in Nat \ {0} /\ InputCapacity \in Nat \ {0}
      /\ RingOf(events, Events, EventCapacity) /\ Contents(events) \in Seq(Events)
      /\ RingOf(input, InBytes \cup {NoByte}, InputCapacity) /\ Contents(input) \in Seq(InBytes)
      /\ down \in SUBSET Shifts /\ prefixed \in BOOLEAN
      /\ typed \in Seq(InBytes) /\ got \in Seq(InBytes) /\ dropped \in BOOLEAN
      /\ Pending(got, Contents(input), Contents(events), controller, keyboard, Held, typed, ~dropped)
  BY InputFacts
<1>2. /\ input' = input /\ got' = got /\ down' = down /\ prefixed' = prefixed /\ typed' = typed
  BY DEF PollByte, UserState
<1>3. Held' = Held /\ Contents(input)' = Contents(input)
  BY <1>2 DEF Held, Contents
<1>4. CASE controller = <<>>
  <2>1. UNCHANGED <<controller, keyboard, events, dropped>>
    BY <1>4 DEF PollByte
  <2>2. Contents(events)' = Contents(events)
    BY <2>1 DEF Contents
  <2> QED  BY <1>1, <1>2, <1>3, <2>1, <2>2 DEF InputInv, InputTypes
<1>5. CASE controller # <<>>
  <2> DEFINE b == controller[1]
             new == Decode(keyboard, b)
  <2>1. /\ Head(controller) = b /\ b \in WireBytes /\ Tail(controller) \in Seq(WireBytes)
        /\ \A still : (still => ~dropped) /\ (ByteOf(keyboard, b) = NoByte \/ ~still)
             => Pending(got, Contents(input), Contents(events), Tail(controller),
                        AfterByte(keyboard, b), Held, typed, still)
        /\ \A es2 \in Seq(Events) : \A ev :
             IsLonger(es2, Contents(events), ev) /\ InputByte(ev) = ByteOf(keyboard, b)
             => Pending(got, Contents(input), es2, Tail(controller),
                        AfterByte(keyboard, b), Held, typed, ~dropped)
    BY <1>1, <1>5, BytePolled
  <2>2. AfterByte(keyboard, b) \in Boards /\ (new # <<>> => new[1] \in Events)
    BY <1>1, <2>1, ByteType
  <2>3. controller' = Tail(controller)
    BY <1>5 DEF PollByte
  <2>4. CASE b.aux
    <3>1. UNCHANGED <<keyboard, events, dropped>>
      BY <1>5, <2>1, <2>4 DEF PollByte
    <3>2. AfterByte(keyboard, b) = keyboard /\ ByteOf(keyboard, b) = NoByte
      BY <2>4 DEF AfterByte, ByteOf
    <3>3. Pending(got, Contents(input), Contents(events), Tail(controller), keyboard, Held, typed, ~dropped)
      BY <2>1, <3>2
    <3>4. Contents(events)' = Contents(events)
      BY <3>1 DEF Contents
    <3> QED  BY <1>1, <1>2, <1>3, <2>1, <2>3, <3>1, <3>3, <3>4 DEF InputInv, InputTypes
  <2>5. CASE ~b.aux
    <3>1. /\ keyboard' = NextKeyboard(keyboard, b)
          /\ events' = (IF new = <<>> THEN events ELSE Push(events, new[1]))
          /\ dropped' = (dropped \/ (new # <<>> /\ IsFull(events)))
      BY <1>5, <2>1, <2>5 DEF PollByte
    <3>2. keyboard' = AfterByte(keyboard, b)
      BY <2>5, <3>1 DEF AfterByte
    <3> HIDE DEF b, new
    <3>3. CASE new = <<>>
      <4>1. ByteOf(keyboard, b) = NoByte
        BY <3>3 DEF ByteOf, new
      <4>2. events' = events /\ dropped' = dropped
        BY <1>1, <3>1, <3>3
      <4>3. Contents(events)' = Contents(events)
        BY <4>2 DEF Contents
      <4>4. Pending(got, Contents(input), Contents(events), Tail(controller),
                    AfterByte(keyboard, b), Held, typed, ~dropped)
        BY <2>1, <4>1
      <4> QED  BY <1>1, <1>2, <1>3, <2>1, <2>2, <2>3, <3>2, <4>2, <4>3, <4>4 DEF InputInv, InputTypes
    <3>4. CASE new # <<>> /\ IsFull(events)
      <4>1. dropped' = TRUE
        BY <3>1, <3>4
      <4>2. events' = events
        BY <3>1, <3>4 DEF Push
      <4>3. Contents(events)' = Contents(events)
        BY <4>2 DEF Contents
      <4>4. Pending(got, Contents(input), Contents(events), Tail(controller),
                    AfterByte(keyboard, b), Held, typed, FALSE)
        BY <2>1
      <4>5. Pending(got, Contents(input), Contents(events), Tail(controller),
                    AfterByte(keyboard, b), Held, typed, ~dropped')
        BY <4>1, <4>4
      <4> QED  BY <1>1, <1>2, <1>3, <2>1, <2>2, <2>3, <3>2, <4>1, <4>2, <4>3, <4>5 DEF InputInv, InputTypes
    <3>5. CASE new # <<>> /\ ~IsFull(events)
      <4>1. dropped' = dropped
        BY <1>1, <3>1, <3>5
      <4>2. PICK ev : ev = new[1]
        OBVIOUS
      <4>3. ev \in Events /\ InputByte(ev) = ByteOf(keyboard, b)
        BY <2>2, <2>5, <3>5, <4>2 DEF ByteOf, new
      <4>4. events' = Push(events, ev)
        BY <3>1, <3>5, <4>2
      <4>5. PICK q : q = Push(events, ev)
        OBVIOUS
      <4>6. /\ RingOf(q, Events, EventCapacity) /\ Contents(q) \in Seq(Events)
            /\ IsLonger(Contents(q), Contents(events), ev)
        BY <1>1, <3>5, <4>3, <4>5, Pushed
      <4>7. Pending(got, Contents(input), Contents(q), Tail(controller),
                    AfterByte(keyboard, b), Held, typed, ~dropped)
        BY <2>1, <4>3, <4>6
      <4>8. events' = q /\ Contents(events)' = Contents(q)
        BY <4>4, <4>5 DEF Contents
      <4> QED  BY <1>1, <1>2, <1>3, <2>1, <2>2, <2>3, <3>2, <4>1, <4>6, <4>7, <4>8 DEF InputInv, InputTypes
    <3> QED  BY <3>3, <3>4, <3>5
  <2> QED  BY <2>4, <2>5
<1> QED  BY <1>4, <1>5

LEMMA DispatchKeeps == ASSUME InputInv, DispatchEvent PROVE InputInv'
<1>1. /\ controller \in Seq(WireBytes) /\ keyboard \in Boards
      /\ EventCapacity \in Nat \ {0} /\ InputCapacity \in Nat \ {0}
      /\ RingOf(events, Events, EventCapacity) /\ Contents(events) \in Seq(Events)
      /\ RingOf(input, InBytes \cup {NoByte}, InputCapacity) /\ Contents(input) \in Seq(InBytes)
      /\ down \in SUBSET Shifts /\ prefixed \in BOOLEAN
      /\ typed \in Seq(InBytes) /\ got \in Seq(InBytes) /\ dropped \in BOOLEAN
      /\ Pending(got, Contents(input), Contents(events), controller, keyboard, Held, typed, ~dropped)
  BY InputFacts
<1>2. /\ controller' = controller /\ keyboard' = keyboard /\ got' = got /\ down' = down
      /\ prefixed' = prefixed /\ typed' = typed
  BY DEF DispatchEvent, UserState
<1>3. Held' = Held
  BY <1>2 DEF Held
<1>4. CASE IsEmpty(events)
  <2>1. UNCHANGED <<events, input, dropped>>
    BY <1>4 DEF DispatchEvent
  <2>2. Contents(events)' = Contents(events) /\ Contents(input)' = Contents(input)
    BY <2>1 DEF Contents
  <2> QED  BY <1>1, <1>2, <1>3, <2>1, <2>2 DEF InputInv, InputTypes
<1>5. CASE ~IsEmpty(events)
  <2>1. PICK x : x = InputByte(Oldest(events))
    OBVIOUS
  <2>2. PICK p : p = Pop(events)
    OBVIOUS
  <2>3. PICK es2 : es2 = Contents(p)
    OBVIOUS
  <2>4. /\ RingOf(p, Events, EventCapacity) /\ es2 \in Seq(Events) /\ Len(Contents(events)) >= 1
        /\ IsTail(es2, Contents(events)) /\ x = InputByte(Contents(events)[1])
        /\ Oldest(events) \in Events
    BY <1>1, <1>5, <2>1, <2>2, <2>3, Popped
  <2>5. x \in InBytes \cup {NoByte}
    BY <2>1, <2>4, InputByteType
  <2>6. /\ events' = p
        /\ input' = (IF x = NoByte THEN input ELSE Push(input, x))
        /\ dropped' = (dropped \/ (x # NoByte /\ IsFull(input)))
    BY <1>5, <2>1, <2>2 DEF DispatchEvent
  <2>7. /\ \A still : (still => ~dropped) /\ (x = NoByte \/ ~still)
             => Pending(got, Contents(input), es2, controller, keyboard, Held, typed, still)
        /\ \A q2 \in Seq(InBytes) : IsLonger(q2, Contents(input), x)
             => Pending(got, q2, es2, controller, keyboard, Held, typed, ~dropped)
    BY <1>1, <2>4, EventDispatched
  <2>8. Contents(events)' = es2
    BY <2>3, <2>6 DEF Contents
  <2>9. CASE x = NoByte
    <3>1. input' = input /\ dropped' = dropped
      BY <1>1, <2>6, <2>9
    <3>2. Contents(input)' = Contents(input)
      BY <3>1 DEF Contents
    <3>3. Pending(got, Contents(input), es2, controller, keyboard, Held, typed, ~dropped)
      BY <2>7, <2>9
    <3> QED  BY <1>1, <1>2, <1>3, <2>4, <2>6, <2>8, <3>1, <3>2, <3>3 DEF InputInv, InputTypes
  <2>10. CASE x # NoByte /\ IsFull(input)
    <3>1. input' = input
      BY <2>6, <2>10 DEF Push
    <3>2. dropped' = TRUE
      BY <2>6, <2>10
    <3>3. Contents(input)' = Contents(input)
      BY <3>1 DEF Contents
    <3>4. Pending(got, Contents(input), es2, controller, keyboard, Held, typed, FALSE)
      BY <2>7
    <3>5. Pending(got, Contents(input), es2, controller, keyboard, Held, typed, ~dropped')
      BY <3>2, <3>4
    <3> QED  BY <1>1, <1>2, <1>3, <2>4, <2>6, <2>8, <3>1, <3>2, <3>3, <3>5 DEF InputInv, InputTypes
  <2>11. CASE x # NoByte /\ ~IsFull(input)
    <3>1. dropped' = dropped
      BY <1>1, <2>6, <2>11
    <3>2. PICK q : q = Push(input, x)
      OBVIOUS
    <3>3. x \in InBytes
      BY <2>5, <2>11
    <3>4. /\ RingOf(q, InBytes \cup {NoByte}, InputCapacity) /\ Contents(q) \in Seq(InBytes \cup {NoByte})
          /\ IsLonger(Contents(q), Contents(input), x)
      BY <1>1, <2>5, <2>11, <3>2, Pushed
    <3>5. Contents(q) \in Seq(InBytes)
      BY <1>1, <3>3, <3>4, LongerType
    <3>6. Pending(got, Contents(q), es2, controller, keyboard, Held, typed, ~dropped)
      BY <2>7, <3>4, <3>5
    <3>7. input' = q
      BY <2>6, <2>11, <3>2
    <3>8. Contents(input)' = Contents(q)
      BY <3>7 DEF Contents
    <3> QED  BY <1>1, <1>2, <1>3, <2>4, <2>6, <2>8, <3>1, <3>4, <3>5, <3>6, <3>7, <3>8 DEF InputInv, InputTypes
  <2> QED  BY <2>9, <2>10, <2>11
<1> QED  BY <1>4, <1>5

LEMMA ReadKeeps == ASSUME InputInv, ReadByte PROVE InputInv'
<1>1. /\ controller \in Seq(WireBytes) /\ keyboard \in Boards
      /\ EventCapacity \in Nat \ {0} /\ InputCapacity \in Nat \ {0}
      /\ RingOf(events, Events, EventCapacity) /\ Contents(events) \in Seq(Events)
      /\ RingOf(input, InBytes \cup {NoByte}, InputCapacity) /\ Contents(input) \in Seq(InBytes)
      /\ down \in SUBSET Shifts /\ prefixed \in BOOLEAN
      /\ typed \in Seq(InBytes) /\ got \in Seq(InBytes) /\ dropped \in BOOLEAN
      /\ Pending(got, Contents(input), Contents(events), controller, keyboard, Held, typed, ~dropped)
  BY InputFacts
<1>2. /\ ~IsEmpty(input) /\ got' = Append(got, Oldest(input)) /\ input' = Pop(input)
      /\ controller' = controller /\ keyboard' = keyboard /\ events' = events /\ dropped' = dropped
      /\ down' = down /\ prefixed' = prefixed /\ typed' = typed
  BY DEF ReadByte, UserState
<1>3. PICK p : p = Pop(input)
  OBVIOUS
<1>4. /\ RingOf(p, InBytes \cup {NoByte}, InputCapacity) /\ Contents(p) \in Seq(InBytes \cup {NoByte})
      /\ Len(Contents(input)) >= 1 /\ IsTail(Contents(p), Contents(input))
      /\ Oldest(input) = Contents(input)[1]
  BY <1>1, <1>2, <1>3, Popped
<1>5. Contents(p) \in Seq(InBytes)
  BY <1>1, <1>4, TailType
<1>6. Contents(input)[1] \in InBytes
  <2>1. Len(Contents(input)) \in Nat /\ 1 \in 1..Len(Contents(input))
    BY <1>1, <1>4
  <2> QED  BY <2>1, <1>1
<1>7. PICK g2 : g2 = Append(got, Contents(input)[1])
  OBVIOUS
<1>8. g2 \in Seq(InBytes) /\ IsLonger(g2, got, Contents(input)[1])
  BY <1>1, <1>6, <1>7, AppendProperties DEF IsLonger
<1>9. Pending(g2, Contents(p), Contents(events), controller, keyboard, Held, typed, ~dropped)
  BY <1>1, <1>4, <1>5, <1>8, ByteWasRead
<1>10. /\ Held' = Held /\ got' = g2 /\ input' = p /\ Contents(input)' = Contents(p)
       /\ Contents(events)' = Contents(events)
  BY <1>2, <1>3, <1>4, <1>7 DEF Held, Contents
<1> QED  BY <1>1, <1>2, <1>4, <1>5, <1>8, <1>9, <1>10 DEF InputInv, InputTypes

LEMMA InputSteps == InputInv /\ [InputNext]_inputVars => InputInv'
<1> SUFFICES ASSUME InputInv, [InputNext]_inputVars PROVE InputInv'
  OBVIOUS
<1>1. ASSUME UNCHANGED <<controller, keyboard, events, input, got, dropped, UserState>> PROVE InputInv'
  BY <1>1 DEF UserState, InputInv, InputTypes, Held, Contents
<1>2. ASSUME ProgramYields PROVE InputInv'
  BY <1>1, <1>2 DEF ProgramYields
<1>3. ASSUME UNCHANGED inputVars PROVE InputInv'
  BY <1>1, <1>3 DEF inputVars, UserState
<1> QED  BY <1>2, <1>3, HardwareKeeps, PollKeeps, DispatchKeeps, ReadKeeps
         DEF InputNext, TerminalThread, Program

(* What is under way, U, seen in the slots.                                *)
Stands(to, U, W, N, all) ==
  /\ to \in [1..Len(U) -> 1..N]
  /\ \A n \in 1..Len(U) : U[n] = W[to[n]] /\ W[to[n]] # NoByte
  /\ \A n, k \in 1..Len(U) : n < k => to[n] < to[k]
  /\ all => \A x \in 1..N : W[x] # NoByte => \E n \in 1..Len(U) : to[n] = x
LEMMA UnderwaySlots ==
  ASSUME NEW r \in Seq(InBytes), NEW q \in Seq(InBytes), NEW V \in Slots, NEW w \in Slots,
         NEW B, NEW g, Picks(B, g, V, Len(V))
  PROVE  /\ r \o q \o B \in Seq(InBytes)
         /\ \E to : Stands(to, r \o q \o B, Way(r, q, V, w), WayLen(r, q, V, w), Len(w) = 0)
<1>1. PICK a : a = Len(r) + Len(q)
  OBVIOUS
<1>2. /\ Len(r) \in Nat /\ Len(q) \in Nat /\ a \in Nat /\ Len(V) \in Nat /\ Len(w) \in Nat
      /\ B \in Seq(InBytes) /\ Len(B) \in Nat /\ g \in [1..Len(B) -> 1..Len(V)]
      /\ \A k \in 1..Len(B) : B[k] = V[g[k]] /\ V[g[k]] # NoByte
      /\ \A k, l \in 1..Len(B) : k < l => g[k] < g[l]
      /\ \A x \in 1..Len(V) : V[x] # NoByte => \E k \in 1..Len(B) : g[k] = x
  BY <1>1 DEF Slots, Picks
<1>3. PICK A : A = r \o q
  OBVIOUS
<1>4. /\ A \in Seq(InBytes) /\ Len(A) = a
      /\ \A i \in 1..a : A[i] = IF i <= Len(r) THEN r[i] ELSE q[i - Len(r)]
  BY <1>1, <1>3, ConcatProperties
<1>5. PICK U : U = A \o B
  OBVIOUS
<1>6. /\ U \in Seq(InBytes) /\ Len(U) = a + Len(B)
      /\ \A i \in 1..(a + Len(B)) : U[i] = IF i <= a THEN A[i] ELSE B[i - a]
  <2>1. A \in Seq(InBytes) /\ B \in Seq(InBytes) /\ Len(A) = a
    BY <1>2, <1>4
  <2>2. /\ A \o B \in Seq(InBytes) /\ Len(A \o B) = Len(A) + Len(B)
        /\ \A i \in 1..(Len(A) + Len(B)) : (A \o B)[i] = IF i <= Len(A) THEN A[i] ELSE B[i - Len(A)]
    BY <2>1, ConcatProperties
  <2> QED  BY ONLY <2>1, <2>2, <1>5
<1>7. PICK W : W = Way(r, q, V, w)
  OBVIOUS
<1>8. PICK N : N = WayLen(r, q, V, w)
  OBVIOUS
<1>9. N = a + Len(V) + Len(w) /\ N \in Nat
  BY <1>1, <1>2, <1>8 DEF WayLen
<1>10. \A x \in 1..a : x \in 1..N /\ W[x] = A[x]
  <2>1. ASSUME NEW x \in 1..a PROVE x \in 1..N /\ W[x] = A[x]
    <3>1. x \in 1..N /\ x <= Len(r) + Len(q)
      BY <1>1, <1>2, <1>9
    <3>2. CASE x <= Len(r)
      BY <3>1, <3>2, <1>2, <1>4, <1>7, <1>8 DEF Way
    <3>3. CASE ~(x <= Len(r))
      BY <3>1, <3>3, <1>2, <1>4, <1>7, <1>8 DEF Way
    <3> QED  BY <3>1, <3>2, <3>3
  <2> QED  BY <2>1
<1>11. \A x \in 1..Len(V) : a + x \in 1..N /\ W[a + x] = V[x]
  <2>1. ASSUME NEW x \in 1..Len(V) PROVE a + x \in 1..N /\ W[a + x] = V[x]
    <3>1. /\ a + x \in 1..N /\ ~(a + x <= Len(r)) /\ ~(a + x <= Len(r) + Len(q))
          /\ a + x <= Len(r) + Len(q) + Len(V)
      BY <1>1, <1>2, <1>9
    <3>z. PICK z : z = a + x
      OBVIOUS
    <3>w. W[z] = V[z - Len(r) - Len(q)]
      BY <3>1, <3>z, <1>2, <1>7, <1>8 DEF Way
    <3>2. z - Len(r) - Len(q) = x
      BY <3>z, <1>1, <1>2
    <3> QED  BY <3>1, <3>2, <3>w, <3>z
  <2> QED  BY <2>1
<1>12. PICK to : to = [n \in 1..Len(U) |-> IF n <= a THEN n ELSE a + g[n - a]]
  OBVIOUS
<1>13. \A n \in 1..Len(U) : n <= a => n \in 1..a /\ to[n] = n
  BY <1>2, <1>6, <1>12
<1>14. \A n \in 1..Len(U) : ~(n <= a) => n - a \in 1..Len(B) /\ g[n - a] \in 1..Len(V) /\ to[n] = a + g[n - a]
  <2>1. \A n \in 1..Len(U) : ~(n <= a) => n - a \in 1..Len(B)
    BY <1>2, <1>6
  <2> QED  BY <2>1, <1>2, <1>12
<1>15. \A x \in 1..a : A[x] \in InBytes /\ A[x] # NoByte
  <2>1. \A x \in 1..a : A[x] \in InBytes
    BY <1>4
  <2> QED  BY <2>1 DEF InBytes, NoByte
<1>16. ASSUME NEW n \in 1..Len(U) PROVE to[n] \in 1..N /\ U[n] = W[to[n]] /\ W[to[n]] # NoByte
  <2>1. CASE n <= a
    BY <2>1, <1>6, <1>10, <1>13, <1>15
  <2>2. CASE ~(n <= a)
    <3>1. PICK k : k = n - a
      OBVIOUS
    <3>2. PICK y : y = g[k]
      OBVIOUS
    <3>3. k \in 1..Len(B) /\ y \in 1..Len(V) /\ to[n] = a + y
      BY <2>2, <3>1, <3>2, <1>14
    <3>4. U[n] = B[k] /\ B[k] = V[y] /\ V[y] # NoByte
      BY <2>2, <3>1, <3>2, <3>3, <1>2, <1>6
    <3> QED  BY <3>3, <3>4, <1>11
  <2> QED  BY <2>1, <2>2
<1>17. to \in [1..Len(U) -> 1..N]
  BY <1>12, <1>16
<1>18. ASSUME NEW n \in 1..Len(U), NEW k \in 1..Len(U), n < k PROVE to[n] < to[k]
  <2>1. CASE k <= a
    <3>1. n <= a
      BY <2>1, <1>2, <1>6, <1>18
    <3> QED  BY <2>1, <3>1, <1>13, <1>18
  <2>2. CASE ~(k <= a) /\ n <= a
    <3>1. to[n] = n /\ to[k] = a + g[k - a] /\ g[k - a] \in 1..Len(V)
      BY <2>2, <1>13, <1>14
    <3> QED  BY <2>2, <3>1, <1>2
  <2>3. CASE ~(k <= a) /\ ~(n <= a)
    <3>1. /\ to[n] = a + g[n - a] /\ to[k] = a + g[k - a] /\ g[n - a] \in 1..Len(V)
          /\ g[k - a] \in 1..Len(V) /\ n - a \in 1..Len(B) /\ k - a \in 1..Len(B)
      BY <2>3, <1>14
    <3>2. n - a < k - a
      BY <1>2, <1>6, <1>18
    <3>3. g[n - a] < g[k - a]
      BY <3>1, <3>2, <1>2
    <3> QED  BY <3>1, <3>3, <1>2
  <2> QED  BY <2>1, <2>2, <2>3
<1>19. ASSUME Len(w) = 0, NEW x \in 1..N, W[x] # NoByte PROVE \E n \in 1..Len(U) : to[n] = x
  <2>1. CASE x <= a
    <3>1. x \in 1..Len(U)
      BY <2>1, <1>2, <1>6
    <3> QED  BY <3>1, <2>1, <1>13
  <2>2. CASE ~(x <= a)
    <3>1. x - a \in 1..Len(V) /\ a + (x - a) = x
      BY <2>2, <1>2, <1>9, <1>19
    <3>2. V[x - a] # NoByte
      BY <3>1, <1>11, <1>19
    <3>3. PICK k \in 1..Len(B) : g[k] = x - a
      BY <3>1, <3>2, <1>2
    <3>n. PICK n : n = a + k
      OBVIOUS
    <3>4. n \in 1..Len(U) /\ ~(n <= a) /\ n - a = k
      BY <3>n, <1>2, <1>6
    <3>5. to[n] = a + g[n - a]
      BY <3>4, <1>14
    <3>6. to[n] = x
      BY <3>1, <3>3, <3>4, <3>5
    <3> QED  BY <3>4, <3>6
  <2> QED  BY <2>1, <2>2
<1>20. Stands(to, U, W, N, Len(w) = 0)
  BY <1>16, <1>17, <1>18, <1>19 DEF Stands
<1> QED  BY <1>3, <1>5, <1>6, <1>7, <1>8, <1>20

LEMMA InputImplied == InputInv => InputFaithful
<1> SUFFICES ASSUME InputInv PROVE InputFaithful
  OBVIOUS
<1>1. /\ controller \in Seq(WireBytes) /\ Contents(events) \in Seq(Events)
      /\ Contents(input) \in Seq(InBytes) /\ typed \in Seq(InBytes) /\ got \in Seq(InBytes)
      /\ Pending(got, Contents(input), Contents(events), controller, keyboard, Held, typed, ~dropped)
  BY InputFacts
<1>2. PICK K : /\ Trace(K, controller, keyboard, Held)
               /\ Yields(Way(got, Contents(input), EventSlots(Contents(events)), WireSlots(K, controller)),
                         WayLen(got, Contents(input), EventSlots(Contents(events)), WireSlots(K, controller)),
                         typed, ~dropped)
  BY <1>1 DEF Pending
<1>3. PICK V : V = EventSlots(Contents(events))
  OBVIOUS
<1>4. PICK w : w = WireSlots(K, controller)
  OBVIOUS
<1>5. V \in Slots /\ Len(V) = Len(Contents(events))
  BY <1>1, <1>3, EventSlotsType
<1>6. w \in Slots /\ Len(w) = Len(controller)
  BY <1>1, <1>2, <1>4, WireSlotsType
<1>7. PICK g : Picks(BytesOf(Contents(events)), g, V, Len(V))
  BY <1>1, <1>3, <1>5, BytesOfPicks
<1>8. PICK W : W = Way(got, Contents(input), V, w)
  OBVIOUS
<1>9. PICK N : N = WayLen(got, Contents(input), V, w)
  OBVIOUS
<1>10. PICK U : U = got \o Contents(input) \o BytesOf(Contents(events))
  OBVIOUS
<1>11. U \in Seq(InBytes) /\ \E to : Stands(to, U, W, N, Len(w) = 0)
  <2>1. PICK B : B = BytesOf(Contents(events))
    OBVIOUS
  <2>2. PICK q : q = Contents(input)
    OBVIOUS
  <2>3. /\ got \o q \o B \in Seq(InBytes)
        /\ \E to : Stands(to, got \o q \o B, Way(got, q, V, w), WayLen(got, q, V, w), Len(w) = 0)
    BY <1>1, <1>5, <1>6, <1>7, <2>1, <2>2, UnderwaySlots
  <2> QED  BY <1>8, <1>9, <1>10, <2>1, <2>2, <2>3
<1>12. U \in Seq(InBytes) /\ Len(U) \in Nat /\ Len(typed) \in Nat
  BY <1>1, <1>11
<1>t. PICK to : Stands(to, U, W, N, Len(w) = 0)
  BY <1>11
<1>13. /\ to \in [1..Len(U) -> 1..N]
       /\ \A n \in 1..Len(U) : U[n] = W[to[n]] /\ W[to[n]] # NoByte
       /\ \A n, k \in 1..Len(U) : n < k => to[n] < to[k]
       /\ Len(w) = 0 => \A x \in 1..N : W[x] # NoByte => \E n \in 1..Len(U) : to[n] = x
  BY <1>t DEF Stands
<1>14. Yields(W, N, typed, ~dropped)
  BY <1>2, <1>3, <1>4, <1>8, <1>9
<1>15. PICK f : Places(f, W, N, typed) /\ (~dropped => Covers(f, W, N, typed))
  BY <1>14 DEF Yields
<1>16. /\ \A n \in 1..N : W[n] # NoByte => f[n] \in 1..Len(typed) /\ W[n] = typed[f[n]]
       /\ \A n, k \in 1..N : n < k /\ W[n] # NoByte /\ W[k] # NoByte => f[n] < f[k]
  BY <1>15 DEF Places
<1>17. PICK h : h = [n \in 1..Len(U) |-> f[to[n]]]
  OBVIOUS
<1>18. \A n \in 1..Len(U) : h[n] = f[to[n]] /\ to[n] \in 1..N /\ h[n] \in 1..Len(typed) /\ U[n] = typed[h[n]]
  BY <1>13, <1>16, <1>17
<1>19. h \in [1..Len(U) -> 1..Len(typed)]
  BY <1>17, <1>18
<1>20. \A n, k \in 1..Len(U) : n < k => h[n] < h[k]
  BY <1>13, <1>16, <1>18
<1>21. DOMAIN U = 1..Len(U) /\ DOMAIN typed = 1..Len(typed)
  BY <1>1, <1>12
<1>22. IsSubsequence(U, typed)
  BY <1>18, <1>19, <1>20, <1>21 DEF IsSubsequence
<1>23. ASSUME controller = <<>>, ~dropped PROVE U = typed
  <2>1. Len(w) = 0
    BY <1>6, <1>23
  <2>2. \A x \in 1..Len(typed) : \E n \in 1..Len(U) : h[n] = x
    <3>1. ASSUME NEW x \in 1..Len(typed) PROVE \E n \in 1..Len(U) : h[n] = x
      <4>1. PICK k \in 1..N : W[k] # NoByte /\ f[k] = x
        BY <1>15, <1>23 DEF Covers
      <4>2. PICK n \in 1..Len(U) : to[n] = k
        BY <1>13, <2>1, <4>1
      <4> QED  BY <4>1, <4>2, <1>18
    <3> QED  BY <3>1
  <2>o. OntoInOrder(h, Len(U), Len(typed))
    BY <1>19, <1>20, <2>2 DEF OntoInOrder
  <2>3. Len(U) = Len(typed) /\ \A n \in 1..Len(U) : h[n] = n
    BY <1>12, <2>o, IncreasingOnto
  <2>4. \A n \in 1..Len(U) : U[n] = typed[n]
    BY <2>3, <1>18
  <2>5. U \in [1..Len(U) -> InBytes] /\ typed \in [1..Len(U) -> InBytes]
    BY <1>1, <1>12, <2>3
  <2> QED  BY <2>4, <2>5
<1> QED  BY <1>10, <1>22, <1>23 DEF InputFaithful, Underway

(* What programs read, what the terminal's queue holds and what the events *)
(* on the keyboard's queue will become are a subsequence of what the keys  *)
(* mean, and all of it once the controller is empty and no queue was ever  *)
(* full, for every size of the two rings and every sequence of keystrokes, *)
(* prefixed codes and mouse bytes (keyboard.rs, terminal.rs, the terminal  *)
(* thread of main.rs).                                                     *)
THEOREM InputCorrect == Spec => []InputFaithful
<1>1. Init => InputInv
  BY InputStarts DEF Init
<1>2. InputInv /\ [Next]_vars => InputInv'
  BY TextSteps, InputSteps
<1>3. InputInv => InputFaithful
  BY InputImplied
<1> QED  BY <1>1, <1>2, <1>3, PTL DEF Spec

-----------------------------------------------------------------------------
(* Paths.  Both resolvers go through the parts of a path, each with a      *)
(* buffer; the reference goes through them with a list of names.  What     *)
(* relates them is the spelling of every prefix of that list: h[i] spells  *)
(* the first i names, the buffer is the last of them and the kernel's      *)
(* starts are the lengths of the others.                                   *)
PathBytes == Bytes \cup {Slash}
Components == {s \in Seq(PathBytes) : \A i \in 1..Len(s) : s[i] # Slash}
Names == Components \ {<<>>, Dot, DotDot}
PartLists == {p \in Seq(Components) : p # <<>>}
Buffers == [ok : BOOLEAN, out : Seq(PathBytes), starts : Seq(Nat)]
Ladder(h, names) ==
  /\ h \in [0..Len(names) -> Seq(PathBytes)] /\ h[0] = <<Slash>>
  /\ \A i \in 1..Len(names) : h[i] = Joined(h[i - 1], names[i]) /\ Len(h[i]) >= 2
Spells(k, names, h) ==
  /\ k \in Buffers /\ names \in Seq(Names) /\ Ladder(h, names)
  /\ k.out = h[Len(names)] /\ Len(k.starts) = Len(names)
  /\ \A i \in 1..Len(names) : k.starts[i] = Len(h[i - 1])
  /\ Len(names) <= MaxComponents /\ Len(k.out) <= Capacity

LEMMA NameIs ==
  ASSUME NEW s \in Names
  PROVE  s \in Seq(PathBytes) /\ Len(s) \in Nat /\ Len(s) >= 1 /\ \A i \in 1..Len(s) : s[i] # Slash
<1>1. s \in Seq(PathBytes) /\ s # <<>> /\ \A i \in 1..Len(s) : s[i] # Slash
  BY DEF Names, Components
<1> QED  BY <1>1

LEMMA JoinedIs ==
  ASSUME NEW out \in Seq(PathBytes), Len(out) >= 1, NEW s \in Names
  PROVE  /\ Joined(out, s) \in Seq(PathBytes)
         /\ Len(out) = 1 => Len(Joined(out, s)) = Len(out) + Len(s)
         /\ Len(out) # 1 => Len(Joined(out, s)) = Len(out) + 1 + Len(s)
         /\ \A i \in 1..Len(out) : Joined(out, s)[i] = out[i]
         /\ Len(out) # 1 => Joined(out, s)[Len(out) + 1] = Slash
         /\ \A i \in (Len(out) + 1)..Len(Joined(out, s)) :
              (Len(out) # 1 => i # Len(out) + 1) => Joined(out, s)[i] # Slash
         /\ SubSeq(Joined(out, s), 1, Len(out)) = out
<1>1. s \in Seq(PathBytes) /\ Len(s) \in Nat /\ Len(s) >= 1 /\ \A i \in 1..Len(s) : s[i] # Slash
  BY NameIs
<1>2. PICK n : n = Len(out) /\ n \in Nat /\ n >= 1
  OBVIOUS
<1>3. PICK start : start = IF n = 1 THEN out ELSE Append(out, Slash)
  OBVIOUS
<1>4. PICK m : m \in Nat /\ (n = 1 => m = n) /\ (n # 1 => m = n + 1)
  <2>1. n \in Nat /\ n + 1 \in Nat
    BY <1>2
  <2> QED  BY <2>1
<1>5. /\ start \in Seq(PathBytes) /\ Len(start) = m
      /\ \A i \in 1..n : start[i] = out[i]
      /\ n # 1 => start[n + 1] = Slash
  BY <1>2, <1>3, <1>4, AppendProperties DEF PathBytes
<1>6. PICK j : j = start \o s
  OBVIOUS
<1>7. Joined(out, s) = j
  BY <1>2, <1>3, <1>6 DEF Joined
<1>8. /\ j \in Seq(PathBytes) /\ Len(j) = m + Len(s)
      /\ \A i \in 1..(m + Len(s)) : j[i] = IF i <= m THEN start[i] ELSE s[i - m]
  <2>1. /\ j \in Seq(PathBytes) /\ Len(j) = Len(start) + Len(s)
        /\ \A i \in 1..(Len(start) + Len(s)) : j[i] = IF i <= Len(start) THEN start[i] ELSE s[i - Len(start)]
    BY <1>1, <1>5, <1>6, ConcatProperties
  <2> QED  BY <2>1, <1>5
<1>9. \A i \in 1..n : j[i] = out[i]
  <2>1. \A i \in 1..n : i \in 1..(m + Len(s)) /\ i <= m
    BY <1>1, <1>2, <1>4
  <2> QED  BY <2>1, <1>5, <1>8
<1>10. n # 1 => j[n + 1] = Slash
  BY <1>1, <1>2, <1>4, <1>5, <1>8
<1>11. ASSUME NEW i \in (n + 1)..Len(j), n # 1 => i # n + 1 PROVE j[i] # Slash
  <2>1. i \in 1..(m + Len(s)) /\ ~(i <= m) /\ i - m \in 1..Len(s)
    BY <1>1, <1>2, <1>4, <1>8, <1>11
  <2> QED  BY <2>1, <1>1, <1>8
<1>12. SubSeq(j, 1, n) = out
  <2>1. n <= Len(j)
    BY <1>1, <1>2, <1>4, <1>8
  <2>2. /\ SubSeq(j, 1, n) \in Seq(PathBytes) /\ Len(SubSeq(j, 1, n)) = n
        /\ \A i \in 1..n : SubSeq(j, 1, n)[i] = j[i]
    BY <2>1, <1>2, <1>8, PrefixOf
  <2> QED  BY <2>2, <1>2, <1>9
<1> QED  BY <1>1, <1>2, <1>4, <1>7, <1>8, <1>9, <1>10, <1>11, <1>12

LEMMA LadderTypes ==
  ASSUME NEW names \in Seq(Names), NEW h, Ladder(h, names)
  PROVE  /\ Len(names) \in Nat
         /\ \A i \in 0..Len(names) : h[i] \in Seq(PathBytes) /\ Len(h[i]) \in Nat /\ Len(h[i]) >= 1
         /\ \A i \in 1..Len(names) : names[i] \in Names /\ i - 1 \in 0..Len(names)
         /\ \A i \in 1..Len(names) : Len(h[i]) > Len(h[i - 1])
         /\ \A i \in 0..Len(names) : Len(h[i]) = 1 <=> i = 0
<1>1. /\ Len(names) \in Nat /\ \A i \in 1..Len(names) : names[i] \in Names /\ i - 1 \in 0..Len(names)
  OBVIOUS
<1>2. /\ \A i \in 0..Len(names) : h[i] \in Seq(PathBytes)
      /\ h[0] = <<Slash>>
      /\ \A i \in 1..Len(names) : h[i] = Joined(h[i - 1], names[i]) /\ Len(h[i]) >= 2
  BY DEF Ladder
<1>3. Len(h[0]) = 1
  BY <1>2
<1>4. ASSUME NEW i \in 0..Len(names)
      PROVE  /\ h[i] \in Seq(PathBytes) /\ Len(h[i]) \in Nat /\ Len(h[i]) >= 1
             /\ Len(h[i]) = 1 <=> i = 0
  <2>1. h[i] \in Seq(PathBytes) /\ Len(h[i]) \in Nat
    BY <1>2
  <2>2. CASE i = 0
    BY <2>1, <2>2, <1>3
  <2>3. CASE i # 0
    <3>1. i \in 1..Len(names)
      BY <2>3
    <3>2. Len(h[i]) >= 2
      BY <3>1, <1>2
    <3>3. Len(h[i]) >= 1 /\ Len(h[i]) # 1
      <4>1. PICK l : l = Len(h[i])
        OBVIOUS
      <4>2. l \in Nat /\ l >= 2
        BY <2>1, <3>2, <4>1
      <4>3. l >= 1 /\ l # 1
        BY <4>2
      <4> QED  BY <4>1, <4>3
    <3> QED  BY <2>1, <2>3, <3>3
  <2> QED  BY <2>2, <2>3
<1>5. ASSUME NEW i \in 1..Len(names) PROVE Len(h[i]) > Len(h[i - 1])
  <2>1. PICK g, s : g = h[i - 1] /\ s = names[i]
    OBVIOUS
  <2>2. g \in Seq(PathBytes) /\ Len(g) \in Nat /\ Len(g) >= 1 /\ s \in Names /\ h[i] = Joined(g, s)
    BY <1>1, <1>2, <1>4, <2>1
  <2>3. Len(s) \in Nat /\ Len(s) >= 1
    BY <2>2, NameIs
  <2>4. Len(Joined(g, s)) > Len(g)
    <3>1. PICK l, a, b : l = Len(Joined(g, s)) /\ a = Len(g) /\ b = Len(s)
      OBVIOUS
    <3>2. l = a + b \/ l = a + 1 + b
      BY <2>2, <3>1, JoinedIs
    <3>3. l > a
      BY <2>2, <2>3, <3>1, <3>2
    <3> QED  BY <3>1, <3>3
  <2> QED  BY <2>1, <2>2, <2>4
<1> QED  BY <1>1, <1>4, <1>5

(* One name more, one name less.                                           *)
LEMMA LadderUp ==
  ASSUME NEW names \in Seq(Names), NEW h, Ladder(h, names), NEW s \in Names
  PROVE  \E g : /\ Ladder(g, Append(names, s)) /\ g[Len(names) + 1] = Joined(h[Len(names)], s)
                /\ \A i \in 0..Len(names) : g[i] = h[i]
<1>1. PICK n : n = Len(names) /\ n \in Nat
  OBVIOUS
<1>2. PICK g : g = [i \in 0..(n + 1) |-> IF i = n + 1 THEN Joined(h[n], s) ELSE h[i]]
  OBVIOUS
<1>3. /\ h[n] \in Seq(PathBytes) /\ Len(h[n]) \in Nat /\ Len(h[n]) >= 1
      /\ \A i \in 0..n : h[i] \in Seq(PathBytes)
  BY <1>1, LadderTypes
<1>4. Joined(h[n], s) \in Seq(PathBytes) /\ Len(Joined(h[n], s)) >= 2
  <2>1. PICK o : o = h[n]
    OBVIOUS
  <2>2. Len(s) \in Nat /\ Len(s) >= 1 /\ o \in Seq(PathBytes) /\ Len(o) \in Nat /\ Len(o) >= 1
    BY <1>3, <2>1, NameIs
  <2>3. /\ Joined(o, s) \in Seq(PathBytes)
        /\ Len(Joined(o, s)) = Len(o) + Len(s) \/ Len(Joined(o, s)) = Len(o) + 1 + Len(s)
    BY <2>2, JoinedIs
  <2>4. PICK l, a, b : l = Len(Joined(o, s)) /\ a = Len(o) /\ b = Len(s)
    OBVIOUS
  <2>5. l >= 2
    BY <2>2, <2>3, <2>4
  <2> QED  BY <2>1, <2>3, <2>4, <2>5
<1>5. g[n + 1] = Joined(h[n], s) /\ \A i \in 0..n : g[i] = h[i]
  BY <1>1, <1>2
<1>6. PICK more : more = Append(names, s)
  OBVIOUS
<1>7. /\ more \in Seq(Names) /\ Len(more) = n + 1 /\ more[n + 1] = s
      /\ \A i \in 1..n : more[i] = names[i]
  BY <1>1, <1>6, AppendProperties
<1>8. g \in [0..(n + 1) -> Seq(PathBytes)]
  <2>1. \A i \in 0..(n + 1) : i = n + 1 \/ i \in 0..n
    BY <1>1
  <2>2. \A i \in 0..(n + 1) : g[i] \in Seq(PathBytes)
    BY <2>1, <1>3, <1>4, <1>5
  <2> QED  BY <2>2, <1>2
<1>9. ASSUME NEW i \in 1..(n + 1) PROVE g[i] = Joined(g[i - 1], more[i]) /\ Len(g[i]) >= 2
  <2>1. CASE i = n + 1
    <3>1. i - 1 = n /\ n \in 0..n
      BY <2>1, <1>1
    <3> QED  BY <2>1, <3>1, <1>4, <1>5, <1>7
  <2>2. CASE i # n + 1
    <3>1. i \in 1..n /\ i \in 0..n /\ i - 1 \in 0..n
      BY <2>2, <1>1
    <3>2. h[i] = Joined(h[i - 1], names[i]) /\ Len(h[i]) >= 2
      BY <3>1, <1>1 DEF Ladder
    <3> QED  BY <3>1, <3>2, <1>5, <1>7
  <2> QED  BY <2>1, <2>2
<1>10. g[0] = <<Slash>>
  <2>1. 0 \in 0..n /\ h[0] = <<Slash>>
    BY <1>1 DEF Ladder
  <2> QED  BY <2>1, <1>5
<1>11. Ladder(g, more)
  BY <1>7, <1>8, <1>9, <1>10 DEF Ladder
<1> QED  BY <1>1, <1>5, <1>6, <1>11

LEMMA LadderDown ==
  ASSUME NEW names \in Seq(Names), names # <<>>, NEW h, Ladder(h, names)
  PROVE  \E g : Ladder(g, Front(names)) /\ \A i \in 0..(Len(names) - 1) : g[i] = h[i]
<1>1. PICK n : n = Len(names) - 1 /\ n \in Nat
  BY FrontOf
<1>2. PICK less : less = Front(names) /\ Len(less) = n /\ \A i \in 1..n : less[i] = names[i]
  BY <1>1, FrontOf
<1>3. PICK g : g = [i \in 0..n |-> h[i]]
  OBVIOUS
<1>4. /\ \A i \in 0..n : h[i] \in Seq(PathBytes) /\ h[0] = <<Slash>>
      /\ \A i \in 1..n : h[i] = Joined(h[i - 1], names[i]) /\ Len(h[i]) >= 2
  <2>1. /\ \A i \in 0..Len(names) : h[i] \in Seq(PathBytes)
        /\ h[0] = <<Slash>>
        /\ \A i \in 1..Len(names) : h[i] = Joined(h[i - 1], names[i]) /\ Len(h[i]) >= 2
    BY DEF Ladder
  <2>2. Len(names) \in Nat
    OBVIOUS
  <2>3. \A i \in 0..n : i \in 0..Len(names)
    BY <1>1, <2>2
  <2>4. \A i \in 1..n : i \in 1..Len(names)
    BY <1>1, <2>2
  <2> QED  BY <2>1, <2>3, <2>4
<1>5. \A i \in 1..n : i \in 0..n /\ i - 1 \in 0..n /\ 0 \in 0..n
  BY <1>1
<1>6. Ladder(g, less)
  <2>1. g \in [0..n -> Seq(PathBytes)]
    BY <1>3, <1>4
  <2>2. g[0] = <<Slash>>
    BY <1>1, <1>3, <1>4
  <2>3. \A i \in 1..n : g[i] = Joined(g[i - 1], less[i]) /\ Len(g[i]) >= 2
    BY <1>2, <1>3, <1>4, <1>5
  <2> QED  BY <2>1, <2>2, <2>3, <1>2 DEF Ladder
<1> QED  BY <1>1, <1>2, <1>3, <1>6

(* ".." of the kernel and of lash, and the kernel's next name.             *)
LEMMA UpFromLadder ==
  ASSUME NEW names \in Seq(Names), NEW h, Ladder(h, names), NEW n, n = Len(names), n >= 1
  PROVE  /\ SubSeq(h[n], 1, Len(h[n - 1])) = h[n - 1]
         /\ Parent(h[n]) = h[n - 1]
<1>1. PICK o, s, b : o = h[n - 1] /\ s = names[n] /\ b = h[n]
  OBVIOUS
<1>2. /\ n \in 1..Len(names) /\ n \in Nat
      /\ o \in Seq(PathBytes) /\ Len(o) \in Nat /\ Len(o) >= 1 /\ s \in Names /\ b = Joined(o, s)
      /\ b \in Seq(PathBytes) /\ Len(b) \in Nat /\ Len(b) >= 2
      /\ Len(o) = 1 <=> n = 1
      /\ n = 1 => o = <<Slash>>
  <2>1. n \in 1..Len(names) /\ n \in Nat /\ n - 1 \in 0..n
    OBVIOUS
  <2>2. h[n] = Joined(h[n - 1], names[n]) /\ Len(h[n]) >= 2 /\ h[0] = <<Slash>>
    BY <2>1 DEF Ladder
  <2>3. o \in Seq(PathBytes) /\ Len(o) \in Nat /\ Len(o) >= 1 /\ (Len(o) = 1 <=> n - 1 = 0)
    BY <1>1, <2>1, LadderTypes
  <2>4. b \in Seq(PathBytes) /\ Len(b) \in Nat /\ s \in Names
    BY <1>1, <2>1, LadderTypes
  <2>5. n - 1 = 0 <=> n = 1
    BY <2>1
  <2> QED  BY <1>1, <2>1, <2>2, <2>3, <2>4, <2>5
<1>3. SubSeq(b, 1, Len(o)) = o
  BY <1>2, JoinedIs
<1>4. PICK l, m : l = Len(o) /\ m = Len(b)
  OBVIOUS
<1>5. /\ l \in Nat /\ m \in Nat /\ l < m /\ l >= 1 /\ m >= 2
      /\ \A i \in 1..l : b[i] = o[i]
      /\ l # 1 => b[l + 1] = Slash
      /\ \A i \in (l + 1)..m : (l # 1 => i # l + 1) => b[i] # Slash
  <2>1. Len(s) \in Nat /\ Len(s) >= 1 /\ (m = l + Len(s) \/ m = l + 1 + Len(s))
    BY <1>2, <1>4, NameIs, JoinedIs
  <2>2. l \in Nat /\ m \in Nat /\ l >= 1 /\ m >= 2
    BY <1>2, <1>4
  <2>3. l < m
    BY <2>1, <2>2
  <2>4. /\ \A i \in 1..l : b[i] = o[i]
        /\ l # 1 => b[l + 1] = Slash
        /\ \A i \in (l + 1)..m : (l # 1 => i # l + 1) => b[i] # Slash
    <3>1. /\ \A i \in 1..Len(o) : b[i] = o[i]
          /\ Len(o) # 1 => b[Len(o) + 1] = Slash
          /\ \A i \in (Len(o) + 1)..Len(b) : (Len(o) # 1 => i # Len(o) + 1) => b[i] # Slash
      <4>1. Len(o) >= 1 /\ o \in Seq(PathBytes) /\ s \in Names
        BY <1>2
      <4>2. /\ \A i \in 1..Len(o) : Joined(o, s)[i] = o[i]
            /\ Len(o) # 1 => Joined(o, s)[Len(o) + 1] = Slash
            /\ \A i \in (Len(o) + 1)..Len(Joined(o, s)) :
                 (Len(o) # 1 => i # Len(o) + 1) => Joined(o, s)[i] # Slash
        BY ONLY <4>1, JoinedIs
      <4> QED  BY <4>2, <1>2
    <3> QED  BY <3>1, <1>4
  <2> QED  BY <2>2, <2>3, <2>4
<1>6. Slashes(b) = {i \in 1..m : b[i] = Slash}
  BY <1>2, <1>4 DEF Slashes
<1>7. CASE n = 1
  <2>1. l = 1 /\ \A i \in 2..m : b[i] # Slash
    BY <1>7, <1>2, <1>4, <1>5
  <2>2. \A i \in Slashes(b) \cup {1} : i = 1
    BY <2>1, <1>5, <1>6
  <2>3. Max(Slashes(b) \cup {1}) = 1
    <3>1. Slashes(b) \cup {1} = {1}
      BY <2>2
    <3>2. {1} \in SUBSET Int /\ 1 \in {1} /\ \A y \in {1} : y <= 1
      OBVIOUS
    <3> QED  BY <3>1, <3>2, MaxIs
  <2>4. Parent(b) = <<Slash>>
    BY <2>3, <1>4, <1>5 DEF Parent
  <2> QED  BY <2>4, <1>1, <1>2, <1>3, <1>7
<1>8. CASE n # 1
  <2>1. l # 1 /\ l + 1 \in 1..m /\ l + 1 \in Slashes(b)
    BY <1>8, <1>2, <1>4, <1>5, <1>6
  <2>2. \A i \in Slashes(b) \cup {1} : i \in Int /\ i <= l + 1
    <3>1. ASSUME NEW i \in 1..m, b[i] = Slash PROVE i <= l + 1
      BY <3>1, <1>5
    <3> QED  BY <3>1, <1>5, <1>6
  <2>3. Max(Slashes(b) \cup {1}) = l + 1
    <3>1. PICK S : S = Slashes(b) \cup {1}
      OBVIOUS
    <3>2. S \in SUBSET Int /\ l + 1 \in S /\ \A i \in S : i <= l + 1
      BY <2>1, <2>2, <3>1
    <3> QED  BY <3>1, <3>2, MaxIs
  <2>4. Parent(b) = SubSeq(b, 1, l)
    <3>1. l + 1 # 1 /\ (l + 1) - 1 = l /\ ~(m <= 1)
      BY <1>5
    <3> QED  BY <2>3, <3>1, <1>4 DEF Parent
  <2> QED  BY <2>4, <1>1, <1>3, <1>4
<1> QED  BY <1>7, <1>8

LEMMA ResolvedIs ==
  ASSUME NEW o \in Seq(PathBytes)
  PROVE  /\ Resolved(o) \in [ok : BOOLEAN, path : Seq(PathBytes)]
         /\ Resolved(o).ok /\ Resolved(o).path = o
BY DEF Resolved

(* One part of a path: the kernel's buffer spells the names that are meant *)
(* and lash's buffer is the same, or the kernel's is out of room.          *)
Advances(k, names, part) ==
  /\ Part(k, part).ok
  /\ \E g : Spells(Part(k, part), Named(names, part), g)
  /\ Segment(Resolved(k.out), part) = Resolved(Part(k, part).out)
  /\ Len(Part(k, part).out) <= Len(k.out) + 1 + Len(part)
  /\ Len(Named(names, part)) <= Len(names) + 1
OutOfRoom(k, names, part) ==
  /\ Part(k, part) = [k EXCEPT !.ok = FALSE]
  /\ part \in Names /\ Len(Joined(k.out, part)) <= Len(k.out) + 1 + Len(part)
  /\ Len(names) >= MaxComponents \/ Len(Joined(k.out, part)) > Capacity

LEMMA SpellsTypes ==
  ASSUME NEW k, NEW names, NEW h, Spells(k, names, h)
  PROVE  /\ k \in Buffers /\ k.ok \in BOOLEAN /\ k.out \in Seq(PathBytes) /\ k.starts \in Seq(Nat)
         /\ names \in Seq(Names) /\ Len(names) \in Nat /\ Len(k.out) \in Nat /\ Len(k.out) >= 1
         /\ Ladder(h, names) /\ k.out = h[Len(names)] /\ Len(k.starts) = Len(names)
         /\ \A i \in 1..Len(names) : k.starts[i] = Len(h[i - 1])
         /\ Len(names) <= MaxComponents /\ Len(k.out) <= Capacity
<1>1. /\ k \in Buffers /\ names \in Seq(Names) /\ Ladder(h, names)
      /\ k.out = h[Len(names)] /\ Len(k.starts) = Len(names)
      /\ \A i \in 1..Len(names) : k.starts[i] = Len(h[i - 1])
      /\ Len(names) <= MaxComponents /\ Len(k.out) <= Capacity
  BY DEF Spells
<1>2. k.ok \in BOOLEAN /\ k.out \in Seq(PathBytes) /\ k.starts \in Seq(Nat)
  BY <1>1 DEF Buffers
<1>3. Len(names) \in Nat /\ Len(names) \in 0..Len(names)
  BY <1>1
<1>4. Len(h[Len(names)]) \in Nat /\ Len(h[Len(names)]) >= 1
  BY <1>1, <1>3, LadderTypes
<1> QED  BY <1>1, <1>2, <1>3, <1>4

LEMMA StayingAdvances ==
  ASSUME NEW k, NEW names, NEW h, Spells(k, names, h), k.ok, NEW part \in Components,
         Part(k, part) = k, Named(names, part) = names,
         Segment(Resolved(k.out), part) = Resolved(k.out)
  PROVE  Advances(k, names, part)
<1>1. Len(names) \in Nat /\ Len(k.out) \in Nat
  BY SpellsTypes
<1>2. Len(part) \in Nat
  BY DEF Components
<1>3. Len(names) <= Len(names) + 1 /\ Len(k.out) <= Len(k.out) + 1 + Len(part)
  <2>1. PICK a, b, c : a = Len(names) /\ b = Len(k.out) /\ c = Len(part)
    OBVIOUS
  <2>2. a <= a + 1 /\ b <= b + 1 + c
    BY <1>1, <1>2, <2>1
  <2> QED  BY <2>1, <2>2
<1> QED  BY <1>3 DEF Advances

LEMMA ParentAdvances ==
  ASSUME NEW k, NEW names, NEW h, Spells(k, names, h), k.ok, NEW part \in Components,
         part = DotDot, names # <<>>
  PROVE  Advances(k, names, part)
<1>1. PICK n : n = Len(names) /\ n \in Nat /\ n >= 1
  BY SpellsTypes
<1>2. /\ k \in Buffers /\ k.out \in Seq(PathBytes) /\ k.starts \in Seq(Nat) /\ Len(k.starts) = n
      /\ names \in Seq(Names) /\ Ladder(h, names) /\ k.out = h[n]
      /\ \A i \in 1..n : k.starts[i] = Len(h[i - 1])
      /\ n <= MaxComponents /\ Len(k.out) <= Capacity /\ MaxComponents \in Nat /\ Capacity \in Nat
  BY <1>1, SpellsTypes, PathsAssumption
<1>3. k.starts # <<>> /\ Last(k.starts) = Len(h[n - 1])
  <2>1. k.starts # <<>>
    BY <1>1, <1>2
  <2>2. n \in 1..n
    BY <1>1
  <2> QED  BY <2>1, <2>2, <1>2 DEF Last
<1>4. PICK g : Ladder(g, Front(names)) /\ \A i \in 0..(n - 1) : g[i] = h[i]
  BY <1>1, <1>2, LadderDown
<1>5. /\ Front(names) \in Seq(Names) /\ Len(Front(names)) = n - 1
      /\ Front(k.starts) \in Seq(Nat) /\ Len(Front(k.starts)) = n - 1
      /\ \A i \in 1..(n - 1) : Front(k.starts)[i] = k.starts[i]
  BY <1>1, <1>2, <1>3, FrontOf
<1>6. PICK p : p = [k EXCEPT !.out = SubSeq(k.out, 1, Last(k.starts)), !.starts = Front(k.starts)]
  OBVIOUS
<1>7. part \notin {<<>>, Dot}
  BY DEF DotDot, Dot
<1>8. Part(k, part) = p
  BY <1>3, <1>6, <1>7 DEF Part
<1>9. Named(names, part) = Front(names)
  BY <1>7 DEF Named
<1>10. SubSeq(h[n], 1, Len(h[n - 1])) = h[n - 1] /\ Parent(h[n]) = h[n - 1]
  BY <1>1, <1>2, UpFromLadder
<1>11. p.ok /\ p.out = h[n - 1] /\ p.starts = Front(k.starts)
  BY <1>2, <1>3, <1>6, <1>10 DEF Buffers
<1>12. PICK o, b : o = h[n - 1] /\ b = h[n]
  OBVIOUS
<1>13. /\ o \in Seq(PathBytes) /\ Len(o) \in Nat /\ Len(o) < Len(b) /\ Len(b) \in Nat
  <2>1. n \in 1..Len(names) /\ n - 1 \in 0..Len(names) /\ n \in 0..Len(names)
    BY <1>1
  <2> QED  BY <2>1, <1>2, <1>12, LadderTypes
<1>14. p \in Buffers
  <2>1. p.ok \in BOOLEAN /\ p.out \in Seq(PathBytes) /\ p.starts \in Seq(Nat)
    BY <1>5, <1>11, <1>12, <1>13
  <2>2. p \in [ok : {p.ok}, out : {p.out}, starts : {p.starts}]
    BY <1>2, <1>6 DEF Buffers
  <2> QED  BY <2>1, <2>2 DEF Buffers
<1>15. Len(o) <= Capacity /\ n - 1 <= MaxComponents
  <2>1. PICK x, y : x = Len(o) /\ y = Len(b)
    OBVIOUS
  <2>2. x <= Capacity
    BY <1>2, <1>12, <1>13, <2>1
  <2> QED  BY <1>1, <1>2, <2>1, <2>2
<1>16. Spells(p, Front(names), g)
  <2>1. \A i \in 1..(n - 1) : p.starts[i] = Len(g[i - 1])
    <3>1. \A i \in 1..(n - 1) : i \in 1..n /\ i - 1 \in 0..(n - 1)
      BY <1>1
    <3> QED  BY <3>1, <1>2, <1>4, <1>5, <1>11
  <2>2. p.out = g[n - 1]
    <3>1. n - 1 \in 0..(n - 1)
      BY <1>1
    <3> QED  BY <3>1, <1>4, <1>11
  <2> QED  BY <2>1, <2>2, <1>4, <1>5, <1>11, <1>12, <1>14, <1>15 DEF Spells
<1>17. Segment(Resolved(k.out), part) = Resolved(p.out)
  <2>1. Resolved(k.out).ok /\ Resolved(k.out).path = k.out
    BY <1>2, ResolvedIs
  <2>2. Segment(Resolved(k.out), part) = Resolved(Parent(k.out))
    BY <2>1, <1>7 DEF Segment
  <2> QED  BY <2>2, <1>2, <1>10, <1>11
<1>18. Len(part) \in Nat
  BY DEF Components
<1>19. Len(p.out) <= Len(k.out) + 1 + Len(part) /\ Len(Front(names)) <= Len(names) + 1
  <2>1. PICK x, y, z : x = Len(o) /\ y = Len(b) /\ z = Len(part)
    OBVIOUS
  <2>2. x <= y + 1 + z
    BY <1>13, <1>18, <2>1
  <2>3. n - 1 <= n + 1
    BY <1>1
  <2> QED  BY <2>1, <2>2, <2>3, <1>1, <1>2, <1>5, <1>11, <1>12
<1> QED  BY <1>8, <1>9, <1>11, <1>16, <1>17, <1>19 DEF Advances

LEMMA NameAdvances ==
  ASSUME NEW k, NEW names, NEW h, Spells(k, names, h), k.ok, NEW part \in Names
  PROVE  Advances(k, names, part) \/ OutOfRoom(k, names, part)
<1>1. PICK n : n = Len(names) /\ n \in Nat
  BY SpellsTypes
<1>2. /\ k \in Buffers /\ k.out \in Seq(PathBytes) /\ k.starts \in Seq(Nat) /\ Len(k.starts) = n
      /\ names \in Seq(Names) /\ Ladder(h, names) /\ k.out = h[n]
      /\ \A i \in 1..n : k.starts[i] = Len(h[i - 1])
      /\ Len(k.out) \in Nat /\ Len(k.out) >= 1
      /\ n <= MaxComponents /\ Len(k.out) <= Capacity /\ MaxComponents \in Nat /\ Capacity \in Nat
  BY <1>1, SpellsTypes, PathsAssumption
<1>3. part \notin {<<>>, Dot} /\ part # DotDot /\ part \in Components
  BY DEF Names
<1>4. PICK j, l, a, b : j = Joined(k.out, part) /\ l = Len(j) /\ a = Len(k.out) /\ b = Len(part)
  OBVIOUS
<1>5. /\ j \in Seq(PathBytes) /\ l \in Nat /\ a \in Nat /\ a >= 1 /\ b \in Nat /\ b >= 1
      /\ a = 1 => l = a + b
      /\ a # 1 => l = a + 1 + b
  <2>1. /\ j \in Seq(PathBytes)
        /\ a = 1 => l = a + b
        /\ a # 1 => l = a + 1 + b
    BY <1>2, <1>4, JoinedIs
  <2>2. b \in Nat /\ b >= 1 /\ a \in Nat /\ a >= 1 /\ l \in Nat
    BY <2>1, <1>2, <1>4, NameIs
  <2> QED  BY <2>1, <2>2
<1>6. CASE Len(k.starts) >= MaxComponents \/ l > Capacity
  <2>1. Part(k, part) = [k EXCEPT !.ok = FALSE]
    BY <1>3, <1>4, <1>6 DEF Part
  <2>2. (n >= MaxComponents \/ l > Capacity) /\ l <= a + 1 + b
    BY <1>2, <1>5, <1>6
  <2> QED  BY <2>1, <2>2, <1>1, <1>4 DEF OutOfRoom
<1>7. CASE ~(Len(k.starts) >= MaxComponents \/ l > Capacity)
  <2>1. PICK p : p = [k EXCEPT !.out = j, !.starts = Append(k.starts, Len(k.out))]
    OBVIOUS
  <2>2. Part(k, part) = p
    BY <1>3, <1>4, <1>7, <2>1 DEF Part
  <2>3. p.ok /\ p.out = j /\ p.starts = Append(k.starts, a)
    BY <1>2, <1>4, <2>1 DEF Buffers
  <2>4. /\ Append(k.starts, a) \in Seq(Nat) /\ Len(Append(k.starts, a)) = n + 1
        /\ Append(k.starts, a)[n + 1] = a /\ \A i \in 1..n : Append(k.starts, a)[i] = k.starts[i]
    BY <1>2, <1>5, AppendProperties
  <2>5. p \in Buffers
    <3>1. p.ok \in BOOLEAN /\ p.out \in Seq(PathBytes) /\ p.starts \in Seq(Nat)
      BY <1>5, <2>3, <2>4
    <3>2. p \in [ok : {p.ok}, out : {p.out}, starts : {p.starts}]
      BY <1>2, <2>1 DEF Buffers
    <3> QED  BY <3>1, <3>2 DEF Buffers
  <2>6. PICK more : more = Append(names, part)
    OBVIOUS
  <2>7. more \in Seq(Names) /\ Len(more) = n + 1 /\ Named(names, part) = more
    BY <1>1, <1>2, <1>3, <2>6, AppendProperties DEF Named
  <2>8. PICK g : Ladder(g, more) /\ g[n + 1] = j /\ \A i \in 0..n : g[i] = h[i]
    <3>1. \E g : /\ Ladder(g, Append(names, part)) /\ g[Len(names) + 1] = Joined(h[Len(names)], part)
                 /\ \A i \in 0..Len(names) : g[i] = h[i]
      BY <1>2, LadderUp
    <3> QED  BY <3>1, <1>1, <1>2, <1>4, <2>6
  <2>9. Spells(p, more, g)
    <3>1. ASSUME NEW i \in 1..(n + 1) PROVE p.starts[i] = Len(g[i - 1])
      <4>1. CASE i = n + 1
        <5>1. i - 1 = n /\ n \in 0..n
          BY <4>1, <1>1
        <5> QED  BY <4>1, <5>1, <2>3, <2>4, <2>8, <1>2, <1>4
      <4>2. CASE i # n + 1
        <5>1. i \in 1..n /\ i - 1 \in 0..n
          BY <4>2, <1>1
        <5> QED  BY <5>1, <2>3, <2>4, <2>8, <1>2
      <4> QED  BY <4>1, <4>2
    <3>2. n + 1 <= MaxComponents /\ Len(p.out) <= Capacity
      BY <1>1, <1>2, <1>4, <1>5, <1>7, <2>3
    <3> QED  BY <3>1, <3>2, <2>3, <2>4, <2>5, <2>7, <2>8 DEF Spells
  <2>10. Segment(Resolved(k.out), part) = Resolved(j)
    <3>1. Resolved(k.out).ok /\ Resolved(k.out).path = k.out
      BY <1>2, ResolvedIs
    <3>2. Extended(k.out, part) = j
      <4>1. CASE a = 1
        <5>1. a = 1 /\ ~(a > 1)
          BY <4>1
        <5>2. Len(k.out) = 1 /\ ~(Len(k.out) > 1)
          BY <5>1, <1>4, Zenon
        <5> QED  BY <5>2, <1>4 DEF Extended, Joined
      <4>2. CASE a # 1
        <5>1. a > 1 /\ n # 0 /\ n \in 0..Len(names)
          <6>1. a > 1
            BY <4>2, <1>5
          <6>2. n # 0
            <7>1. 0 \in 0..Len(names) /\ (Len(h[0]) = 1 <=> 0 = 0)
              BY <1>2, LadderTypes
            <7> QED  BY <7>1, <4>2, <1>2, <1>4
          <6> QED  BY <6>1, <6>2, <1>1
        <5>2. Last(k.out) # Slash
          <6>1. PICK o, s : o = h[n - 1] /\ s = names[n]
            OBVIOUS
          <6>2. n \in 1..Len(names) /\ n - 1 \in 0..Len(names)
            BY <5>1, <1>1
          <6>3. o \in Seq(PathBytes) /\ Len(o) \in Nat /\ Len(o) >= 1 /\ s \in Names
            BY <6>1, <6>2, <1>2, LadderTypes
          <6>4. k.out = Joined(o, s)
            BY <6>1, <6>2, <1>2 DEF Ladder
          <6>5. /\ Len(o) = 1 => a = Len(o) + Len(s)
                /\ Len(o) # 1 => a = Len(o) + 1 + Len(s)
                /\ \A i \in (Len(o) + 1)..a : (Len(o) # 1 => i # Len(o) + 1) => k.out[i] # Slash
            BY <6>3, <6>4, <1>4, JoinedIs
          <6>6. Len(s) \in Nat /\ Len(s) >= 1
            BY <6>3, NameIs
          <6>7. a \in (Len(o) + 1)..a /\ (Len(o) # 1 => a # Len(o) + 1)
            <7>1. PICK x, y : x = Len(o) /\ y = Len(s)
              OBVIOUS
            <7>2. a \in (x + 1)..a /\ (x # 1 => a # x + 1)
              BY <6>3, <6>5, <6>6, <7>1, <1>5
            <7> QED  BY <7>1, <7>2
          <6> QED  BY <6>5, <6>7, <1>4 DEF Last
        <5> QED  BY <4>2, <5>1, <5>2, <1>4 DEF Extended, Joined
      <4> QED  BY <4>1, <4>2
    <3>3. ~(Len(Extended(k.out, part)) > Capacity)
      BY <3>2, <1>4, <1>7
    <3> QED  BY <3>1, <3>2, <3>3, <1>3 DEF Segment
  <2>11. Len(p.out) <= Len(k.out) + 1 + Len(part) /\ Len(more) <= Len(names) + 1
    <3>1. l <= a + 1 + b
      BY <1>5
    <3> QED  BY <3>1, <2>3, <2>7, <1>1, <1>4
  <2> QED  BY <2>2, <2>3, <2>7, <2>9, <2>10, <2>11 DEF Advances
<1> QED  BY <1>6, <1>7

LEMMA PartAdvances ==
  ASSUME NEW k, NEW names, NEW h, Spells(k, names, h), k.ok, NEW part \in Components
  PROVE  Advances(k, names, part) \/ OutOfRoom(k, names, part)
<1>1. /\ names \in Seq(Names) /\ k.out \in Seq(PathBytes) /\ k.starts \in Seq(Nat)
      /\ Len(k.starts) = Len(names) /\ k.out = h[Len(names)] /\ h[0] = <<Slash>>
  BY SpellsTypes DEF Ladder
<1>2. Resolved(k.out).ok /\ Resolved(k.out).path = k.out
  BY <1>1, ResolvedIs
<1>3. CASE part \in {<<>>, Dot}
  <2>1. Part(k, part) = k
    BY <1>3 DEF Part, Dot, DotDot
  <2>2. Named(names, part) = names
    BY <1>3 DEF Named, Dot, DotDot
  <2>3. Segment(Resolved(k.out), part) = Resolved(k.out)
    <3>1. part # DotDot
      BY <1>3 DEF Dot, DotDot
    <3> QED  BY <1>3, <3>1 DEF Segment
  <2> QED  BY <2>1, <2>2, <2>3, StayingAdvances
<1>4. CASE part = DotDot /\ names = <<>>
  <2>1. part \notin {<<>>, Dot} /\ k.starts = <<>> /\ Len(k.out) = 1 /\ Len(k.out) <= 1
    <3>1. part \notin {<<>>, Dot}
      BY <1>4 DEF DotDot, Dot
    <3>2. Len(names) = 0
      BY <1>4
    <3>3. k.starts = <<>>
      BY <1>1, <3>2
    <3>4. k.out = <<Slash>>
      BY <1>1, <3>2
    <3>5. Len(<<Slash>>) = 1
      OBVIOUS
    <3> QED  BY <3>1, <3>3, <3>4, <3>5
  <2>2. Part(k, part) = k /\ Named(names, part) = names
    BY <2>1, <1>4 DEF Part, Named
  <2>3. Segment(Resolved(k.out), part) = Resolved(k.out)
    <3>1. Parent(k.out) = k.out
      BY <2>1 DEF Parent
    <3> QED  BY <2>1, <3>1, <1>2, <1>4 DEF Segment
  <2> QED  BY <2>2, <2>3, StayingAdvances
<1>5. CASE part = DotDot /\ names # <<>>
  BY <1>5, ParentAdvances
<1>6. CASE part \notin {<<>>, Dot, DotDot}
  <2>1. part \in Names
    BY <1>6 DEF Names
  <2> QED  BY <2>1, NameAdvances
<1> QED  BY <1>3, <1>4, <1>5, <1>6

-----------------------------------------------------------------------------
(* The loops, as the states they go through.                               *)
Cutting(g, path) ==
  /\ g \in [0..Len(path) -> PartLists] /\ g[0] = <<<<>>>>
  /\ \A n \in 1..Len(path) : g[n] = SplitByte(g[n - 1], path[n])
Spellers == {k \in Buffers : \E names : \E h : Spells(k, names, h)}
Going(f, k, parts) ==
  /\ f \in [0..Len(parts) -> Spellers] /\ f[0] = k
  /\ \A n \in 1..Len(parts) : f[n] = Part(f[n - 1], parts[n])
Answers == [ok : BOOLEAN, path : Seq(PathBytes)]
Following(f, l, parts) ==
  /\ f \in [0..Len(parts) -> Answers] /\ f[0] = l
  /\ \A n \in 1..Len(parts) : f[n] = Segment(f[n - 1], parts[n])
Naming(f, parts) ==
  /\ f \in [0..Len(parts) -> Seq(Names)] /\ f[0] = <<>>
  /\ \A n \in 1..Len(parts) : f[n] = Named(f[n - 1], parts[n])
Spelling(f, names) ==
  /\ f \in [0..Len(names) -> Seq(PathBytes)] /\ f[0] = <<>>
  /\ \A n \in 1..Len(names) : f[n] = Append(f[n - 1], Slash) \o names[n]

LEMMA SplitByteIs ==
  ASSUME NEW p \in PartLists, NEW b \in PathBytes
  PROVE  /\ SplitByte(p, b) \in PartLists
         /\ Len(p) \in Nat /\ Len(p) >= 1 /\ Len(p[Len(p)]) \in Nat
         /\ b = Slash =>
              /\ Len(SplitByte(p, b)) = Len(p) + 1 /\ SplitByte(p, b)[Len(p) + 1] = <<>>
              /\ \A i \in 1..Len(p) : SplitByte(p, b)[i] = p[i]
         /\ b # Slash =>
              /\ Len(SplitByte(p, b)) = Len(p)
              /\ SplitByte(p, b)[Len(p)] = Append(p[Len(p)], b)
              /\ \A i \in 1..(Len(p) - 1) : SplitByte(p, b)[i] = p[i]
<1>1. p \in Seq(Components) /\ p # <<>>
  BY DEF PartLists
<1>2. PICK n, last, front : n = Len(p) /\ last = p[n] /\ front = Front(p)
  OBVIOUS
<1>3. /\ n \in Nat /\ n >= 1 /\ n \in 1..n /\ last \in Components
      /\ front \in Seq(Components) /\ Len(front) = n - 1 /\ \A i \in 1..(n - 1) : front[i] = p[i]
  BY <1>1, <1>2, FrontOf
<1>4. last \in Seq(PathBytes) /\ Len(last) \in Nat /\ \A i \in 1..Len(last) : last[i] # Slash
  BY <1>3 DEF Components
<1>5. CASE b = Slash
  <2>1. PICK e : e = <<>>
    OBVIOUS
  <2>2. e \in Components
    BY <2>1 DEF Components
  <2>3. PICK q : q = Append(p, e)
    OBVIOUS
  <2>4. q \in Seq(Components) /\ Len(q) = n + 1 /\ q[n + 1] = e /\ \A i \in 1..n : q[i] = p[i]
    BY <2>2, <2>3, <1>1, <1>2, AppendProperties
  <2>5. SplitByte(p, b) = q
    BY <2>1, <2>3, <1>5 DEF SplitByte
  <2>6. q \in PartLists
    BY <2>4, <1>3 DEF PartLists
  <2> QED  BY <1>5, <2>1, <2>4, <2>5, <2>6, <1>2, <1>3, <1>4
<1>6. CASE b # Slash
  <2>1. PICK e : e = Append(last, b)
    OBVIOUS
  <2>2. /\ e \in Seq(PathBytes) /\ Len(e) = Len(last) + 1 /\ e[Len(last) + 1] = b
        /\ \A i \in 1..Len(last) : e[i] = last[i]
    BY <2>1, <1>4, AppendProperties
  <2>3. e \in Components
    <3>1. \A i \in 1..(Len(last) + 1) : i = Len(last) + 1 \/ i \in 1..Len(last)
      BY <1>4
    <3>2. \A i \in 1..Len(e) : e[i] # Slash
      BY <3>1, <2>2, <1>4, <1>6
    <3> QED  BY <2>2, <3>2 DEF Components
  <2>4. PICK q : q = Append(front, e)
    OBVIOUS
  <2>5. q \in Seq(Components) /\ Len(q) = n /\ q[n] = e /\ \A i \in 1..(n - 1) : q[i] = p[i]
    <3>1. /\ q \in Seq(Components) /\ Len(q) = Len(front) + 1 /\ q[Len(front) + 1] = e
          /\ \A i \in 1..Len(front) : q[i] = front[i]
      BY <2>3, <2>4, <1>3, AppendProperties
    <3>2. (n - 1) + 1 = n
      BY <1>3
    <3> QED  BY <3>1, <3>2, <1>3
  <2>6. SplitByte(p, b) = q
    BY <2>1, <2>4, <1>2, <1>6 DEF SplitByte, Last
  <2>7. q \in PartLists
    BY <2>5, <1>3 DEF PartLists
  <2> QED  BY <1>6, <2>1, <2>5, <2>6, <2>7, <1>2, <1>3, <1>4
<1> QED  BY <1>5, <1>6

LEMMA FirstCut == <<<<>>>> \in PartLists
<1>1. PICK e : e = <<>>
  OBVIOUS
<1>2. e \in Components
  BY <1>1 DEF Components
<1>3. <<e>> \in Seq(Components) /\ <<e>> # <<>>
  BY <1>2
<1> QED  BY <1>1, <1>3 DEF PartLists

LEMMA SplitIs ==
  ASSUME NEW path \in Seq(PathBytes)
  PROVE  \E g : Cutting(g, path) /\ Split(path) = g[Len(path)]
<1> DEFINE L == Len(path)
           Is(f) == f = [n \in 0..L |-> IF n = 0 THEN <<<<>>>> ELSE SplitByte(f[n - 1], path[n])]
<1>1. L \in Nat /\ \A n \in 1..L : path[n] \in PathBytes
  OBVIOUS
<1>2. Split(path) = (CHOOSE f : Is(f))[L]
  BY DEF Split
<1>3. <<<<>>>> \in PartLists /\ \A a \in PartLists : \A n \in 1..L : SplitByte(a, path[n]) \in PartLists
  BY <1>1, FirstCut, SplitByteIs
<1>4. PICK step : step = [n \in 1..L |-> [a \in PartLists |-> SplitByte(a, path[n])]]
  OBVIOUS
<1>5. step \in Steps(L, PartLists)
  BY <1>3, <1>4 DEF Steps
<1> HIDE DEF L, Is
<1>6. PICK f : Chain(f, L, PartLists, <<<<>>>>, step)
  BY <1>1, <1>3, <1>5, Recursion
<1>7. f \in [0..L -> PartLists] /\ f[0] = <<<<>>>> /\ \A n \in 1..L : f[n] = step[n][f[n - 1]]
  BY <1>6 DEF Chain
<1>8. ASSUME NEW n \in 1..L PROVE f[n] = SplitByte(f[n - 1], path[n])
  <2>1. n - 1 \in 0..L
    BY <1>1
  <2>2. f[n - 1] \in PartLists
    BY <2>1, <1>7
  <2> QED  BY <2>2, <1>4, <1>7
<1>9. Is(f)
  <2>1. ASSUME NEW n \in 0..L PROVE f[n] = IF n = 0 THEN <<<<>>>> ELSE SplitByte(f[n - 1], path[n])
    <3>1. CASE n = 0
      BY <3>1, <1>7
    <3>2. CASE n # 0
      <4>1. n \in 1..L
        BY <3>2, <1>1
      <4> QED  BY <3>2, <4>1, <1>8
    <3> QED  BY <3>1, <3>2
  <2> QED  BY <2>1, <1>7 DEF Is
<1>10. PICK g : g = CHOOSE e : Is(e)
  OBVIOUS
<1>11. Is(g)
  BY <1>9, <1>10
<1>12. g[0] = <<<<>>>> /\ \A n \in 1..L : g[n] = SplitByte(g[n - 1], path[n])
  <2>1. \A n \in 0..L : g[n] = IF n = 0 THEN <<<<>>>> ELSE SplitByte(g[n - 1], path[n])
    BY <1>11 DEF Is
  <2>2. 0 \in 0..L /\ \A n \in 1..L : n \in 0..L /\ n # 0
    BY <1>1
  <2> QED  BY <2>1, <2>2
<1> DEFINE T == {n \in 0..L : g[n] \in PartLists}
<1>13. 0 \in T
  <2>1. 0 \in 0..L
    BY <1>1
  <2>2. g[0] \in PartLists
    BY <1>3, <1>12
  <2> QED  BY <2>1, <2>2
<1>14. ASSUME NEW n \in 1..L, n - 1 \in T PROVE n \in T
  <2>1. n \in 0..L /\ g[n - 1] \in PartLists
    BY <1>1, <1>14
  <2> QED  BY <2>1, <1>3, <1>12
<1> HIDE DEF T
<1>15. \A n \in 0..L : n \in T
  BY <1>1, <1>13, <1>14, UpTo
<1>16. g \in [0..L -> PartLists]
  <2>1. \A n \in 0..L : g[n] \in PartLists
    BY <1>15 DEF T
  <2>2. g = [n \in 0..L |-> g[n]]
    BY <1>11 DEF Is
  <2> QED  BY <2>1, <2>2
<1>17. Cutting(g, path)
  BY <1>12, <1>16 DEF Cutting, L
<1> QED  BY <1>2, <1>10, <1>17 DEF L

LEMMA SplitType ==
  ASSUME NEW path \in Seq(PathBytes)
  PROVE  /\ Split(path) \in Seq(Components) /\ Len(Split(path)) \in Nat /\ Len(Split(path)) >= 1
         /\ \A n \in 1..Len(Split(path)) : Split(path)[n] \in Components
<1>1. PICK g : Cutting(g, path) /\ Split(path) = g[Len(path)]
  BY SplitIs
<1>2. Len(path) \in 0..Len(path)
  OBVIOUS
<1>3. PICK p : p = Split(path) /\ p \in PartLists
  BY <1>1, <1>2 DEF Cutting
<1>4. p \in Seq(Components) /\ p # <<>>
  BY <1>3 DEF PartLists
<1>5. Len(p) \in Nat /\ Len(p) >= 1 /\ \A n \in 1..Len(p) : p[n] \in Components
  BY <1>4
<1> QED  BY <1>3, <1>4, <1>5

LEMMA PartType ==
  ASSUME NEW k \in Spellers, NEW part \in Components PROVE Part(k, part) \in Spellers
<1>1. PICK names, h : Spells(k, names, h)
  BY DEF Spellers
<1>2. k \in Buffers
  BY DEF Spellers
<1>3. CASE ~k.ok
  <2>1. Part(k, part) = k
    BY <1>3 DEF Part
  <2> QED  BY <2>1
<1>4. CASE k.ok /\ Advances(k, names, part)
  <2>1. PICK g : Spells(Part(k, part), Named(names, part), g)
    BY <1>4 DEF Advances
  <2>2. Part(k, part) \in Buffers
    BY <2>1 DEF Spells
  <2> QED  BY <2>1, <2>2 DEF Spellers
<1>5. CASE k.ok /\ OutOfRoom(k, names, part)
  <2>1. PICK p : p = [k EXCEPT !.ok = FALSE]
    OBVIOUS
  <2>2. p \in Buffers /\ p.out = k.out /\ p.starts = k.starts
    BY <1>2, <2>1 DEF Buffers
  <2>3. Spells(p, names, h)
    BY <1>1, <2>2 DEF Spells
  <2> QED  BY <2>1, <2>2, <2>3, <1>5 DEF Spellers, OutOfRoom
<1> QED  BY <1>1, <1>3, <1>4, <1>5, PartAdvances

LEMMA SegmentType ==
  ASSUME NEW l \in Answers, NEW part \in Components PROVE Segment(l, part) \in Answers
<1>1. l.ok \in BOOLEAN /\ l.path \in Seq(PathBytes) /\ part \in Seq(PathBytes)
  BY DEF Answers, Components
<1>2. Refused \in Answers
  BY DEF Refused, Answers
<1>3. \A o \in Seq(PathBytes) : Resolved(o) \in Answers
  BY ResolvedIs DEF Answers
<1>4. Parent(l.path) \in Seq(PathBytes)
  <2>1. PICK o : o = l.path
    OBVIOUS
  <2>2. o \in Seq(PathBytes) /\ Len(o) \in Nat
    BY <1>1, <2>1
  <2>3. <<Slash>> \in Seq(PathBytes)
    BY DEF PathBytes
  <2>4. CASE Len(o) <= 1
    BY <2>1, <2>2, <2>4 DEF Parent
  <2>5. CASE ~(Len(o) <= 1)
    <3>1. PICK S : S = Slashes(o) \cup {1}
      OBVIOUS
    <3>2. S \in SUBSET Int /\ S # {} /\ \A x \in S : 1 <= x /\ x <= Len(o)
      BY <3>1, <2>2, <2>5 DEF Slashes
    <3>3. Max(S) \in S
      <4>1. PICK bound, low : bound = Len(o) /\ low = 1
        OBVIOUS
      <4>2. bound \in Int /\ low \in Int /\ \A x \in S : low <= x /\ x <= bound
        BY <3>2, <2>2, <4>1
      <4> QED  BY <3>2, <4>2, MaxOfBounded
    <3>4. PICK cut : cut = Max(S)
      OBVIOUS
    <3>5. cut \in Int /\ 1 <= cut /\ cut <= Len(o)
      BY <3>2, <3>3, <3>4
    <3>6. cut - 1 \in Nat /\ cut - 1 <= Len(o)
      BY <3>5, <2>2
    <3>7. SubSeq(o, 1, cut - 1) \in Seq(PathBytes)
      BY <3>6, <2>2, PrefixOf
    <3>8. Parent(o) = IF cut = 1 THEN <<Slash>> ELSE SubSeq(o, 1, cut - 1)
      BY <3>1, <3>4, <2>5 DEF Parent
    <3> QED  BY <3>7, <3>8, <2>1, <2>3
  <2> QED  BY <2>1, <2>4, <2>5
<1>5. Extended(l.path, part) \in Seq(PathBytes)
  <2>1. PICK o : o = l.path
    OBVIOUS
  <2>2. o \in Seq(PathBytes) /\ Slash \in PathBytes
    BY <1>1, <2>1 DEF PathBytes
  <2>3. Append(o, Slash) \in Seq(PathBytes)
    BY <2>2, AppendProperties
  <2>4. Append(o, Slash) \o part \in Seq(PathBytes) /\ o \o part \in Seq(PathBytes)
    BY <2>2, <2>3, <1>1, ConcatProperties
  <2> QED  BY <2>1, <2>4 DEF Extended
<1>6. CASE ~l.ok \/ part \in {<<>>, Dot}
  <2>1. ~(l.ok /\ part = DotDot)
    BY <1>6 DEF Dot, DotDot
  <2> QED  BY <1>6, <2>1 DEF Segment
<1>7. CASE ~(~l.ok \/ part \in {<<>>, Dot}) /\ l.ok /\ part = DotDot
  BY <1>3, <1>4, <1>7 DEF Segment
<1>8. CASE ~(~l.ok \/ part \in {<<>>, Dot}) /\ ~(l.ok /\ part = DotDot)
  BY <1>2, <1>3, <1>5, <1>8 DEF Segment
<1> QED  BY <1>6, <1>7, <1>8

LEMMA NamedType ==
  ASSUME NEW names \in Seq(Names), NEW part \in Components PROVE Named(names, part) \in Seq(Names)
<1>1. CASE part \in {<<>>, Dot}
  <2>1. part # DotDot
    BY <1>1 DEF Dot, DotDot
  <2> QED  BY <1>1, <2>1 DEF Named
<1>2. CASE part = DotDot
  <2>1. part \notin {<<>>, Dot}
    BY <1>2 DEF Dot, DotDot
  <2>2. names # <<>> => Front(names) \in Seq(Names)
    BY FrontOf
  <2> QED  BY <1>2, <2>1, <2>2 DEF Named
<1>3. CASE part \notin {<<>>, Dot, DotDot}
  <2>1. part \in Names
    BY <1>3 DEF Names
  <2>2. Append(names, part) \in Seq(Names)
    BY <2>1, AppendProperties
  <2> QED  BY <1>3, <2>2 DEF Named
<1> QED  BY <1>1, <1>2, <1>3

LEMMA PartsIs ==
  ASSUME NEW k \in Spellers, NEW path \in Seq(PathBytes)
  PROVE  \E f : Going(f, k, Split(path)) /\ Parts(k, path) = f[Len(Split(path))]
<1> DEFINE L == Len(Split(path))
           Is(f) == f = [n \in 0..L |-> IF n = 0 THEN k ELSE Part(f[n - 1], Split(path)[n])]
<1>1. L \in Nat /\ \A n \in 1..L : Split(path)[n] \in Components
  BY SplitType
<1>2. Parts(k, path) = (CHOOSE f : Is(f))[L]
  BY DEF Parts
<1>3. k \in Spellers /\ \A a \in Spellers : \A n \in 1..L : Part(a, Split(path)[n]) \in Spellers
  BY <1>1, PartType
<1>4. PICK step : step = [n \in 1..L |-> [a \in Spellers |-> Part(a, Split(path)[n])]]
  OBVIOUS
<1>5. step \in Steps(L, Spellers)
  BY <1>3, <1>4 DEF Steps
<1> HIDE DEF L, Is
<1>6. PICK f : Chain(f, L, Spellers, k, step)
  BY <1>1, <1>3, <1>5, Recursion
<1>7. f \in [0..L -> Spellers] /\ f[0] = k /\ \A n \in 1..L : f[n] = step[n][f[n - 1]]
  BY <1>6 DEF Chain
<1>8. ASSUME NEW n \in 1..L PROVE f[n] = Part(f[n - 1], Split(path)[n])
  <2>1. n - 1 \in 0..L
    BY <1>1
  <2>2. f[n - 1] \in Spellers
    BY <2>1, <1>7
  <2> QED  BY <2>2, <1>4, <1>7
<1>9. Is(f)
  <2>1. ASSUME NEW n \in 0..L PROVE f[n] = IF n = 0 THEN k ELSE Part(f[n - 1], Split(path)[n])
    <3>1. CASE n = 0
      BY <3>1, <1>7
    <3>2. CASE n # 0
      <4>1. n \in 1..L
        BY <3>2, <1>1
      <4> QED  BY <3>2, <4>1, <1>8
    <3> QED  BY <3>1, <3>2
  <2> QED  BY <2>1, <1>7 DEF Is
<1>10. PICK g : g = CHOOSE e : Is(e)
  OBVIOUS
<1>11. Is(g)
  BY <1>9, <1>10
<1>12. g[0] = k /\ \A n \in 1..L : g[n] = Part(g[n - 1], Split(path)[n])
  <2>1. \A n \in 0..L : g[n] = IF n = 0 THEN k ELSE Part(g[n - 1], Split(path)[n])
    BY <1>11 DEF Is
  <2>2. 0 \in 0..L /\ \A n \in 1..L : n \in 0..L /\ n # 0
    BY <1>1
  <2> QED  BY <2>1, <2>2
<1> DEFINE T == {n \in 0..L : g[n] \in Spellers}
<1>13. 0 \in T
  <2>1. 0 \in 0..L
    BY <1>1
  <2>2. g[0] \in Spellers
    BY <1>3, <1>12
  <2> QED  BY <2>1, <2>2
<1>14. ASSUME NEW n \in 1..L, n - 1 \in T PROVE n \in T
  <2>1. n \in 0..L /\ g[n - 1] \in Spellers
    BY <1>1, <1>14
  <2> QED  BY <2>1, <1>3, <1>12
<1> HIDE DEF T
<1>15. \A n \in 0..L : n \in T
  BY <1>1, <1>13, <1>14, UpTo
<1>16. g \in [0..L -> Spellers]
  <2>1. \A n \in 0..L : g[n] \in Spellers
    BY <1>15 DEF T
  <2>2. g = [n \in 0..L |-> g[n]]
    BY <1>11 DEF Is
  <2> QED  BY <2>1, <2>2
<1>17. Going(g, k, Split(path))
  BY <1>12, <1>16 DEF Going, L
<1> QED  BY <1>2, <1>10, <1>17 DEF L

LEMMA SegmentsIs ==
  ASSUME NEW l \in Answers, NEW path \in Seq(PathBytes)
  PROVE  \E f : Following(f, l, Split(path)) /\ Segments(l, path) = f[Len(Split(path))]
<1> DEFINE L == Len(Split(path))
           Is(f) == f = [n \in 0..L |-> IF n = 0 THEN l ELSE Segment(f[n - 1], Split(path)[n])]
<1>1. L \in Nat /\ \A n \in 1..L : Split(path)[n] \in Components
  BY SplitType
<1>2. Segments(l, path) = (CHOOSE f : Is(f))[L]
  BY DEF Segments
<1>3. l \in Answers /\ \A a \in Answers : \A n \in 1..L : Segment(a, Split(path)[n]) \in Answers
  BY <1>1, SegmentType
<1>4. PICK step : step = [n \in 1..L |-> [a \in Answers |-> Segment(a, Split(path)[n])]]
  OBVIOUS
<1>5. step \in Steps(L, Answers)
  BY <1>3, <1>4 DEF Steps
<1> HIDE DEF L, Is
<1>6. PICK f : Chain(f, L, Answers, l, step)
  BY <1>1, <1>3, <1>5, Recursion
<1>7. f \in [0..L -> Answers] /\ f[0] = l /\ \A n \in 1..L : f[n] = step[n][f[n - 1]]
  BY <1>6 DEF Chain
<1>8. ASSUME NEW n \in 1..L PROVE f[n] = Segment(f[n - 1], Split(path)[n])
  <2>1. n - 1 \in 0..L
    BY <1>1
  <2>2. f[n - 1] \in Answers
    BY <2>1, <1>7
  <2> QED  BY <2>2, <1>4, <1>7
<1>9. Is(f)
  <2>1. ASSUME NEW n \in 0..L PROVE f[n] = IF n = 0 THEN l ELSE Segment(f[n - 1], Split(path)[n])
    <3>1. CASE n = 0
      BY <3>1, <1>7
    <3>2. CASE n # 0
      <4>1. n \in 1..L
        BY <3>2, <1>1
      <4> QED  BY <3>2, <4>1, <1>8
    <3> QED  BY <3>1, <3>2
  <2> QED  BY <2>1, <1>7 DEF Is
<1>10. PICK g : g = CHOOSE e : Is(e)
  OBVIOUS
<1>11. Is(g)
  BY <1>9, <1>10
<1>12. g[0] = l /\ \A n \in 1..L : g[n] = Segment(g[n - 1], Split(path)[n])
  <2>1. \A n \in 0..L : g[n] = IF n = 0 THEN l ELSE Segment(g[n - 1], Split(path)[n])
    BY <1>11 DEF Is
  <2>2. 0 \in 0..L /\ \A n \in 1..L : n \in 0..L /\ n # 0
    BY <1>1
  <2> QED  BY <2>1, <2>2
<1> DEFINE T == {n \in 0..L : g[n] \in Answers}
<1>13. 0 \in T
  <2>1. 0 \in 0..L
    BY <1>1
  <2>2. g[0] \in Answers
    BY <1>3, <1>12
  <2> QED  BY <2>1, <2>2
<1>14. ASSUME NEW n \in 1..L, n - 1 \in T PROVE n \in T
  <2>1. n \in 0..L /\ g[n - 1] \in Answers
    BY <1>1, <1>14
  <2> QED  BY <2>1, <1>3, <1>12
<1> HIDE DEF T
<1>15. \A n \in 0..L : n \in T
  BY <1>1, <1>13, <1>14, UpTo
<1>16. g \in [0..L -> Answers]
  <2>1. \A n \in 0..L : g[n] \in Answers
    BY <1>15 DEF T
  <2>2. g = [n \in 0..L |-> g[n]]
    BY <1>11 DEF Is
  <2> QED  BY <2>1, <2>2
<1>17. Following(g, l, Split(path))
  BY <1>12, <1>16 DEF Following, L
<1> QED  BY <1>2, <1>10, <1>17 DEF L

LEMMA NamesInIs ==
  ASSUME NEW path \in Seq(PathBytes)
  PROVE  \E f : Naming(f, Split(path)) /\ NamesIn(path) = f[Len(Split(path))]
<1> DEFINE L == Len(Split(path))
           Is(f) == f = [n \in 0..L |-> IF n = 0 THEN <<>> ELSE Named(f[n - 1], Split(path)[n])]
<1>1. L \in Nat /\ \A n \in 1..L : Split(path)[n] \in Components
  BY SplitType
<1>2. NamesIn(path) = (CHOOSE f : Is(f))[L]
  BY DEF NamesIn
<1>3. <<>> \in Seq(Names) /\ \A a \in Seq(Names) : \A n \in 1..L : Named(a, Split(path)[n]) \in Seq(Names)
  BY <1>1, NamedType
<1>4. PICK step : step = [n \in 1..L |-> [a \in Seq(Names) |-> Named(a, Split(path)[n])]]
  OBVIOUS
<1>5. step \in Steps(L, Seq(Names))
  BY <1>3, <1>4 DEF Steps
<1> HIDE DEF L, Is
<1>6. PICK f : Chain(f, L, Seq(Names), <<>>, step)
  BY <1>1, <1>3, <1>5, Recursion
<1>7. f \in [0..L -> Seq(Names)] /\ f[0] = <<>> /\ \A n \in 1..L : f[n] = step[n][f[n - 1]]
  BY <1>6 DEF Chain
<1>8. ASSUME NEW n \in 1..L PROVE f[n] = Named(f[n - 1], Split(path)[n])
  <2>1. n - 1 \in 0..L
    BY <1>1
  <2>2. f[n - 1] \in Seq(Names)
    BY <2>1, <1>7
  <2> QED  BY <2>2, <1>4, <1>7
<1>9. Is(f)
  <2>1. ASSUME NEW n \in 0..L PROVE f[n] = IF n = 0 THEN <<>> ELSE Named(f[n - 1], Split(path)[n])
    <3>1. CASE n = 0
      BY <3>1, <1>7
    <3>2. CASE n # 0
      <4>1. n \in 1..L
        BY <3>2, <1>1
      <4> QED  BY <3>2, <4>1, <1>8
    <3> QED  BY <3>1, <3>2
  <2> QED  BY <2>1, <1>7 DEF Is
<1>10. PICK g : g = CHOOSE e : Is(e)
  OBVIOUS
<1>11. Is(g)
  BY <1>9, <1>10
<1>12. g[0] = <<>> /\ \A n \in 1..L : g[n] = Named(g[n - 1], Split(path)[n])
  <2>1. \A n \in 0..L : g[n] = IF n = 0 THEN <<>> ELSE Named(g[n - 1], Split(path)[n])
    BY <1>11 DEF Is
  <2>2. 0 \in 0..L /\ \A n \in 1..L : n \in 0..L /\ n # 0
    BY <1>1
  <2> QED  BY <2>1, <2>2
<1> DEFINE T == {n \in 0..L : g[n] \in Seq(Names)}
<1>13. 0 \in T
  <2>1. 0 \in 0..L
    BY <1>1
  <2>2. g[0] \in Seq(Names)
    BY <1>3, <1>12
  <2> QED  BY <2>1, <2>2
<1>14. ASSUME NEW n \in 1..L, n - 1 \in T PROVE n \in T
  <2>1. n \in 0..L /\ g[n - 1] \in Seq(Names)
    BY <1>1, <1>14
  <2> QED  BY <2>1, <1>3, <1>12
<1> HIDE DEF T
<1>15. \A n \in 0..L : n \in T
  BY <1>1, <1>13, <1>14, UpTo
<1>16. g \in [0..L -> Seq(Names)]
  <2>1. \A n \in 0..L : g[n] \in Seq(Names)
    BY <1>15 DEF T
  <2>2. g = [n \in 0..L |-> g[n]]
    BY <1>11 DEF Is
  <2> QED  BY <2>1, <2>2
<1>17. Naming(g, Split(path))
  BY <1>12, <1>16 DEF Naming, L
<1> QED  BY <1>2, <1>10, <1>17 DEF L

LEMMA SpelledStep ==
  ASSUME NEW o \in Seq(PathBytes), NEW s \in Names PROVE Append(o, Slash) \o s \in Seq(PathBytes)
<1>1. Slash \in PathBytes /\ s \in Seq(PathBytes)
  BY NameIs DEF PathBytes
<1>2. Append(o, Slash) \in Seq(PathBytes)
  BY <1>1, AppendProperties
<1> QED  BY <1>1, <1>2, ConcatProperties

LEMMA SpelledIs ==
  ASSUME NEW names \in Seq(Names), names # <<>>
  PROVE  \E f : Spelling(f, names) /\ Spelled(names) = f[Len(names)]
<1> DEFINE L == Len(names)
           Is(f) == f = [n \in 0..L |-> IF n = 0 THEN <<>> ELSE Append(f[n - 1], Slash) \o names[n]]
<1>1. L \in Nat /\ \A n \in 1..L : names[n] \in Names
  OBVIOUS
<1>2. Spelled(names) = (CHOOSE f : Is(f))[L]
  BY DEF Spelled
<1>3. <<>> \in Seq(PathBytes) /\ \A a \in Seq(PathBytes) : \A n \in 1..L : Append(a, Slash) \o names[n] \in Seq(PathBytes)
  BY <1>1, SpelledStep
<1>4. PICK step : step = [n \in 1..L |-> [a \in Seq(PathBytes) |-> Append(a, Slash) \o names[n]]]
  OBVIOUS
<1>5. step \in Steps(L, Seq(PathBytes))
  BY <1>3, <1>4 DEF Steps
<1> HIDE DEF L, Is
<1>6. PICK f : Chain(f, L, Seq(PathBytes), <<>>, step)
  BY <1>1, <1>3, <1>5, Recursion
<1>7. f \in [0..L -> Seq(PathBytes)] /\ f[0] = <<>> /\ \A n \in 1..L : f[n] = step[n][f[n - 1]]
  BY <1>6 DEF Chain
<1>8. ASSUME NEW n \in 1..L PROVE f[n] = Append(f[n - 1], Slash) \o names[n]
  <2>1. n - 1 \in 0..L
    BY <1>1
  <2>2. f[n - 1] \in Seq(PathBytes)
    BY <2>1, <1>7
  <2> QED  BY <2>2, <1>4, <1>7
<1>9. Is(f)
  <2>1. ASSUME NEW n \in 0..L PROVE f[n] = IF n = 0 THEN <<>> ELSE Append(f[n - 1], Slash) \o names[n]
    <3>1. CASE n = 0
      BY <3>1, <1>7
    <3>2. CASE n # 0
      <4>1. n \in 1..L
        BY <3>2, <1>1
      <4> QED  BY <3>2, <4>1, <1>8
    <3> QED  BY <3>1, <3>2
  <2> QED  BY <2>1, <1>7 DEF Is
<1>10. PICK g : g = CHOOSE e : Is(e)
  OBVIOUS
<1>11. Is(g)
  BY <1>9, <1>10
<1>12. g[0] = <<>> /\ \A n \in 1..L : g[n] = Append(g[n - 1], Slash) \o names[n]
  <2>1. \A n \in 0..L : g[n] = IF n = 0 THEN <<>> ELSE Append(g[n - 1], Slash) \o names[n]
    BY <1>11 DEF Is
  <2>2. 0 \in 0..L /\ \A n \in 1..L : n \in 0..L /\ n # 0
    BY <1>1
  <2> QED  BY <2>1, <2>2
<1> DEFINE T == {n \in 0..L : g[n] \in Seq(PathBytes)}
<1>13. 0 \in T
  <2>1. 0 \in 0..L
    BY <1>1
  <2>2. g[0] \in Seq(PathBytes)
    BY <1>3, <1>12
  <2> QED  BY <2>1, <2>2
<1>14. ASSUME NEW n \in 1..L, n - 1 \in T PROVE n \in T
  <2>1. n \in 0..L /\ g[n - 1] \in Seq(PathBytes)
    BY <1>1, <1>14
  <2> QED  BY <2>1, <1>3, <1>12
<1> HIDE DEF T
<1>15. \A n \in 0..L : n \in T
  BY <1>1, <1>13, <1>14, UpTo
<1>16. g \in [0..L -> Seq(PathBytes)]
  <2>1. \A n \in 0..L : g[n] \in Seq(PathBytes)
    BY <1>15 DEF T
  <2>2. g = [n \in 0..L |-> g[n]]
    BY <1>11 DEF Is
  <2> QED  BY <2>1, <2>2
<1>17. Spelling(g, names)
  BY <1>12, <1>16 DEF Spelling, L
<1> QED  BY <1>2, <1>10, <1>17 DEF L

-----------------------------------------------------------------------------
(* Cutting a path that is put together from two.                           *)
LEMMA ConcatIs ==
  ASSUME NEW S, NEW p \in Seq(S), NEW q \in Seq(S), NEW a, a = Len(p), NEW b, b = Len(q)
  PROVE  /\ a \in Nat /\ b \in Nat /\ p \o q \in Seq(S) /\ Len(p \o q) = a + b
         /\ \A i \in 1..a : (p \o q)[i] = p[i]
         /\ \A i \in 1..b : (p \o q)[a + i] = q[i]
<1>1. a \in Nat /\ b \in Nat
  OBVIOUS
<1>2. /\ p \o q \in Seq(S) /\ Len(p \o q) = Len(p) + Len(q)
      /\ \A i \in 1..(Len(p) + Len(q)) : (p \o q)[i] = IF i <= Len(p) THEN p[i] ELSE q[i - Len(p)]
  BY ConcatProperties
<1>3. \A i \in 1..(a + b) : (p \o q)[i] = IF i <= a THEN p[i] ELSE q[i - a]
  BY <1>2
<1>4. ASSUME NEW i \in 1..a PROVE (p \o q)[i] = p[i]
  <2>1. i \in 1..(a + b) /\ i <= a
    BY <1>1
  <2> QED  BY <2>1, <1>3
<1>5. ASSUME NEW i \in 1..b PROVE (p \o q)[a + i] = q[i]
  <2>1. a + i \in 1..(a + b) /\ ~(a + i <= a) /\ (a + i) - a = i
    BY <1>1
  <2> QED  BY <2>1, <1>3
<1> QED  BY <1>1, <1>2, <1>4, <1>5

LEMMA SplitByteBehind ==
  ASSUME NEW B \in Seq(Components), NEW q \in PartLists, NEW x \in PathBytes
  PROVE  /\ B \o q \in PartLists
         /\ SplitByte(B \o q, x) = B \o SplitByte(q, x)
<1>1. q \in Seq(Components) /\ q # <<>>
  BY DEF PartLists
<1>2. PICK a, b : a = Len(B) /\ b = Len(q)
  OBVIOUS
<1>3. PICK p : p = B \o q
  OBVIOUS
<1>4. /\ a \in Nat /\ b \in Nat /\ b >= 1 /\ p \in Seq(Components) /\ Len(p) = a + b
      /\ \A i \in 1..a : p[i] = B[i]
      /\ \A i \in 1..b : p[a + i] = q[i]
  <2>1. b >= 1
    BY <1>1, <1>2
  <2> QED  BY <2>1, <1>1, <1>2, <1>3, ConcatIs
<1>5. p \in PartLists
  BY <1>4 DEF PartLists
<1>6. PICK s, t, u : s = SplitByte(p, x) /\ t = SplitByte(q, x) /\ u = B \o t
  OBVIOUS
<1>7. s \in Seq(Components) /\ t \in Seq(Components)
  BY <1>5, <1>6, SplitByteIs DEF PartLists
<1>8. CASE x = Slash
  <2>1. /\ Len(s) = a + b + 1 /\ s[a + b + 1] = <<>> /\ \A i \in 1..(a + b) : s[i] = p[i]
    <3>1. Len(s) = Len(p) + 1 /\ s[Len(p) + 1] = <<>> /\ \A i \in 1..Len(p) : s[i] = p[i]
      BY <1>5, <1>6, <1>8, SplitByteIs
    <3> QED  BY <3>1, <1>4
  <2>2. /\ Len(t) = b + 1 /\ t[b + 1] = <<>> /\ \A i \in 1..b : t[i] = q[i]
    BY <1>2, <1>6, <1>8, SplitByteIs
  <2>3. /\ u \in Seq(Components) /\ Len(u) = a + (b + 1)
        /\ \A i \in 1..a : u[i] = B[i]
        /\ \A i \in 1..(b + 1) : u[a + i] = t[i]
    <3>1. PICK c : c = Len(t)
      OBVIOUS
    <3>2. /\ B \o t \in Seq(Components) /\ Len(B \o t) = a + c
          /\ \A i \in 1..a : (B \o t)[i] = B[i]
          /\ \A i \in 1..c : (B \o t)[a + i] = t[i]
      BY <3>1, <1>2, <1>7, ConcatIs
    <3> QED  BY <3>1, <3>2, <2>2, <1>6
  <2>4. ASSUME NEW i \in 1..(a + b + 1) PROVE s[i] = u[i]
    <3>1. CASE i = a + b + 1
      <4>1. b + 1 \in 1..(b + 1) /\ i = a + (b + 1)
        BY <3>1, <1>4
      <4>2. u[a + (b + 1)] = t[b + 1]
        BY <4>1, <2>3
      <4> QED  BY <4>1, <4>2, <3>1, <2>1, <2>2
    <3>2. CASE i # a + b + 1 /\ i <= a
      <4>1. i \in 1..a /\ i \in 1..(a + b)
        BY <3>2, <1>4
      <4> QED  BY <4>1, <2>1, <2>3, <1>4
    <3>3. CASE i # a + b + 1 /\ ~(i <= a)
      <4>1. PICK j : j = i - a
        OBVIOUS
      <4>2. j \in 1..b /\ j \in 1..(b + 1) /\ i = a + j /\ i \in 1..(a + b)
        BY <3>3, <4>1, <1>4
      <4>3. s[i] = p[a + j] /\ p[a + j] = q[j]
        BY <4>2, <2>1, <1>4
      <4>4. u[a + j] = t[j] /\ t[j] = q[j]
        BY <4>2, <2>2, <2>3
      <4> QED  BY <4>2, <4>3, <4>4
    <3> QED  BY <3>1, <3>2, <3>3
  <2>5. a + (b + 1) = a + b + 1
    BY <1>4
  <2>6. s = u
    BY <2>1, <2>3, <2>4, <2>5, <1>7
  <2> QED  BY <2>6, <1>3, <1>5, <1>6
<1>9. CASE x # Slash
  <2>1. /\ Len(s) = a + b /\ s[a + b] = Append(p[a + b], x) /\ \A i \in 1..(a + b - 1) : s[i] = p[i]
    <3>1. Len(s) = Len(p) /\ s[Len(p)] = Append(p[Len(p)], x) /\ \A i \in 1..(Len(p) - 1) : s[i] = p[i]
      BY <1>5, <1>6, <1>9, SplitByteIs
    <3> QED  BY <3>1, <1>4
  <2>2. /\ Len(t) = b /\ t[b] = Append(q[b], x) /\ \A i \in 1..(b - 1) : t[i] = q[i]
    BY <1>2, <1>6, <1>9, SplitByteIs
  <2>3. /\ u \in Seq(Components) /\ Len(u) = a + b
        /\ \A i \in 1..a : u[i] = B[i]
        /\ \A i \in 1..b : u[a + i] = t[i]
    <3>1. PICK c : c = Len(t)
      OBVIOUS
    <3>2. /\ B \o t \in Seq(Components) /\ Len(B \o t) = a + c
          /\ \A i \in 1..a : (B \o t)[i] = B[i]
          /\ \A i \in 1..c : (B \o t)[a + i] = t[i]
      BY <3>1, <1>2, <1>7, ConcatIs
    <3> QED  BY <3>1, <3>2, <2>2, <1>6
  <2>4. ASSUME NEW i \in 1..(a + b) PROVE s[i] = u[i]
    <3>1. CASE i = a + b
      <4>1. b \in 1..b
        BY <1>4
      <4>2. u[a + b] = t[b] /\ p[a + b] = q[b]
        BY <4>1, <2>3, <1>4
      <4> QED  BY <4>2, <3>1, <2>1, <2>2
    <3>2. CASE i # a + b /\ i <= a
      <4>1. i \in 1..a /\ i \in 1..(a + b - 1)
        BY <3>2, <1>4
      <4> QED  BY <4>1, <2>1, <2>3, <1>4
    <3>3. CASE i # a + b /\ ~(i <= a)
      <4>1. PICK j : j = i - a
        OBVIOUS
      <4>2. j \in 1..(b - 1) /\ j \in 1..b /\ i = a + j /\ i \in 1..(a + b - 1)
        BY <3>3, <4>1, <1>4
      <4>3. s[i] = p[a + j] /\ p[a + j] = q[j]
        BY <4>2, <2>1, <1>4
      <4>4. u[a + j] = t[j] /\ t[j] = q[j]
        BY <4>2, <2>2, <2>3
      <4> QED  BY <4>2, <4>3, <4>4
    <3> QED  BY <3>1, <3>2, <3>3
  <2>5. s = u
    BY <2>1, <2>3, <2>4, <1>7
  <2> QED  BY <2>5, <1>3, <1>5, <1>6
<1> QED  BY <1>8, <1>9

LEMMA SplitJoins ==
  ASSUME NEW base \in Seq(PathBytes), NEW path \in Seq(PathBytes)
  PROVE  /\ Append(base, Slash) \o path \in Seq(PathBytes)
         /\ Split(Append(base, Slash) \o path) = Split(base) \o Split(path)
<1>1. PICK long, a, b : long = Append(base, Slash) \o path /\ a = Len(base) /\ b = Len(path)
  OBVIOUS
<1>2. /\ a \in Nat /\ b \in Nat /\ long \in Seq(PathBytes) /\ Len(long) = (a + 1) + b
      /\ \A i \in 1..a : long[i] = base[i]
      /\ long[a + 1] = Slash
      /\ \A i \in 1..b : long[(a + 1) + i] = path[i]
  <2>1. PICK p : p = Append(base, Slash)
    OBVIOUS
  <2>2. /\ p \in Seq(PathBytes) /\ Len(p) = a + 1 /\ p[a + 1] = Slash /\ \A i \in 1..a : p[i] = base[i]
    <3>1. Slash \in PathBytes
      BY DEF PathBytes
    <3> QED  BY <3>1, <2>1, <1>1, AppendProperties
  <2>3. a \in Nat
    BY <1>1
  <2>4. /\ long \in Seq(PathBytes) /\ b \in Nat /\ Len(long) = (a + 1) + b
        /\ \A i \in 1..(a + 1) : long[i] = p[i]
        /\ \A i \in 1..b : long[(a + 1) + i] = path[i]
    BY <2>1, <2>2, <1>1, ConcatIs
  <2>5. a + 1 \in 1..(a + 1) /\ \A i \in 1..a : i \in 1..(a + 1)
    BY <2>3
  <2> QED  BY <2>2, <2>3, <2>4, <2>5
<1>3. PICK g : Cutting(g, long) /\ Split(long) = g[Len(long)]
  BY <1>2, SplitIs
<1>4. PICK gb : Cutting(gb, base) /\ Split(base) = gb[Len(base)]
  BY SplitIs
<1>5. PICK gp : Cutting(gp, path) /\ Split(path) = gp[Len(path)]
  BY SplitIs
<1>6. /\ g[0] = <<<<>>>> /\ \A n \in 1..((a + 1) + b) : g[n] = SplitByte(g[n - 1], long[n])
      /\ Split(long) = g[(a + 1) + b]
  BY <1>2, <1>3 DEF Cutting
<1>7. /\ gb[0] = <<<<>>>> /\ \A n \in 1..a : gb[n] = SplitByte(gb[n - 1], base[n])
      /\ Split(base) = gb[a]
  BY <1>1, <1>4 DEF Cutting
<1>8. /\ gp[0] = <<<<>>>> /\ \A n \in 1..b : gp[n] = SplitByte(gp[n - 1], path[n])
      /\ Split(path) = gp[b] /\ \A n \in 0..b : gp[n] \in PartLists
  BY <1>1, <1>5 DEF Cutting
<1> DEFINE T == {n \in 0..a : g[n] = gb[n]}
<1>9. \A n \in 0..a : n \in T
  <2>1. 0 \in T
    <3>1. 0 \in 0..a
      BY <1>2
    <3> QED  BY <3>1, <1>6, <1>7
  <2>2. ASSUME NEW n \in 1..a, n - 1 \in T PROVE n \in T
    <3>1. n \in 0..a /\ n \in 1..((a + 1) + b)
      BY <1>2
    <3> QED  BY <3>1, <2>2, <1>2, <1>6, <1>7
  <2> HIDE DEF T
  <2> QED  BY <1>2, <2>1, <2>2, UpTo
<1>10. PICK B : B = Split(base)
  OBVIOUS
<1>11. B \in Seq(Components) /\ B \in PartLists
  BY <1>10, SplitType DEF PartLists
<1>12. g[a + 1] = B \o gp[0]
  <2>1. a \in 0..a /\ a + 1 \in 1..((a + 1) + b) /\ (a + 1) - 1 = a
    BY <1>2
  <2>2. g[a] = B
    BY <2>1, <1>7, <1>9, <1>10
  <2>3. g[a + 1] = SplitByte(B, Slash)
    BY <2>1, <2>2, <1>2, <1>6
  <2>4. PICK e : e = <<>>
    OBVIOUS
  <2>5. SplitByte(B, Slash) = Append(B, e)
    BY <2>4 DEF SplitByte
  <2>6. e \in Components
    BY <2>4 DEF Components
  <2>7. Append(B, e) = B \o <<e>>
    BY <2>6, <1>11, AppendIsConcat
  <2> QED  BY <2>3, <2>4, <2>5, <2>7, <1>8
<1> DEFINE U == {n \in 0..b : g[(a + 1) + n] = B \o gp[n]}
<1>13. \A n \in 0..b : n \in U
  <2>1. 0 \in U
    <3>1. 0 \in 0..b /\ (a + 1) + 0 = a + 1
      BY <1>2
    <3> QED  BY <3>1, <1>12
  <2>2. ASSUME NEW n \in 1..b, n - 1 \in U PROVE n \in U
    <3>1. n \in 0..b /\ n - 1 \in 0..b /\ (a + 1) + n \in 1..((a + 1) + b)
          /\ ((a + 1) + n) - 1 = (a + 1) + (n - 1) /\ path[n] \in PathBytes
      BY <1>1, <1>2
    <3>2. g[(a + 1) + n] = SplitByte(g[(a + 1) + (n - 1)], path[n])
      BY <3>1, <1>2, <1>6
    <3>3. g[(a + 1) + (n - 1)] = B \o gp[n - 1] /\ gp[n - 1] \in PartLists
      BY <2>2, <3>1, <1>8
    <3>4. SplitByte(B \o gp[n - 1], path[n]) = B \o SplitByte(gp[n - 1], path[n])
      BY <3>1, <3>3, <1>11, SplitByteBehind
    <3> QED  BY <3>1, <3>2, <3>3, <3>4, <1>8
  <2> HIDE DEF U
  <2> QED  BY <1>2, <2>1, <2>2, UpTo
<1>14. b \in 0..b
  BY <1>2
<1> QED  BY <1>1, <1>2, <1>6, <1>8, <1>10, <1>13, <1>14

LEMMA SplitEmpty == Split(<<>>) = <<<<>>>>
<1>1. PICK e : e = <<>>
  OBVIOUS
<1>2. e \in Seq(PathBytes) /\ Len(e) = 0
  BY <1>1
<1>3. PICK g : Cutting(g, e) /\ Split(e) = g[Len(e)]
  BY <1>2, SplitIs
<1> QED  BY <1>1, <1>2, <1>3 DEF Cutting

LEMMA SplitName == ASSUME NEW s \in Components PROVE Split(s) = <<s>>
<1>1. PICK L : L = Len(s) /\ L \in Nat
  BY DEF Components
<1>2. s \in Seq(PathBytes) /\ \A i \in 1..L : s[i] \in PathBytes /\ s[i] # Slash
  BY <1>1 DEF Components
<1>3. PICK g : Cutting(g, s) /\ Split(s) = g[Len(s)]
  BY <1>2, SplitIs
<1>4. /\ g[0] = <<<<>>>> /\ \A n \in 1..L : g[n] = SplitByte(g[n - 1], s[n])
      /\ Split(s) = g[L] /\ \A n \in 0..L : g[n] \in PartLists
  BY <1>1, <1>3 DEF Cutting
<1> DEFINE Holds(p, n) == Len(p) = 1 /\ Len(p[1]) = n /\ \A i \in 1..n : p[1][i] = s[i]
           T == {n \in 0..L : Holds(g[n], n)}
<1>5. 0 \in T
  <2>1. 0 \in 0..L
    BY <1>1
  <2>2. Holds(<<<<>>>>, 0)
    OBVIOUS
  <2> QED  BY <2>1, <2>2, <1>4
<1>6. ASSUME NEW n \in 1..L, n - 1 \in T PROVE n \in T
  <2>1. PICK p, x : p = g[n - 1] /\ x = s[n]
    OBVIOUS
  <2>2. n \in 0..L /\ n - 1 \in 0..L /\ n - 1 \in Nat /\ (n - 1) + 1 = n
    BY <1>1
  <2>3. /\ p \in PartLists /\ x \in PathBytes /\ x # Slash /\ g[n] = SplitByte(p, x)
        /\ Len(p) = 1 /\ Len(p[1]) = n - 1 /\ \A i \in 1..(n - 1) : p[1][i] = s[i]
    BY <2>1, <2>2, <1>2, <1>4, <1>6
  <2>4. Len(SplitByte(p, x)) = 1 /\ SplitByte(p, x)[1] = Append(p[1], x)
    BY <2>3, SplitByteIs
  <2>5. p[1] \in Seq(PathBytes)
    BY <2>3 DEF PartLists, Components
  <2>6. PICK q, r : q = p[1] /\ r = Append(q, x)
    OBVIOUS
  <2>7. Len(r) = Len(q) + 1 /\ r[Len(q) + 1] = x /\ \A i \in 1..Len(q) : r[i] = q[i]
    BY <2>3, <2>5, <2>6, AppendProperties
  <2>8. Len(r) = n /\ r[n] = x /\ \A i \in 1..(n - 1) : r[i] = q[i]
    BY <2>2, <2>3, <2>6, <2>7
  <2>9. \A i \in 1..n : i = n \/ i \in 1..(n - 1)
    BY <2>2
  <2>10. \A i \in 1..n : r[i] = s[i]
    BY <2>1, <2>3, <2>6, <2>8, <2>9
  <2>11. Holds(g[n], n)
    BY <2>3, <2>4, <2>6, <2>8, <2>10
  <2> QED  BY <2>2, <2>11
<1> HIDE DEF T
<1>7. \A n \in 0..L : n \in T
  BY <1>1, <1>5, <1>6, UpTo
<1>8. PICK p : p = g[L]
  OBVIOUS
<1>9. L \in 0..L
  BY <1>1
<1>10. p \in PartLists /\ Len(p) = 1 /\ Len(p[1]) = L /\ \A i \in 1..L : p[1][i] = s[i]
  BY <1>4, <1>7, <1>8, <1>9 DEF T
<1>11. p \in Seq(Components) /\ p[1] \in Seq(PathBytes)
  BY <1>10 DEF PartLists, Components
<1>12. p[1] = s
  BY <1>1, <1>2, <1>10, <1>11
<1>13. p = <<s>>
  BY <1>10, <1>11, <1>12
<1> QED  BY <1>4, <1>8, <1>13

(* The length of a path is that of its parts with a slash for each.        *)
Weighs(w, parts, total) ==
  /\ w \in [0..Len(parts) -> Nat] /\ w[0] = 0 /\ w[Len(parts)] = total
  /\ \A i \in 1..Len(parts) : w[i] = w[i - 1] + 1 + Len(parts[i])

LEMMA PathWeight ==
  ASSUME NEW path \in Seq(PathBytes) PROVE \E w : Weighs(w, Split(path), Len(path) + 1)
<1>1. PICK L : L = Len(path) /\ L \in Nat
  OBVIOUS
<1>2. PICK g : Cutting(g, path) /\ Split(path) = g[Len(path)]
  BY SplitIs
<1>3. /\ g[0] = <<<<>>>> /\ \A n \in 1..L : g[n] = SplitByte(g[n - 1], path[n])
      /\ Split(path) = g[L] /\ \A n \in 0..L : g[n] \in PartLists
  BY <1>1, <1>2 DEF Cutting
<1> DEFINE T == {n \in 0..L : \E w : Weighs(w, g[n], n + 1)}
<1>4. 0 \in T
  <2>1. PICK e, p : e = <<>> /\ p = <<e>>
    OBVIOUS
  <2>2. Len(e) = 0 /\ Len(p) = 1 /\ p[1] = e
    BY <2>1
  <2>3. PICK w : w = [i \in 0..1 |-> i]
    OBVIOUS
  <2>4. w \in [0..1 -> Nat] /\ w[0] = 0 /\ w[1] = 1
    BY <2>3
  <2>5. ASSUME NEW i \in 1..1 PROVE w[i] = w[i - 1] + 1 + Len(p[i])
    <3>1. i = 1
      OBVIOUS
    <3>2. w[1] = w[0] + 1 + Len(p[1])
      BY <2>2, <2>4
    <3> QED  BY <3>1, <3>2
  <2>6. Weighs(w, p, 1)
    BY <2>2, <2>4, <2>5 DEF Weighs
  <2>7. 0 \in 0..L /\ 0 + 1 = 1
    BY <1>1
  <2> QED  BY <2>1, <2>6, <2>7, <1>3
<1>5. ASSUME NEW n \in 1..L, n - 1 \in T PROVE n \in T
  <2>1. PICK p, x, q : p = g[n - 1] /\ x = path[n] /\ q = SplitByte(p, x)
    OBVIOUS
  <2>2. n \in 0..L /\ n - 1 \in 0..L /\ (n - 1) + 1 = n /\ n \in Nat
    BY <1>1
  <2>3. p \in PartLists /\ x \in PathBytes /\ g[n] = q
    BY <2>1, <2>2, <1>1, <1>3
  <2>4. PICK w : Weighs(w, p, n)
    BY <2>1, <2>2, <1>5
  <2>5. PICK m : m = Len(p) /\ m \in Nat /\ m >= 1
    BY <2>3, SplitByteIs
  <2>6. /\ w \in [0..m -> Nat] /\ w[0] = 0 /\ w[m] = n
        /\ \A i \in 1..m : w[i] = w[i - 1] + 1 + Len(p[i])
    BY <2>4, <2>5 DEF Weighs
  <2>7. CASE x = Slash
    <3>1. PICK e : e = <<>> /\ Len(e) = 0
      OBVIOUS
    <3>2. Len(q) = m + 1 /\ q[m + 1] = e /\ \A i \in 1..m : q[i] = p[i]
      <4>1. /\ Len(SplitByte(p, x)) = Len(p) + 1 /\ SplitByte(p, x)[Len(p) + 1] = <<>>
            /\ \A i \in 1..Len(p) : SplitByte(p, x)[i] = p[i]
        BY <2>3, <2>7, SplitByteIs
      <4> QED  BY <4>1, <2>1, <2>5, <3>1
    <3>3. PICK v : v = [i \in 0..(m + 1) |-> IF i = m + 1 THEN n + 1 ELSE w[i]]
      OBVIOUS
    <3>4. v[m + 1] = n + 1 /\ \A i \in 0..m : v[i] = w[i] /\ w[i] \in Nat
      <4>1. m + 1 \in 0..(m + 1) /\ \A i \in 0..m : i \in 0..(m + 1) /\ i # m + 1
        BY <2>5
      <4> QED  BY <4>1, <2>6, <3>3
    <3>5. v \in [0..(m + 1) -> Nat]
      <4>1. \A i \in 0..(m + 1) : i = m + 1 \/ i \in 0..m
        BY <2>5
      <4>2. n + 1 \in Nat
        BY <2>2
      <4>3. \A i \in 0..(m + 1) : v[i] \in Nat
        BY <4>1, <4>2, <3>4
      <4> QED  BY <4>3, <3>3
    <3>6. ASSUME NEW i \in 1..(m + 1) PROVE v[i] = v[i - 1] + 1 + Len(q[i])
      <4>1. CASE i = m + 1
        <5>1. i - 1 = m /\ m \in 0..m
          BY <4>1, <2>5
        <5>2. v[i - 1] = n /\ Len(q[i]) = 0 /\ v[i] = n + 1
          BY <4>1, <5>1, <3>1, <3>2, <3>4, <2>6
        <5> QED  BY <5>2, <2>2
      <4>2. CASE i # m + 1
        <5>1. i \in 1..m /\ i \in 0..m /\ i - 1 \in 0..m
          BY <4>2, <2>5
        <5> QED  BY <5>1, <3>2, <3>4, <2>6
      <4> QED  BY <4>1, <4>2
    <3>7. v[0] = 0
      <4>1. 0 \in 0..m
        BY <2>5
      <4> QED  BY <4>1, <3>4, <2>6
    <3>8. Weighs(v, q, n + 1)
      BY <3>2, <3>4, <3>5, <3>6, <3>7 DEF Weighs
    <3> QED  BY <3>8, <2>2, <2>3
  <2>8. CASE x # Slash
    <3>1. Len(q) = m /\ q[m] = Append(p[m], x) /\ \A i \in 1..(m - 1) : q[i] = p[i]
      <4>1. /\ Len(SplitByte(p, x)) = Len(p) /\ SplitByte(p, x)[Len(p)] = Append(p[Len(p)], x)
            /\ \A i \in 1..(Len(p) - 1) : SplitByte(p, x)[i] = p[i]
        BY <2>3, <2>8, SplitByteIs
      <4> QED  BY <4>1, <2>1, <2>5
    <3>2. p[m] \in Seq(PathBytes) /\ Len(p[m]) \in Nat
      <4>1. p \in Seq(Components) /\ m \in 1..m
        BY <2>3, <2>5 DEF PartLists
      <4>2. p[m] \in Components
        BY <4>1, <2>5
      <4> QED  BY <4>2 DEF Components
    <3>3. Len(q[m]) = Len(p[m]) + 1
      BY <3>1, <3>2, <2>3, AppendProperties
    <3>4. PICK v : v = [i \in 0..m |-> IF i = m THEN n + 1 ELSE w[i]]
      OBVIOUS
    <3>5. v[m] = n + 1 /\ \A i \in 0..(m - 1) : v[i] = w[i] /\ w[i] \in Nat
      <4>1. m \in 0..m /\ \A i \in 0..(m - 1) : i \in 0..m /\ i # m
        BY <2>5
      <4> QED  BY <4>1, <2>6, <3>4
    <3>6. v \in [0..m -> Nat]
      BY <2>2, <2>6, <3>4
    <3>7. ASSUME NEW i \in 1..m PROVE v[i] = v[i - 1] + 1 + Len(q[i])
      <4>1. CASE i = m
        <5>1. i - 1 = m - 1 /\ m - 1 \in 0..(m - 1) /\ m \in 1..m
          BY <4>1, <2>5
        <5>2. n = w[m - 1] + 1 + Len(p[m]) /\ w[m - 1] \in Nat
          BY <5>1, <3>5, <2>6
        <5>3. PICK y, z : y = w[m - 1] /\ z = Len(p[m])
          OBVIOUS
        <5>4. n + 1 = y + 1 + (z + 1)
          <6>1. n = y + 1 + z /\ y \in Nat /\ z \in Nat
            BY <5>2, <5>3, <3>2
          <6> QED  BY <6>1
        <5> QED  BY <4>1, <5>1, <5>3, <5>4, <3>3, <3>5
      <4>2. CASE i # m
        <5>1. i \in 1..(m - 1) /\ i \in 0..(m - 1) /\ i - 1 \in 0..(m - 1) /\ i \in 1..m
          BY <4>2, <2>5
        <5> QED  BY <5>1, <3>1, <3>5, <2>6
      <4> QED  BY <4>1, <4>2
    <3>8. v[0] = 0
      <4>1. 0 \in 0..(m - 1)
        BY <2>5
      <4> QED  BY <4>1, <3>5, <2>6
    <3>9. Weighs(v, q, n + 1)
      BY <3>1, <3>5, <3>6, <3>7, <3>8 DEF Weighs
    <3> QED  BY <3>9, <2>2, <2>3
  <2> QED  BY <2>7, <2>8
<1> HIDE DEF T
<1>6. \A n \in 0..L : n \in T
  BY <1>1, <1>4, <1>5, UpTo
<1>7. L \in 0..L
  BY <1>1
<1> QED  BY <1>1, <1>3, <1>6, <1>7 DEF T

-----------------------------------------------------------------------------
(* The three loops abreast.                                                *)
Abreast(k, names, answer, length, count) ==
  /\ k.ok => /\ \E h : Spells(k, names, h)
             /\ answer = Resolved(k.out) /\ Len(k.out) <= length /\ Len(names) <= count
  /\ ~k.ok => count > MaxComponents \/ length > Capacity

LEMMA AbreastStep ==
  ASSUME NEW k \in Spellers, NEW names, NEW answer, NEW length \in Nat, NEW count \in Nat,
         Abreast(k, names, answer, length, count), NEW part \in Components
  PROVE  Abreast(Part(k, part), Named(names, part), Segment(answer, part),
                 length + 1 + Len(part), count + 1)
<1>1. /\ MaxComponents \in Nat /\ Capacity \in Nat /\ Len(part) \in Nat
      /\ k \in Buffers
  BY PathsAssumption DEF Components, Spellers
<1>2. PICK b : b = Len(part)
  OBVIOUS
<1>3. CASE ~k.ok
  <2>1. Part(k, part) = k
    BY <1>3 DEF Part
  <2>2. count > MaxComponents \/ length > Capacity
    BY <1>3 DEF Abreast
  <2>3. count + 1 > MaxComponents \/ length + 1 + b > Capacity
    BY <1>1, <1>2, <2>2
  <2> QED  BY <1>2, <1>3, <2>1, <2>3 DEF Abreast
<1>4. CASE k.ok
  <2>1. PICK h : Spells(k, names, h)
    BY <1>4 DEF Abreast
  <2>2. answer = Resolved(k.out) /\ Len(k.out) <= length /\ Len(names) <= count
    BY <1>4 DEF Abreast
  <2>3. PICK o, c : o = Len(k.out) /\ c = Len(names)
    OBVIOUS
  <2>4. o \in Nat /\ c \in Nat /\ o <= length /\ c <= count
    BY <2>1, <2>2, <2>3, SpellsTypes
  <2>5. CASE Advances(k, names, part)
    <3>1. /\ Part(k, part).ok /\ \E g : Spells(Part(k, part), Named(names, part), g)
          /\ Segment(answer, part) = Resolved(Part(k, part).out)
          /\ Len(Part(k, part).out) <= o + 1 + b /\ Len(Named(names, part)) <= c + 1
      BY <2>2, <2>3, <2>5, <1>2 DEF Advances
    <3>2. PICK x, y : x = Len(Part(k, part).out) /\ y = Len(Named(names, part))
      OBVIOUS
    <3>3. x \in Nat /\ y \in Nat
      <4>1. PICK g : Spells(Part(k, part), Named(names, part), g)
        BY <3>1
      <4> QED  BY <3>2, <4>1, SpellsTypes
    <3>4. x <= length + 1 + b /\ y <= count + 1
      BY <3>1, <3>2, <3>3, <2>4, <1>1, <1>2
    <3> QED  BY <3>1, <3>2, <3>4, <1>2 DEF Abreast
  <2>6. CASE OutOfRoom(k, names, part)
    <3>1. PICK j : j = Len(Joined(k.out, part))
      OBVIOUS
    <3>2. part \in Names /\ j <= o + 1 + b /\ (c >= MaxComponents \/ j > Capacity)
      BY <2>3, <2>6, <3>1, <1>2 DEF OutOfRoom
    <3>3. j \in Nat
      <4>1. k.out \in Seq(PathBytes) /\ Len(k.out) >= 1
        BY <2>1, SpellsTypes
      <4>2. Joined(k.out, part) \in Seq(PathBytes)
        BY <3>2, <4>1, JoinedIs
      <4> QED  BY <3>1, <4>2
    <3>4. count + 1 > MaxComponents \/ length + 1 + b > Capacity
      BY <3>2, <3>3, <2>4, <1>1, <1>2
    <3>5. Part(k, part) = [k EXCEPT !.ok = FALSE]
      BY <2>6 DEF OutOfRoom
    <3>6. ~Part(k, part).ok
      BY <3>5, <1>1 DEF Buffers
    <3> QED  BY <3>4, <3>6, <1>2 DEF Abreast
  <2> QED  BY <2>1, <2>5, <2>6, <1>4, PartAdvances
<1> QED  BY <1>3, <1>4

LEMMA AbreastToEnd ==
  ASSUME NEW parts \in Seq(Components), NEW k0 \in Spellers, k0.ok,
         NEW names0, NEW h0, Spells(k0, names0, h0),
         NEW f, Going(f, k0, parts), NEW l, Following(l, Resolved(k0.out), parts),
         NEW N, N[0] = names0, \A n \in 1..Len(parts) : N[n] = Named(N[n - 1], parts[n]),
         NEW w, NEW total, Weighs(w, parts, total)
  PROVE  Abreast(f[Len(parts)], N[Len(parts)], l[Len(parts)],
                 Len(k0.out) + total, Len(names0) + Len(parts))
<1>1. PICK L, o, c : L = Len(parts) /\ o = Len(k0.out) /\ c = Len(names0)
  OBVIOUS
<1>2. L \in Nat /\ o \in Nat /\ c \in Nat /\ \A n \in 1..L : parts[n] \in Components
  BY <1>1, SpellsTypes
<1>3. /\ f[0] = k0 /\ \A n \in 1..L : f[n] = Part(f[n - 1], parts[n])
      /\ \A n \in 0..L : f[n] \in Spellers
  BY <1>1 DEF Going
<1>4. l[0] = Resolved(k0.out) /\ \A n \in 1..L : l[n] = Segment(l[n - 1], parts[n])
  BY <1>1 DEF Following
<1>5. /\ w[0] = 0 /\ w[L] = total /\ \A n \in 0..L : w[n] \in Nat
      /\ \A n \in 1..L : w[n] = w[n - 1] + 1 + Len(parts[n])
  BY <1>1 DEF Weighs
<1> DEFINE T == {n \in 0..L : Abreast(f[n], N[n], l[n], o + w[n], c + n)}
<1>6. 0 \in T
  <2>1. 0 \in 0..L /\ o + w[0] = o /\ c + 0 = c /\ o <= o /\ c <= c
    BY <1>2, <1>5
  <2>2. Abreast(k0, names0, Resolved(k0.out), o, c)
    BY <2>1, <1>1 DEF Abreast
  <2> QED  BY <2>1, <2>2, <1>3, <1>4
<1>7. ASSUME NEW n \in 1..L, n - 1 \in T PROVE n \in T
  <2>1. n \in 0..L /\ n - 1 \in 0..L /\ n - 1 \in Nat
    BY <1>2
  <2>2. PICK k, part, length, count : k = f[n - 1] /\ part = parts[n] /\ length = o + w[n - 1] /\ count = c + (n - 1)
    OBVIOUS
  <2>3. /\ k \in Spellers /\ part \in Components /\ length \in Nat /\ count \in Nat
        /\ Abreast(k, N[n - 1], l[n - 1], length, count)
    <3>1. k \in Spellers /\ part \in Components
      BY <2>1, <2>2, <1>2, <1>3
    <3>2. length \in Nat /\ count \in Nat
      BY <2>1, <2>2, <1>2, <1>5
    <3>3. Abreast(f[n - 1], N[n - 1], l[n - 1], o + w[n - 1], c + (n - 1))
      BY <1>7
    <3> QED  BY <3>1, <3>2, <3>3, <2>2
  <2>4. Abreast(Part(k, part), Named(N[n - 1], part), Segment(l[n - 1], part), length + 1 + Len(part), count + 1)
    BY <2>3, AbreastStep
  <2>5. length + 1 + Len(part) = o + w[n] /\ count + 1 = c + n
    <3>1. Len(part) \in Nat
      BY <2>3 DEF Components
    <3>2. PICK x, y, z : x = w[n - 1] /\ y = w[n] /\ z = Len(part)
      OBVIOUS
    <3>3. x \in Nat /\ z \in Nat /\ y = x + 1 + z /\ length = o + x
      BY <2>1, <2>2, <3>1, <3>2, <1>5
    <3>4. length + 1 + z = o + y /\ count + 1 = c + n
      BY <2>1, <2>2, <3>3, <1>2
    <3> QED  BY <3>2, <3>4
  <2>6. f[n] = Part(k, part) /\ N[n] = Named(N[n - 1], part) /\ l[n] = Segment(l[n - 1], part)
    BY <2>2, <1>1, <1>3, <1>4
  <2> QED  BY <2>1, <2>4, <2>5, <2>6
<1> HIDE DEF T
<1>8. \A n \in 0..L : n \in T
  BY <1>2, <1>6, <1>7, UpTo
<1>9. L \in 0..L
  BY <1>2
<1> QED  BY <1>1, <1>5, <1>8, <1>9 DEF T

-----------------------------------------------------------------------------
(* A ladder's last rung is the spelling of its names.                      *)
LEMMA LadderSpells ==
  ASSUME NEW names \in Seq(Names), NEW h, Ladder(h, names) PROVE Spelled(names) = h[Len(names)]
<1>1. PICK L : L = Len(names) /\ L \in Nat
  OBVIOUS
<1>2. h[0] = <<Slash>> /\ \A n \in 1..L : h[n] = Joined(h[n - 1], names[n])
  BY <1>1 DEF Ladder
<1>3. CASE names = <<>>
  <2>1. L = 0
    BY <1>1, <1>3
  <2> QED  BY <2>1, <1>1, <1>2, <1>3 DEF Spelled
<1>4. CASE names # <<>>
  <2>1. PICK f : Spelling(f, names) /\ Spelled(names) = f[Len(names)]
    BY <1>4, SpelledIs
  <2>2. f[0] = <<>> /\ \A n \in 1..L : f[n] = Append(f[n - 1], Slash) \o names[n]
    BY <2>1, <1>1 DEF Spelling
  <2> DEFINE T == {n \in 0..L : n # 0 => f[n] = h[n]}
  <2>3. 0 \in T
    BY <1>1
  <2>4. ASSUME NEW n \in 1..L, n - 1 \in T PROVE n \in T
    <3>1. n \in 0..L /\ n # 0 /\ n - 1 \in 0..Len(names)
      BY <1>1
    <3>2. CASE n - 1 = 0
      <4>1. f[n - 1] = <<>> /\ h[n - 1] = <<Slash>>
        BY <3>2, <1>2, <2>2
      <4>2. Append(<<>>, Slash) = <<Slash>> /\ Len(<<Slash>>) = 1
        OBVIOUS
      <4>3. h[n] = <<Slash>> \o names[n]
        BY <4>1, <4>2, <1>2 DEF Joined
      <4>4. f[n] = <<Slash>> \o names[n]
        BY <4>1, <4>2, <2>2
      <4> QED  BY <3>1, <4>3, <4>4
    <3>3. CASE n - 1 # 0
      <4>1. f[n - 1] = h[n - 1]
        BY <3>3, <2>4
      <4>2. Len(h[n - 1]) # 1
        BY <3>1, <3>3, LadderTypes
      <4>3. h[n] = Append(h[n - 1], Slash) \o names[n]
        BY <4>2, <1>2 DEF Joined
      <4> QED  BY <3>1, <4>1, <4>3, <2>2
    <3> QED  BY <3>2, <3>3
  <2> HIDE DEF T
  <2>5. \A n \in 0..L : n \in T
    BY <1>1, <2>3, <2>4, UpTo
  <2>6. L \in 0..L /\ L # 0
    BY <1>1, <1>4
  <2> QED  BY <2>1, <2>5, <2>6, <1>1 DEF T
<1> QED  BY <1>3, <1>4

LEMMA LaddersAgree ==
  ASSUME NEW names \in Seq(Names), NEW h, Ladder(h, names),
         NEW less \in Seq(Names), NEW g, Ladder(g, less), Len(less) <= Len(names),
         \A i \in 1..Len(less) : less[i] = names[i]
  PROVE  g[Len(less)] = h[Len(less)]
<1>1. PICK L : L = Len(less) /\ L \in Nat
  OBVIOUS
<1>2. \A n \in 1..L : n \in 1..Len(names)
  BY <1>1
<1>3. g[0] = <<Slash>> /\ \A n \in 1..L : g[n] = Joined(g[n - 1], less[n])
  BY <1>1 DEF Ladder
<1>4. h[0] = <<Slash>> /\ \A n \in 1..L : h[n] = Joined(h[n - 1], names[n])
  BY <1>2 DEF Ladder
<1> DEFINE T == {n \in 0..L : g[n] = h[n]}
<1>5. 0 \in T
  <2>1. 0 \in 0..L
    BY <1>1
  <2>2. g[0] = h[0]
    BY <1>3, <1>4
  <2> QED  BY <2>1, <2>2
<1>6. ASSUME NEW n \in 1..L, n - 1 \in T PROVE n \in T
  <2>1. n \in 0..L
    BY <1>1
  <2> QED  BY <2>1, <1>1, <1>3, <1>4, <1>6
<1> HIDE DEF T
<1>7. \A n \in 0..L : n \in T
  BY <1>1, <1>5, <1>6, UpTo
<1>8. L \in 0..L
  BY <1>1
<1> QED  BY <1>1, <1>7, <1>8 DEF T

LEMMA LadderRises ==
  ASSUME NEW names \in Seq(Names), NEW h, Ladder(h, names), NEW i \in 0..Len(names)
  PROVE  Len(h[i]) <= Len(h[Len(names)])
<1>1. PICK L : L = Len(names) /\ L \in Nat
  OBVIOUS
<1>2. /\ \A n \in 0..L : Len(h[n]) \in Nat
      /\ \A n \in 1..L : Len(h[n]) > Len(h[n - 1])
  BY <1>1, LadderTypes
<1> DEFINE T == {n \in 0..L : \A m \in 0..n : Len(h[m]) <= Len(h[n])}
<1>3. 0 \in T
  BY <1>1, <1>2
<1>4. ASSUME NEW n \in 1..L, n - 1 \in T PROVE n \in T
  <2>1. n \in 0..L /\ n - 1 \in 0..L /\ \A m \in 0..n : m \in 0..L /\ (m = n \/ m \in 0..(n - 1))
    BY <1>1
  <2>2. ASSUME NEW m \in 0..n PROVE Len(h[m]) <= Len(h[n])
    <3>1. PICK x, y, z : x = Len(h[m]) /\ y = Len(h[n - 1]) /\ z = Len(h[n])
      OBVIOUS
    <3>2. x \in Nat /\ y \in Nat /\ z \in Nat /\ z > y /\ (x <= y \/ x = z)
      BY <1>2, <1>4, <2>1, <3>1
    <3>3. x <= z
      BY <3>2
    <3> QED  BY <3>1, <3>3
  <2> QED  BY <2>1, <2>2
<1> HIDE DEF T
<1>5. \A n \in 0..L : n \in T
  BY <1>1, <1>3, <1>4, UpTo
<1>6. L \in 0..L
  BY <1>1
<1> QED  BY <1>1, <1>5, <1>6 DEF T

-----------------------------------------------------------------------------
(* The working directory is spelled as the kernel spells it, so resolving  *)
(* it again gives it back.                                                 *)
Rungs(p, names, n) ==
  /\ p \in Seq(Components) /\ Len(p) = n + 1 /\ p[1] = <<>>
  /\ \A i \in 1..n : p[i + 1] = names[i]

LEMMA LadderSplit ==
  ASSUME NEW names \in Seq(Names), NEW h, Ladder(h, names), names # <<>>
  PROVE  Rungs(Split(h[Len(names)]), names, Len(names))
<1>1. PICK L : L = Len(names) /\ L \in Nat
  OBVIOUS
<1>2. /\ h[0] = <<Slash>> /\ \A n \in 1..L : h[n] = Joined(h[n - 1], names[n])
  BY <1>1 DEF Ladder
<1>3. /\ \A n \in 0..L : h[n] \in Seq(PathBytes) /\ (Len(h[n]) = 1 <=> n = 0)
      /\ \A n \in 1..L : names[n] \in Names /\ n - 1 \in 0..L
  BY <1>1, LadderTypes
<1>4. PICK e : e = <<>>
  OBVIOUS
<1>5. e \in Components /\ e \in Seq(PathBytes) /\ Split(e) = <<e>>
  BY <1>4, SplitEmpty DEF Components
<1> DEFINE Cut(n) == IF n = 0 THEN <<e>> ELSE Split(h[n])
           T == {n \in 0..L : Rungs(Cut(n), names, n)}
<1>6. 0 \in T
  <2>1. Rungs(<<e>>, names, 0)
    BY <1>4, <1>5 DEF Rungs
  <2> QED  BY <2>1, <1>1
<1>7. ASSUME NEW n \in 1..L, n - 1 \in T PROVE n \in T
  <2>1. PICK p, s : p = Cut(n - 1) /\ s = names[n]
    OBVIOUS
  <2>2. n \in 0..L /\ n # 0 /\ n - 1 \in Nat /\ (n - 1) + 1 = n
    BY <1>1
  <2>3. /\ p \in Seq(Components) /\ Len(p) = n /\ p[1] = <<>>
        /\ \A i \in 1..(n - 1) : p[i + 1] = names[i]
    BY <2>1, <2>2, <1>7 DEF Rungs
  <2>4. s \in Components /\ s \in Seq(PathBytes) /\ Split(s) = <<s>>
    <3>1. s \in Names
      BY <2>1, <1>3
    <3>2. s \in Components
      BY <3>1 DEF Names
    <3> QED  BY <3>1, <3>2, NameIs, SplitName
  <2>5. Split(h[n]) = p \o <<s>>
    <3>1. CASE n - 1 = 0
      <4>1. h[n - 1] = <<Slash>> /\ p = <<e>>
        BY <3>1, <2>1, <1>2
      <4>2. Append(e, Slash) = <<Slash>> /\ Len(<<Slash>>) = 1
        BY <1>4
      <4>3. h[n] = Append(e, Slash) \o s
        BY <4>1, <4>2, <2>1, <1>2 DEF Joined
      <4>4. Split(Append(e, Slash) \o s) = Split(e) \o Split(s)
        BY <2>4, <1>5, SplitJoins
      <4> QED  BY <4>1, <4>3, <4>4, <2>4, <1>5
    <3>2. CASE n - 1 # 0
      <4>1. h[n - 1] \in Seq(PathBytes) /\ Len(h[n - 1]) # 1 /\ p = Split(h[n - 1])
        BY <3>2, <2>1, <1>3
      <4>2. h[n] = Append(h[n - 1], Slash) \o s
        BY <4>1, <2>1, <1>2 DEF Joined
      <4>3. Split(Append(h[n - 1], Slash) \o s) = Split(h[n - 1]) \o Split(s)
        BY <4>1, <2>4, SplitJoins
      <4> QED  BY <4>1, <4>2, <4>3, <2>4
    <3> QED  BY <3>1, <3>2
  <2>6. PICK q : q = p \o <<s>>
    OBVIOUS
  <2>7. /\ q \in Seq(Components) /\ Len(q) = n + 1 /\ q[n + 1] = s
        /\ \A i \in 1..n : q[i] = p[i]
    <3>1. PICK t : t = <<s>>
      OBVIOUS
    <3>2. t \in Seq(Components) /\ Len(t) = 1 /\ t[1] = s
      BY <3>1, <2>4
    <3>3. PICK a, b : a = Len(p) /\ b = Len(t)
      OBVIOUS
    <3>4. /\ p \o t \in Seq(Components) /\ Len(p \o t) = a + b
          /\ \A i \in 1..a : (p \o t)[i] = p[i]
          /\ \A i \in 1..b : (p \o t)[a + i] = t[i]
      <4>1. p \in Seq(Components) /\ t \in Seq(Components)
        BY <3>2, <2>3
      <4> QED  BY ONLY <3>3, <4>1, ConcatIs
    <3>5. 1 \in 1..b /\ a = n /\ b = 1
      BY <3>2, <3>3, <2>3
    <3> QED  BY <3>1, <3>2, <3>4, <3>5, <2>6
  <2>8. q[1] = <<>>
    <3>1. 1 \in 1..n
      BY <2>2
    <3> QED  BY <3>1, <2>3, <2>7
  <2>9. ASSUME NEW i \in 1..n PROVE q[i + 1] = names[i]
    <3>1. CASE i = n
      BY <3>1, <2>1, <2>7
    <3>2. CASE i # n
      <4>1. i \in 1..(n - 1) /\ i + 1 \in 1..n
        BY <3>2, <2>2
      <4> QED  BY <4>1, <2>3, <2>7
    <3> QED  BY <3>1, <3>2
  <2>10. Rungs(q, names, n)
    BY <2>7, <2>8, <2>9 DEF Rungs
  <2> QED  BY <2>2, <2>5, <2>6, <2>10
<1> HIDE DEF T
<1>8. \A n \in 0..L : n \in T
  BY <1>1, <1>6, <1>7, UpTo
<1>9. L \in 0..L /\ L # 0
  BY <1>1
<1> QED  BY <1>1, <1>8, <1>9 DEF T

LEMMA StartSpells == \E g : Spells(Start, <<>>, g) /\ Start \in Spellers /\ Start.ok
<1>1. PICK g : g = [i \in 0..0 |-> <<Slash>>]
  OBVIOUS
<1>2. PICK e : e = <<>>
  OBVIOUS
<1>3. e \in Seq(Names) /\ Len(e) = 0 /\ e \in Seq(Nat)
  BY <1>2
<1>4. <<Slash>> \in Seq(PathBytes) /\ Len(<<Slash>>) = 1
  BY DEF PathBytes
<1>5. Ladder(g, e)
  BY <1>1, <1>3, <1>4 DEF Ladder
<1>6. Start \in Buffers /\ Start.ok /\ Start.out = <<Slash>> /\ Start.starts = e
  BY <1>2, <1>3, <1>4 DEF Start, Buffers
<1>7. 0 <= MaxComponents /\ 1 <= Capacity
  BY PathsAssumption
<1>8. Start.out = g[0]
  BY <1>1, <1>6
<1>9. Spells(Start, e, g)
  BY <1>3, <1>4, <1>5, <1>6, <1>7, <1>8 DEF Spells
<1> QED  BY <1>2, <1>6, <1>9 DEF Spellers

LEMMA EmptyPart ==
  ASSUME NEW k, NEW names, NEW part, part = <<>> PROVE Part(k, part) = k /\ Named(names, part) = names
<1>1. part \in {<<>>, Dot} /\ part # DotDot
  BY DEF DotDot
<1>2. Part(k, part) = k
  BY <1>1 DEF Part
<1>3. Named(names, part) = names
  BY <1>1 DEF Named
<1> QED  BY <1>2, <1>3

LEMMA BaseAgain ==
  ASSUME NEW names \in Seq(Names), NEW h, Ladder(h, names), NEW base, base = h[Len(names)],
         Len(names) <= MaxComponents, Len(base) <= Capacity
  PROVE  /\ NamesIn(base) = names
         /\ Parts(Start, base) \in Spellers /\ Parts(Start, base).ok
         /\ Parts(Start, base).out = base /\ \E g : Spells(Parts(Start, base), names, g)
<1>1. PICK L : L = Len(names) /\ L \in Nat
  OBVIOUS
<1>2. base \in Seq(PathBytes)
  <2>1. Len(names) \in 0..Len(names)
    BY <1>1
  <2> QED  BY <2>1, LadderTypes
<1>3. PICK g0 : Spells(Start, <<>>, g0) /\ Start \in Spellers /\ Start.ok
  BY StartSpells
<1>4. PICK f : Going(f, Start, Split(base)) /\ Parts(Start, base) = f[Len(Split(base))]
  BY <1>2, <1>3, PartsIs
<1>5. PICK N : Naming(N, Split(base)) /\ NamesIn(base) = N[Len(Split(base))]
  BY <1>2, NamesInIs
<1>6. PICK p, m : p = Split(base) /\ m = Len(p)
  OBVIOUS
<1>7. /\ f[0] = Start /\ \A n \in 1..m : f[n] = Part(f[n - 1], p[n])
      /\ \A n \in 0..m : f[n] \in Spellers
      /\ N[0] = <<>> /\ \A n \in 1..m : N[n] = Named(N[n - 1], p[n])
      /\ \A n \in 0..m : N[n] \in Seq(Names)
      /\ Parts(Start, base) = f[m] /\ NamesIn(base) = N[m]
  BY <1>4, <1>5, <1>6 DEF Going, Naming
<1>8. CASE names = <<>>
  <2>1. base = <<Slash>>
    <3>1. Len(names) = 0
      BY <1>8
    <3> QED  BY <3>1 DEF Ladder
  <2>2. PICK e : e = <<>>
    OBVIOUS
  <2>3. p = <<e>> \o <<e>>
    <3>1. e \in Seq(PathBytes) /\ Split(e) = <<e>> /\ Append(e, Slash) \o e = <<Slash>>
      BY <2>2, SplitEmpty
    <3>2. Split(Append(e, Slash) \o e) = Split(e) \o Split(e)
      BY <3>1, SplitJoins
    <3> QED  BY <2>1, <3>1, <3>2, <1>6
  <2>4. m = 2 /\ p[1] = <<>> /\ p[2] = <<>>
    BY <2>2, <2>3, <1>6
  <2>5. 1 \in 1..m /\ 2 \in 1..m /\ 1 - 1 = 0 /\ 2 - 1 = 1 /\ 2 \in 0..m
    BY <2>4
  <2>6. f[1] = Start /\ N[1] = <<>>
    <3>1. f[1] = Part(f[0], p[1]) /\ N[1] = Named(N[0], p[1])
      BY <2>5, <1>7
    <3> QED  BY <3>1, <2>4, <1>7, EmptyPart
  <2>7. f[2] = Start /\ N[2] = <<>>
    <3>1. f[2] = Part(f[1], p[2]) /\ N[2] = Named(N[1], p[2])
      BY <2>5, <1>7
    <3> QED  BY <3>1, <2>4, <2>6, EmptyPart
  <2>8. Start.out = <<Slash>>
    BY DEF Start
  <2> QED  BY <2>1, <2>4, <2>7, <2>8, <1>3, <1>7, <1>8
<1>9. CASE names # <<>>
  <2>1. Rungs(p, names, L)
    BY <1>1, <1>6, <1>9, LadderSplit
  <2>2. m = L + 1 /\ p[1] = <<>> /\ \A i \in 1..L : p[i + 1] = names[i]
    BY <2>1, <1>6 DEF Rungs
  <2> DEFINE Same(ns, n) == Len(ns) = n /\ \A i \in 1..n : ns[i] = names[i]
             T == {n \in 0..L : f[n + 1].ok /\ (\E g : Spells(f[n + 1], N[n + 1], g)) /\ Same(N[n + 1], n)}
  <2>3. 0 \in T
    <3>1. 1 \in 1..m /\ 1 - 1 = 0 /\ 0 + 1 = 1 /\ 0 \in 0..L
      BY <2>2, <1>1
    <3>2. f[1] = Part(f[0], p[1]) /\ N[1] = Named(N[0], p[1])
      BY <3>1, <1>7
    <3>3. f[1] = Start /\ N[1] = <<>>
      BY <3>2, <2>2, <1>7, EmptyPart
    <3>4. Same(<<>>, 0)
      OBVIOUS
    <3> HIDE DEF Same
    <3> QED  BY <3>1, <3>3, <3>4, <1>3
  <2>4. ASSUME NEW n \in 1..L, n - 1 \in T PROVE n \in T
    <3>1. n \in 0..L /\ n - 1 \in 0..L /\ (n - 1) + 1 = n /\ n + 1 \in 1..m /\ (n + 1) - 1 = n /\ n \in 0..m /\ n \in Nat
      BY <2>2, <1>1
    <3>2. PICK k, ns, s : k = f[n] /\ ns = N[n] /\ s = names[n]
      OBVIOUS
    <3>3. k.ok /\ (\E g : Spells(k, ns, g)) /\ Same(ns, n - 1)
      BY <3>1, <3>2, <2>4
    <3>4. PICK g : Spells(k, ns, g)
      BY <3>3
    <3>5. s \in Names /\ s \in Components
      BY <3>2, <1>1 DEF Names
    <3>6. f[n + 1] = Part(k, s) /\ N[n + 1] = Named(ns, s)
      BY <3>1, <3>2, <1>7, <2>2
    <3>7. ns \in Seq(Names) /\ Ladder(g, ns) /\ k.out = g[Len(ns)]
      BY <3>4, SpellsTypes
    <3>8. k.out = h[n - 1]
      <4>1. Len(ns) = n - 1 /\ Len(ns) <= Len(names) /\ \A i \in 1..Len(ns) : ns[i] = names[i]
        BY <3>1, <3>3, <1>1
      <4> QED  BY <3>7, <4>1, LaddersAgree
    <3>9. Len(Joined(k.out, s)) <= Capacity
      <4>1. h[n] = Joined(h[n - 1], names[n])
        BY <1>1 DEF Ladder
      <4>2. Len(h[n]) <= Len(base) /\ Len(h[n]) \in Nat /\ Len(base) \in Nat
        BY <3>1, <1>1, <1>2, LadderRises, LadderTypes
      <4>3. PICK x, y : x = Len(h[n]) /\ y = Len(base)
        OBVIOUS
      <4>4. x <= Capacity
        BY <4>2, <4>3, PathsAssumption
      <4> QED  BY <4>1, <4>3, <4>4, <3>2, <3>8
    <3>10. ~OutOfRoom(k, ns, s)
      <4>1. Len(ns) = n - 1 /\ ~(n - 1 >= MaxComponents)
        BY <3>1, <3>3, <1>1, PathsAssumption
      <4>2. PICK x : x = Len(Joined(k.out, s))
        OBVIOUS
      <4>3. x \in Nat
        <5>1. k.out \in Seq(PathBytes) /\ Len(k.out) >= 1
          BY <3>4, SpellsTypes
        <5>2. Joined(k.out, s) \in Seq(PathBytes)
          BY <3>5, <5>1, JoinedIs
        <5> QED  BY <4>2, <5>2
      <4>4. ~(x > Capacity)
        BY <3>9, <4>2, <4>3, PathsAssumption
      <4> QED  BY <4>1, <4>2, <4>4 DEF OutOfRoom
    <3>11. Advances(k, ns, s)
      BY <3>3, <3>4, <3>5, <3>10, PartAdvances
    <3>12. Named(ns, s) = Append(ns, s)
      BY <3>5 DEF Named, Names
    <3>13. Same(Append(ns, s), n)
      <4>1. PICK r : r = Append(ns, s)
        OBVIOUS
      <4>2. Len(r) = Len(ns) + 1 /\ r[Len(ns) + 1] = s /\ \A i \in 1..Len(ns) : r[i] = ns[i]
        BY <4>1, <3>5, <3>7, AppendProperties
      <4>3. Len(ns) = n - 1 /\ \A i \in 1..(n - 1) : ns[i] = names[i]
        BY <3>3
      <4>4. Len(r) = n /\ r[n] = s /\ \A i \in 1..(n - 1) : r[i] = names[i]
        BY <4>2, <4>3, <3>1
      <4>5. \A i \in 1..n : i = n \/ i \in 1..(n - 1)
        BY <3>1
      <4> QED  BY <4>1, <4>4, <4>5, <3>2
    <3> HIDE DEF Same
    <3> QED  BY <3>1, <3>6, <3>11, <3>12, <3>13 DEF Advances
  <2> HIDE DEF T
  <2>5. \A n \in 0..L : n \in T
    BY <1>1, <2>3, <2>4, UpTo
  <2>6. L \in 0..L /\ m \in 0..m
    BY <1>1, <2>2
  <2>7. f[m].ok /\ (\E g : Spells(f[m], N[m], g)) /\ Same(N[m], L)
    BY <2>2, <2>5, <2>6 DEF T
  <2>8. N[m] = names
    <3>1. PICK ns : ns = N[m]
      OBVIOUS
    <3>2. ns \in Seq(Names) /\ Len(ns) = L /\ \A i \in 1..L : ns[i] = names[i]
      BY <3>1, <2>6, <2>7, <1>7
    <3>3. ns \in [1..L -> Names] /\ names \in [1..L -> Names]
      BY <3>2, <1>1
    <3>4. ns = names
      BY <3>2, <3>3
    <3> QED  BY <3>1, <3>4
  <2>9. f[m].out = base
    <3>1. PICK g : Spells(f[m], names, g)
      BY <2>7, <2>8
    <3>2. Ladder(g, names) /\ f[m].out = g[Len(names)]
      BY <3>1, SpellsTypes
    <3>3. Len(names) <= Len(names)
      BY <1>1
    <3> QED  BY <3>2, <3>3, LaddersAgree
  <2> QED  BY <2>6, <2>7, <2>8, <2>9, <1>7
<1> QED  BY <1>8, <1>9

-----------------------------------------------------------------------------
(* A path resolved from a working directory.                               *)
Canonical(base) ==
  \E names \in Seq(Names) : \E h :
    Ladder(h, names) /\ base = h[Len(names)] /\ Len(names) <= MaxComponents /\ Len(base) <= Capacity

LEMMA AbreastWeaker ==
  ASSUME NEW k, NEW names, NEW answer, NEW length \in Nat, NEW count \in Nat,
         Abreast(k, names, answer, length, count),
         NEW longer \in Nat, NEW more \in Nat, length <= longer, count <= more
  PROVE  Abreast(k, names, answer, longer, more)
<1>1. CASE k.ok
  <2>1. PICK h : Spells(k, names, h)
    BY <1>1 DEF Abreast
  <2>2. PICK a, b : a = Len(k.out) /\ b = Len(names)
    OBVIOUS
  <2>3. a \in Nat /\ b \in Nat /\ a <= length /\ b <= count
    BY <1>1, <2>1, <2>2, SpellsTypes DEF Abreast
  <2>4. a <= longer /\ b <= more
    BY <2>3
  <2> QED  BY <1>1, <2>2, <2>4 DEF Abreast
<1>2. CASE ~k.ok
  <2>1. MaxComponents \in Nat /\ Capacity \in Nat /\ (count > MaxComponents \/ length > Capacity)
    BY <1>2, PathsAssumption DEF Abreast
  <2>2. more > MaxComponents \/ longer > Capacity
    BY <2>1
  <2> QED  BY <1>2, <2>2 DEF Abreast
<1> QED  BY <1>1, <1>2

(* What the kernel does with a path, next to what is meant and to lash.    *)
Resolves(k, base, path) ==
  /\ NormalizePath(base, path) = IF k.ok THEN Resolved(k.out) ELSE Refused
  /\ Abreast(k, Meant(base, path), NormalizeCommandPath(base, path),
             Len(Whence(base, path)) + (Len(path) + 1),
             Len(NamesIn(Whence(base, path))) + Len(Split(path)))

LEMMA CanonicalIs ==
  ASSUME NEW base, Canonical(base)
  PROVE  /\ base \in Seq(PathBytes) /\ Len(base) \in Nat /\ Len(base) >= 1
         /\ NamesIn(base) \in Seq(Names) /\ Len(NamesIn(base)) \in Nat
         /\ Parts(Start, base) \in Spellers /\ Parts(Start, base).ok
         /\ Parts(Start, base).out = base
         /\ \E g : Spells(Parts(Start, base), NamesIn(base), g)
<1>0. PICK names \in Seq(Names) :
        \E h : Ladder(h, names) /\ base = h[Len(names)] /\ Len(names) <= MaxComponents /\ Len(base) <= Capacity
  BY DEF Canonical
<1>1. PICK h :
        Ladder(h, names) /\ base = h[Len(names)] /\ Len(names) <= MaxComponents /\ Len(base) <= Capacity
  BY <1>0
<1>2. Len(names) \in Nat /\ Len(names) \in 0..Len(names)
  BY <1>1
<1>3. base \in Seq(PathBytes) /\ Len(base) \in Nat /\ Len(base) >= 1
  BY <1>1, <1>2, LadderTypes
<1>4. /\ NamesIn(base) = names
      /\ Parts(Start, base) \in Spellers /\ Parts(Start, base).ok
      /\ Parts(Start, base).out = base /\ \E g : Spells(Parts(Start, base), names, g)
  BY <1>1, BaseAgain
<1> QED  BY <1>2, <1>3, <1>4

LEMMA RootCanonical == Canonical(Root) /\ Root \in Seq(PathBytes) /\ Root # <<>>
<1>1. PICK g : Spells(Start, <<>>, g)
  BY StartSpells
<1>2. PICK e : e = <<>>
  OBVIOUS
<1>3. Spells(Start, e, g) /\ Len(e) = 0
  BY <1>1, <1>2
<1>4. /\ e \in Seq(Names) /\ Ladder(g, e) /\ Start.out = g[Len(e)]
      /\ Len(e) <= MaxComponents /\ Len(Start.out) <= Capacity
  BY <1>3, SpellsTypes
<1>5. Start.out = Root /\ Root \in Seq(PathBytes) /\ Root # <<>>
  BY DEF Start, Root, PathBytes
<1> QED  BY <1>4, <1>5 DEF Canonical

LEMMA AbsoluteResolves ==
  ASSUME NEW base, Canonical(base), NEW path \in Seq(PathBytes), path # <<>>, path[1] = Slash
  PROVE  \E k : Resolves(k, base, path)
<1>1. PICK k, P : k = Parts(Start, path) /\ P = Split(path)
  OBVIOUS
<1>2. P \in Seq(Components) /\ Len(P) \in Nat
  BY <1>1, SplitType
<1>3. PICK g0 : Spells(Start, <<>>, g0) /\ Start \in Spellers /\ Start.ok
  BY StartSpells
<1>4. Start.out = <<Slash>> /\ Len(<<Slash>>) = 1 /\ Resolved(Start.out) \in Answers
  <2>1. Start.out = <<Slash>> /\ Len(<<Slash>>) = 1 /\ <<Slash>> \in Seq(PathBytes)
    BY DEF Start, PathBytes
  <2> QED  BY <2>1, ResolvedIs DEF Answers
<1>5. PICK f : Going(f, Start, P) /\ k = f[Len(P)]
  BY <1>1, <1>3, PartsIs
<1>6. PICK l : Following(l, Resolved(Start.out), P) /\ Segments(Resolved(Start.out), path) = l[Len(P)]
  BY <1>1, <1>4, SegmentsIs
<1>7. PICK N : Naming(N, P) /\ NamesIn(path) = N[Len(P)]
  BY <1>1, NamesInIs
<1>8. PICK w : Weighs(w, P, Len(path) + 1)
  BY <1>1, PathWeight
<1>9. N[0] = <<>> /\ \A n \in 1..Len(P) : N[n] = Named(N[n - 1], P[n])
  BY <1>7 DEF Naming
<1>10. PICK none, total : none = <<>> /\ total = Len(path) + 1
  OBVIOUS
<1>11. Abreast(f[Len(P)], N[Len(P)], l[Len(P)], Len(Start.out) + total, Len(none) + Len(P))
  <2>1. N[0] = none /\ Spells(Start, none, g0) /\ Weighs(w, P, total)
    BY <1>3, <1>8, <1>9, <1>10
  <2> QED  BY <2>1, <1>2, <1>3, <1>5, <1>6, <1>9, AbreastToEnd
<1>12. NormalizeCommandPath(base, path) = l[Len(P)]
  BY <1>4, <1>6 DEF NormalizeCommandPath
<1>13. Meant(base, path) = N[Len(P)]
  BY <1>7 DEF Meant
<1>14. NormalizePath(base, path) = IF k.ok THEN Resolved(k.out) ELSE Refused
  BY <1>1 DEF NormalizePath
<1>15. Abreast(k, Meant(base, path), NormalizeCommandPath(base, path), 1 + total, 0 + Len(P))
  BY <1>4, <1>5, <1>10, <1>11, <1>12, <1>13
<1>16. PICK a, b, c, d : a = Len(Root) /\ b = Len(path) /\ c = Len(NamesIn(Root)) /\ d = Len(P)
  OBVIOUS
<1>17. a \in Nat /\ a >= 1 /\ b \in Nat /\ c \in Nat /\ d \in Nat
  BY <1>2, <1>16, RootCanonical, CanonicalIs
<1>18. /\ 1 + total \in Nat /\ 0 + d \in Nat /\ a + (b + 1) \in Nat /\ c + d \in Nat
       /\ 1 + total <= a + (b + 1) /\ 0 + d <= c + d
  BY <1>10, <1>16, <1>17
<1>19. Abreast(k, Meant(base, path), NormalizeCommandPath(base, path), a + (b + 1), c + d)
  BY <1>15, <1>16, <1>18, AbreastWeaker
<1>20. Whence(base, path) = Root
  BY DEF Whence
<1> QED  BY <1>1, <1>14, <1>16, <1>19, <1>20 DEF Resolves

LEMMA RelativeResolves ==
  ASSUME NEW base, Canonical(base), NEW path \in Seq(PathBytes), path # <<>>, path[1] # Slash
  PROVE  \E k : Resolves(k, base, path)
<1>1. PICK k0, names : k0 = Parts(Start, base) /\ names = NamesIn(base)
  OBVIOUS
<1>2. /\ base \in Seq(PathBytes) /\ names \in Seq(Names)
      /\ k0 \in Spellers /\ k0.ok /\ k0.out = base /\ \E g : Spells(k0, names, g)
  BY <1>1, CanonicalIs
<1>3. PICK g0 : Spells(k0, names, g0)
  BY <1>2
<1>4. PICK k, P, B : k = Parts(k0, path) /\ P = Split(path) /\ B = Split(base)
  OBVIOUS
<1>5. PICK a, b : a = Len(B) /\ b = Len(P)
  OBVIOUS
<1>6. P \in Seq(Components) /\ B \in Seq(Components) /\ a \in Nat /\ b \in Nat
  BY <1>2, <1>4, <1>5, SplitType
<1>7. PICK f : Going(f, k0, P) /\ k = f[Len(P)]
  BY <1>2, <1>4, PartsIs
<1>8. Resolved(base) \in Answers
  BY <1>2, ResolvedIs DEF Answers
<1>9. PICK l : Following(l, Resolved(k0.out), P) /\ Segments(Resolved(base), path) = l[Len(P)]
  BY <1>2, <1>4, <1>8, SegmentsIs
<1>10. PICK w : Weighs(w, P, Len(path) + 1)
  BY <1>4, PathWeight
<1>11. PICK long : long = Append(base, Slash) \o path
  OBVIOUS
<1>12. long \in Seq(PathBytes) /\ Split(long) = B \o P
  BY <1>2, <1>4, <1>11, SplitJoins
<1>13. PICK M : Naming(M, Split(long)) /\ NamesIn(long) = M[Len(Split(long))]
  BY <1>12, NamesInIs
<1>14. PICK NB : Naming(NB, B) /\ names = NB[Len(B)]
  BY <1>1, <1>2, <1>4, NamesInIs
<1>15. /\ Len(B \o P) = a + b
       /\ \A i \in 1..a : (B \o P)[i] = B[i]
       /\ \A i \in 1..b : (B \o P)[a + i] = P[i]
  BY <1>5, <1>6, ConcatIs
<1>16. M[0] = <<>> /\ (\A n \in 1..(a + b) : M[n] = Named(M[n - 1], (B \o P)[n])) /\ NamesIn(long) = M[a + b]
  BY <1>12, <1>13, <1>15 DEF Naming
<1>17. NB[0] = <<>> /\ (\A n \in 1..a : NB[n] = Named(NB[n - 1], B[n])) /\ names = NB[a]
  BY <1>5, <1>14 DEF Naming
<1> DEFINE T == {n \in 0..a : M[n] = NB[n]}
<1>18. \A n \in 0..a : n \in T
  <2>1. 0 \in T
    BY <1>6, <1>16, <1>17
  <2>2. ASSUME NEW n \in 1..a, n - 1 \in T PROVE n \in T
    <3>1. n \in 0..a /\ n \in 1..(a + b)
      BY <1>6
    <3> QED  BY <3>1, <2>2, <1>15, <1>16, <1>17
  <2> HIDE DEF T
  <2> QED  BY <1>6, <2>1, <2>2, UpTo
<1>19. M[a] = names
  <2>1. a \in 0..a
    BY <1>6
  <2> QED  BY <2>1, <1>17, <1>18
<1>20. PICK N : N = [n \in 0..b |-> M[a + n]]
  OBVIOUS
<1>21. N[0] = names /\ N[b] = NamesIn(long)
  <2>1. 0 \in 0..b /\ b \in 0..b /\ a + 0 = a
    BY <1>6
  <2> QED  BY <2>1, <1>16, <1>19, <1>20
<1>22. ASSUME NEW n \in 1..Len(P) PROVE N[n] = Named(N[n - 1], P[n])
  <2>1. n \in 1..b /\ n \in 0..b /\ n - 1 \in 0..b /\ a + n \in 1..(a + b) /\ (a + n) - 1 = a + (n - 1)
    BY <1>5, <1>6
  <2>2. M[a + n] = Named(M[a + (n - 1)], (B \o P)[a + n])
    BY <2>1, <1>16
  <2> QED  BY <2>1, <2>2, <1>15, <1>20
<1>23. PICK total : total = Len(path) + 1
  OBVIOUS
<1>24. Abreast(f[Len(P)], N[Len(P)], l[Len(P)], Len(k0.out) + total, Len(names) + Len(P))
  BY <1>2, <1>3, <1>6, <1>7, <1>9, <1>10, <1>21, <1>22, <1>23, AbreastToEnd
<1>25. NormalizeCommandPath(base, path) = l[Len(P)]
  BY <1>9 DEF NormalizeCommandPath
<1>26. Meant(base, path) = N[Len(P)]
  BY <1>5, <1>11, <1>21 DEF Meant
<1>27. NormalizePath(base, path) = IF k.ok THEN Resolved(k.out) ELSE Refused
  BY <1>1, <1>4 DEF NormalizePath
<1>28. Whence(base, path) = base
  BY DEF Whence
<1> QED  BY <1>1, <1>2, <1>4, <1>7, <1>23, <1>24, <1>25, <1>26, <1>27, <1>28 DEF Resolves

-----------------------------------------------------------------------------
(* The inductive invariant: every working directory, the one a call began  *)
(* from included, is spelled as the kernel spells it.                      *)
PathInv ==
  /\ Canonical(cwd) /\ Canonical(asked.base)
  /\ asked \in [base : Seq(PathBytes), path : Seq(PathBytes)] /\ asked.path # <<>>

LEMMA AskedResolves == ASSUME PathInv PROVE \E k : Resolves(k, asked.base, asked.path)
<1>1. Canonical(asked.base) /\ asked.path \in Seq(PathBytes) /\ asked.path # <<>>
  BY DEF PathInv
<1> QED  BY <1>1, AbsoluteResolves, RelativeResolves

LEMMA KernelIs ==
  ASSUME PathInv
  PROVE  /\ Kernel.ok => /\ Canonical(Kernel.path)
                         /\ Kernel.path = Spelled(Meant(asked.base, asked.path))
                         /\ Lash = Kernel
         /\ ~Kernel.ok => \/ Len(Whence(asked.base, asked.path)) + Len(asked.path) + 1 > Capacity
                          \/ Len(NamesIn(Whence(asked.base, asked.path))) + Len(Split(asked.path))
                               > MaxComponents
<1>1. PICK k : Resolves(k, asked.base, asked.path)
  BY AskedResolves
<1>2. Kernel = IF k.ok THEN Resolved(k.out) ELSE Refused
  BY <1>1 DEF Kernel, Resolves
<1>3. PICK m, from, a, b : /\ m = Meant(asked.base, asked.path) /\ from = Whence(asked.base, asked.path)
                           /\ a = Len(from) /\ b = Len(asked.path)
  OBVIOUS
<1>0. from \in Seq(PathBytes)
  BY <1>3, RootCanonical DEF PathInv, Whence
<1>4. a \in Nat /\ b \in Nat /\ a + (b + 1) = a + b + 1
  BY <1>3, <1>0 DEF PathInv
<1>5. Abreast(k, m, Lash, a + b + 1, Len(NamesIn(from)) + Len(Split(asked.path)))
  BY <1>1, <1>3, <1>4 DEF Resolves, Lash
<1>6. CASE k.ok
  <2>1. PICK h : Spells(k, m, h)
    BY <1>5, <1>6 DEF Abreast
  <2>2. /\ k.out \in Seq(PathBytes) /\ m \in Seq(Names) /\ Ladder(h, m) /\ k.out = h[Len(m)]
        /\ Len(m) <= MaxComponents /\ Len(k.out) <= Capacity
    BY <2>1, SpellsTypes
  <2>3. Kernel = Resolved(k.out) /\ Kernel.ok /\ Kernel.path = k.out
    BY <1>2, <1>6, <2>2, ResolvedIs
  <2>4. Canonical(k.out)
    BY <2>2 DEF Canonical
  <2>5. k.out = Spelled(m)
    BY <2>2, LadderSpells
  <2>6. Lash = Resolved(k.out)
    BY <1>5, <1>6 DEF Abreast
  <2> QED  BY <2>3, <2>4, <2>5, <2>6, <1>3
<1>7. CASE ~k.ok
  <2>1. ~Kernel.ok
    BY <1>2, <1>7 DEF Refused
  <2> QED  BY <2>1, <1>3, <1>5, <1>7 DEF Abreast
<1> QED  BY <1>6, <1>7

LEMMA PathImplied == PathInv => ResolvesAsMeant /\ ResolversAgree
BY KernelIs DEF ResolvesAsMeant, ResolversAgree

LEMMA PathStarts == PathInit => PathInv
<1>1. Idle \in [base : Seq(PathBytes), path : Seq(PathBytes)] /\ Idle.base = Root /\ Idle.path = Root
  BY RootCanonical DEF Idle
<1> QED  BY <1>1, RootCanonical DEF PathInit, PathInv

LEMMA PathSteps == PathInv /\ [PathNext]_pathVars => PathInv'
<1> SUFFICES ASSUME PathInv, [PathNext]_pathVars PROVE PathInv'
  OBVIOUS
<1>1. Idle \in [base : Seq(PathBytes), path : Seq(PathBytes)] /\ Idle.base = Root /\ Idle.path = Root
  BY RootCanonical DEF Idle
<1>2. CASE asked' = Idle /\ Canonical(cwd')
  BY <1>1, <1>2, RootCanonical DEF PathInv
<1>3. ASSUME NEW path \in PathSet, Resolve(path) PROVE PathInv'
  <2>1. path \in Seq(PathBytes) /\ path # <<>>
    BY <1>3 DEF Resolve, PathSet, BoundedSeq, SeqOf, PathBytes
  <2>2. Canonical(cwd) /\ cwd \in Seq(PathBytes)
    BY CanonicalIs DEF PathInv
  <2>3. asked' = [base |-> cwd, path |-> path] /\ cwd' = cwd
    BY <1>3 DEF Resolve
  <2>4. asked'.base = cwd /\ asked'.path = path /\ asked' \in [base : Seq(PathBytes), path : Seq(PathBytes)]
    BY <2>1, <2>2, <2>3
  <2> QED  BY <2>1, <2>2, <2>3, <2>4 DEF PathInv
<1>4. CASE Install
  <2>1. Canonical(cwd') /\ asked' = Idle
    BY <1>4, KernelIs DEF Install
  <2> QED  BY <2>1, <1>2
<1>5. CASE GiveUp
  BY <1>2, <1>5 DEF GiveUp, PathInv
<1>6. CASE UNCHANGED pathVars
  BY <1>6 DEF pathVars, PathInv
<1> QED  BY <1>3, <1>4, <1>5, <1>6 DEF PathNext

(* Whatever directories were changed to, the kernel resolves a path to the *)
(* spelling of the names that remain when every "." is dropped and every   *)
(* ".." takes back the name before it, and refuses it only when the bytes  *)
(* or the names could not fit, for every size of the buffer, every number  *)
(* of components and every path (normalize_path, process_chdir).           *)
THEOREM ResolverCorrect == Spec => []ResolvesAsMeant
<1>1. Init => PathInv
  BY PathStarts DEF Init
<1>2. PathInv /\ [Next]_vars => PathInv'
  BY TextSteps, PathSteps
<1>3. PathInv => ResolvesAsMeant
  BY PathImplied
<1> QED  BY <1>1, <1>2, <1>3, PTL DEF Spec

(* The shell looks for a program at the path the kernel would open: lash's *)
(* resolver, which keeps no starts and cuts the buffer at its last slash,  *)
(* answers with the same bytes for every path the kernel accepts, from     *)
(* every directory it can be in (normalize_command_path, normalize_path).  *)
THEOREM ResolversAgreeCorrect == Spec => []ResolversAgree
<1>1. Init => PathInv
  BY PathStarts DEF Init
<1>2. PathInv /\ [Next]_vars => PathInv'
  BY TextSteps, PathSteps
<1>3. PathInv => ResolversAgree
  BY PathImplied
<1> QED  BY <1>1, <1>2, <1>3, PTL DEF Spec
=============================================================================
