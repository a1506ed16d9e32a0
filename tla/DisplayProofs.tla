---------------------------- MODULE DisplayProofs ----------------------------
(***************************************************************************)
(* Proofs about Display.tla, for every size of the screen and of the pane, *)
(* every banner and whatever is typed and printed.                         *)
(*                                                                         *)
(* DisplayInvariant says where the cursor may be at each step of the two   *)
(* writers, ShownInvariant what is read at the places of the pane.  What   *)
(* each call of vga.c does to a screen, and to what is read there, is      *)
(* shown once.                                                             *)
(***************************************************************************)
EXTENDS Display, KeyboardProofs, WellFoundedInduction

(***************************************************************************)
(* Steps in a row.                                                         *)
(***************************************************************************)
\* What holds at 0 and from each number to the next holds up to n.
LEMMA UpTo ==
  ASSUME NEW n \in Nat, NEW T, 0 \in T, \A i \in 1..n : i - 1 \in T => i \in T
  PROVE  \A i \in 0..n : i \in T
<1> DEFINE Missing == {i \in 0..n : i \notin T}
<1>1. SUFFICES ASSUME Missing # {}
               PROVE  FALSE
  OBVIOUS
<1>2. \E i \in Missing : \A m \in Missing : ~ (<<m, i>> \in OpToRel(<, Nat))
  <2>1. Missing \in SUBSET Nat
    OBVIOUS
  <2> HIDE DEF Missing
  <2> QED
    BY <1>1, <2>1, NatLessThanWellFounded, WFMin, Zenon
<1>3. \A m, i \in Nat : m < i => <<m, i>> \in OpToRel(<, Nat)
  <2>1. SUFFICES ASSUME NEW m \in Nat, NEW i \in Nat, m < i
                 PROVE  <<m, i>> \in {ss \in Nat \X Nat : ss[1] < ss[2]}
    BY Zenon DEF OpToRel
  <2> QED
    BY <2>1, SMT
<1>4. PICK i \in Missing : \A m \in Missing : ~ (m < i)
  <2>1. PICK i \in Missing : \A m \in Missing : ~ (<<m, i>> \in OpToRel(<, Nat))
    BY <1>2
  <2>2. \A m \in Missing : m \in Nat
    OBVIOUS
  <2>3. \A m \in Missing : ~ (m < i)
    BY <1>3, <2>1, <2>2, Zenon
  <2> QED
    BY <2>3
<1>5. i \in 1..n /\ i - 1 \notin Missing /\ i - 1 \in 0..n
  BY <1>4
<1> QED
  BY <1>4, <1>5

\* A function that takes the i-th step in a set.
StepsIn(f, n, D) == \A i \in 1..n : \A x \in D : f[<<i, x>>] \in D

\* The states there are after each of n steps.
Runs(after, f, d, n) ==
  after = [i \in 0..n |-> IF i = 0 THEN d ELSE f[<<i, after[i - 1]>>]]

\* There are such states.
LEMMA StepsExist ==
  ASSUME NEW D, NEW d \in D, NEW f, NEW n \in Nat, StepsIn(f, n, D)
  PROVE  \E after \in [0..n -> D] : Runs(after, f, d, n)
<1> DEFINE Is(after, m) ==
             /\ after \in [0..m -> D] /\ after[0] = d
             /\ \A i \in 1..m : after[i] = f[<<i, after[i - 1]>>]
           T == {m \in 0..n : \E after : Is(after, m)}
<1>1. 0 \in T
  <2> DEFINE first == [i \in 0..0 |-> d]
  <2>1. Is(first, 0) /\ 0 \in 0..n
    OBVIOUS
  <2> HIDE DEF first, Is
  <2> QED
    BY <2>1
<1>2. ASSUME NEW m \in 1..n, m - 1 \in T
      PROVE  m \in T
  <2>1. PICK old : Is(old, m - 1)
    BY <1>2
  <2> DEFINE last == f[<<m, old[m - 1]>>]
             new == [i \in 0..m |-> IF i = m THEN last ELSE old[i]]
  <2>2. m \in Nat /\ m - 1 \in 0..(m - 1) /\ m # 0
    OBVIOUS
  <2>3. last \in D
    BY <2>1, <2>2 DEF StepsIn
  <2>4. \A i \in 0..(m - 1) : new[i] = old[i]
    OBVIOUS
  <2>5. new[m] = last
    OBVIOUS
  <2>6. new \in [0..m -> D]
    <3>1. \A i \in 0..m : (IF i = m THEN last ELSE old[i]) \in D
      BY <2>1, <2>3
    <3> HIDE DEF last
    <3> QED
      BY <3>1
  <2>7. \A i \in 1..m : new[i] = f[<<i, new[i - 1]>>]
    <3> TAKE i \in 1..m
    <3>1. i - 1 \in 0..(m - 1)
      OBVIOUS
    <3>2. new[i - 1] = old[i - 1]
      BY <2>4, <3>1
    <3>3. CASE i = m
      <4> HIDE DEF new
      <4> QED
        BY <2>5, <3>2, <3>3
    <3>4. CASE i # m
      <4>1. i \in 1..(m - 1) /\ i \in 0..(m - 1)
        BY <3>4
      <4>2. new[i] = old[i] /\ old[i] = f[<<i, old[i - 1]>>]
        BY <2>1, <2>4, <4>1
      <4> HIDE DEF new
      <4> QED
        BY <3>2, <4>2
    <3> QED
      BY <3>3, <3>4
  <2>8. new[0] = d
    BY <2>1, <2>2, <2>4
  <2> HIDE DEF new
  <2>9. Is(new, m)
    BY <2>6, <2>7, <2>8
  <2> QED
    BY <2>9
<1>3. n \in T
  <2> HIDE DEF T
  <2>1. \A i \in 0..n : i \in T
    BY <1>1, <1>2, UpTo
  <2> QED
    BY <2>1
<1>4. PICK after : Is(after, n)
  BY <1>3
<1>5. Runs(after, f, d, n)
  <2>1. after = [i \in 0..n |-> after[i]]
    BY <1>4
  <2>2. \A i \in 0..n : after[i] = IF i = 0 THEN d ELSE f[<<i, after[i - 1]>>]
    BY <1>4
  <2> QED
    BY <2>1, <2>2 DEF Runs
<1> QED
  BY <1>4, <1>5

(***************************************************************************)
(* Places of the screen.                                                   *)
(***************************************************************************)
\* The screen and the pane have room.
LEMMA ScreenFacts ==
  /\ Width \in Nat /\ Height \in Nat
  /\ PaneLeft \in Nat /\ PaneRight \in Nat /\ PaneTop \in Nat /\ PaneBottom \in Nat
  /\ 0 < PaneLeft /\ PaneLeft <= PaneRight /\ PaneRight < Width - 1
  /\ 0 < PaneTop /\ PaneTop <= PaneBottom /\ PaneBottom < Height - 1
  /\ Blank \in Glyphs /\ "frame" \in Glyphs
BY ScreenAssumption

\* The rows and columns where a cursor may stand.
Rows == PaneTop..PaneBottom
Columns == PaneLeft..PaneRight

\* The cells under them are the pane's.
LEMMA PaneCells ==
  ASSUME NEW x \in Columns, NEW y \in Rows
  PROVE  <<x, y>> \in Cells /\ <<x, y>> \in Pane
<1>1. x \in 1..(Width - 2) /\ x \in 0..(Width - 1) /\ y \in 0..(Height - 1)
  BY ScreenFacts DEF Rows, Columns
<1> QED
  BY <1>1 DEF Cells, Pane, Rows

\* The parts of a screen, and that they make one.
LEMMA ScreenParts ==
  ASSUME NEW s
  PROVE  s \in ScreenType => /\ s.x \in 0..(Width - 1) /\ s.y \in Nat
                             /\ s.window \in BOOLEAN /\ s.cells \in [Cells -> Glyphs]
BY DEF ScreenType

\* In window mode, the cursor in the pane; at most one step past its edge, where the
\* next character or newline takes it back.
InPane(s) == s.window /\ s.x \in Columns /\ s.y \in Rows
Near(s) ==
  /\ s.window
  /\ \/ s.x \in PaneLeft..(PaneRight + 1) /\ s.y \in Rows
     \/ s.x = PaneLeft /\ s.y = PaneBottom + 1

SameBorder(s, m) == \A cell \in Border : m.cells[cell] = s.cells[cell]

\* What a writer may do to a screen: it leaves the mode, takes neither the column nor the
\* row of the cursor out of the pane, and from near the pane leaves the frame.
Stays(s, m) ==
  /\ m \in ScreenType /\ m.window = s.window
  /\ ~s.window /\ s.y < Height => m.y < Height
  /\ s.window /\ s.x \in Columns => m.x \in Columns
  /\ s.window /\ s.x \in PaneLeft..(PaneRight + 1) => m.x \in PaneLeft..(PaneRight + 1)
  /\ s.window /\ s.y \in Rows => m.y \in Rows
  /\ Near(s) => Near(m) /\ SameBorder(s, m)

\* The same, and the cursor is in the pane afterwards.
Settles(s, m) == Stays(s, m) /\ (s.window => InPane(m))

LEMMA StaysSame ==
  ASSUME NEW s \in ScreenType
  PROVE  Stays(s, s)
BY DEF Stays, SameBorder

LEMMA StaysInPane ==
  ASSUME NEW s, NEW m, Stays(s, m), InPane(s)
  PROVE  InPane(m)
BY DEF Stays, InPane

LEMMA StaysOn ==
  ASSUME NEW s, NEW m, NEW n, Stays(s, m), Stays(m, n)
  PROVE  Stays(s, n)
BY DEF Stays, SameBorder

LEMMA SettlesOn ==
  ASSUME NEW s, NEW m, NEW n, Stays(s, m), Settles(m, n)
  PROVE  Settles(s, n)
<1>1. Stays(s, n)
  BY StaysOn DEF Settles
<1> QED
  BY <1>1 DEF Settles, Stays

LEMMA InPaneIsNear ==
  ASSUME NEW s
  PROVE  /\ InPane(s) => Near(s)
         /\ s.x \in Columns => s.x \in PaneLeft..(PaneRight + 1)
BY ScreenFacts DEF InPane, Near, Rows, Columns

\* Outside window mode only the type, the mode and the last row are at stake.
LEMMA StaysOutside ==
  ASSUME NEW s, NEW m \in ScreenType, m.window = s.window, ~s.window,
         s.y < Height => m.y < Height
  PROVE  Settles(s, m)
BY DEF Settles, Stays, Near, InPane

\* In window mode, a screen with its cursor in the pane and the frame as it was.
LEMMA SettlesInPane ==
  ASSUME NEW s, NEW m \in ScreenType, m.window = s.window, s.window => InPane(m),
         s.window => SameBorder(s, m), ~s.window /\ s.y < Height => m.y < Height
  PROVE  Settles(s, m)
<1>1. CASE s.window
  BY <1>1, InPaneIsNear DEF Settles, Stays, InPane
<1>2. CASE ~s.window
  BY <1>2, StaysOutside
<1> QED
  BY <1>1, <1>2

(***************************************************************************)
(* What the calls of vga.c do.                                             *)
(***************************************************************************)
\* A cell written.
LEMMA WriteFacts ==
  ASSUME NEW s \in ScreenType, NEW glyph \in Glyphs
  PROVE  /\ Write(s, glyph) \in ScreenType
         /\ Write(s, glyph).x = s.x /\ Write(s, glyph).y = s.y
         /\ Write(s, glyph).window = s.window
         /\ Write(s, glyph).cells = [s.cells EXCEPT ![<<s.x, s.y>>] = glyph]
<1>1. /\ s.x \in 0..(Width - 1) /\ s.y \in Nat /\ s.window \in BOOLEAN
      /\ s.cells \in [Cells -> Glyphs]
  BY ScreenParts
<1>2. [s.cells EXCEPT ![<<s.x, s.y>>] = glyph] \in [Cells -> Glyphs]
  BY <1>1
<1>3. /\ Write(s, glyph).x = s.x /\ Write(s, glyph).y = s.y
      /\ Write(s, glyph).window = s.window
      /\ Write(s, glyph).cells = [s.cells EXCEPT ![<<s.x, s.y>>] = glyph]
  BY DEF Write, ScreenType
<1>4. Write(s, glyph) \in ScreenType
  BY <1>2 DEF Write, ScreenType
<1> QED
  BY <1>3, <1>4

\* In the pane it is no cell of the frame.
LEMMA WriteInPane ==
  ASSUME NEW s \in ScreenType, InPane(s), NEW glyph \in Glyphs
  PROVE  Write(s, glyph) \in ScreenType /\ Settles(s, Write(s, glyph))
<1>1. <<s.x, s.y>> \in Pane
  BY PaneCells DEF InPane
<1>2. SameBorder(s, Write(s, glyph))
  <2>1. ASSUME NEW cell \in Border
        PROVE  Write(s, glyph).cells[cell] = s.cells[cell]
    <3>1. cell \in Cells /\ cell # <<s.x, s.y>>
      BY <1>1 DEF Border
    <3>2. s.cells \in [Cells -> Glyphs]
      BY ScreenParts
    <3> QED
      BY <3>1, <3>2, WriteFacts
  <2> QED
    BY <2>1 DEF SameBorder
<1>3. InPane(Write(s, glyph)) /\ Write(s, glyph) \in ScreenType
  BY WriteFacts DEF InPane
<1>4. Write(s, glyph).window = s.window
  BY WriteFacts
<1>5. s.window
  BY DEF InPane
<1> QED
  BY <1>2, <1>3, <1>4, <1>5, SettlesInPane

\* The cursor one place to the left.
LEMMA MoveLeftFacts ==
  ASSUME NEW s \in ScreenType
  PROVE  /\ MoveLeft(s) \in ScreenType
         /\ MoveLeft(s).window = s.window /\ MoveLeft(s).cells = s.cells
         /\ s.window /\ Near(s) => InPane(MoveLeft(s))
         /\ s.window /\ s.x \in Columns => MoveLeft(s).x \in Columns
         /\ s.window /\ s.x \in PaneLeft..(PaneRight + 1) => MoveLeft(s).x \in Columns
         /\ s.window /\ s.y \in Rows => MoveLeft(s).y \in Rows
         /\ MoveLeft(s).y <= s.y
<1> DEFINE m == MoveLeft(s)
<1>1. /\ s.x \in 0..(Width - 1) /\ s.y \in Nat /\ s.window \in BOOLEAN
  BY ScreenParts
<1>2. m.window = s.window /\ m.cells = s.cells
  BY DEF MoveLeft, ScreenType
<1>3. m \in ScreenType
  <2>1. ASSUME NEW x \in 0..(Width - 1), NEW y \in Nat
        PROVE  [s EXCEPT !.x = x, !.y = y] \in ScreenType /\ [s EXCEPT !.x = x] \in ScreenType
    BY DEF ScreenType
  <2>2. PaneRight \in 0..(Width - 1) /\ Width - 1 \in 0..(Width - 1)
    BY ScreenFacts
  <2>3. s.x > 0 => s.x - 1 \in 0..(Width - 1)
    BY <1>1, ScreenFacts
  <2>4. s.y > 0 => s.y - 1 \in Nat
    BY <1>1, ScreenFacts
  <2>5. s.x > PaneLeft => s.x > 0
    BY <1>1, ScreenFacts
  <2>6. s.y > PaneTop => s.y > 0
    BY <1>1, ScreenFacts
  <2>7. CASE s.x > IF s.window THEN PaneLeft ELSE 0
    <3> DEFINE x == s.x - 1
    <3>1. m = [s EXCEPT !.x = x]
      BY <2>7 DEF MoveLeft
    <3>2. x \in 0..(Width - 1) /\ s.y \in Nat
      BY <1>1, <2>3, <2>5, <2>7
    <3> HIDE DEF x
    <3> QED
      BY <2>1, <3>1, <3>2
  <2>8. CASE /\ ~(s.x > IF s.window THEN PaneLeft ELSE 0)
             /\ s.y > IF s.window THEN PaneTop ELSE 0
    <3> DEFINE x == IF s.window THEN PaneRight ELSE Width - 1
    <3>1. m = [s EXCEPT !.x = x, !.y = s.y - 1]
      BY <2>8 DEF MoveLeft
    <3>2. x \in 0..(Width - 1) /\ s.y - 1 \in Nat
      BY <2>2, <2>4, <2>6, <2>8
    <3> QED
      BY <2>1, <3>1, <3>2
  <2>9. CASE /\ ~(s.x > IF s.window THEN PaneLeft ELSE 0)
             /\ ~(s.y > IF s.window THEN PaneTop ELSE 0)
    <3>1. m = s
      BY <2>9 DEF MoveLeft
    <3> QED
      BY <3>1
  <2> QED
    BY <2>7, <2>8, <2>9
<1>4. s.window /\ s.x > PaneLeft => m.x = s.x - 1 /\ m.y = s.y
  BY DEF MoveLeft, ScreenType
<1>5. s.window /\ ~(s.x > PaneLeft) /\ s.y > PaneTop => m.x = PaneRight /\ m.y = s.y - 1
  BY DEF MoveLeft, ScreenType
<1>6. s.window /\ ~(s.x > PaneLeft) /\ ~(s.y > PaneTop) => m.x = s.x /\ m.y = s.y
  BY DEF MoveLeft, ScreenType
<1>10. ~s.window => m.y = s.y \/ m.y = s.y - 1
  BY DEF MoveLeft, ScreenType
<1> HIDE DEF m
<1>7. s.window /\ s.x \in PaneLeft..(PaneRight + 1) => m.x \in Columns
  BY <1>1, <1>4, <1>5, <1>6, ScreenFacts DEF Columns
<1>8. s.window /\ s.y \in Rows => m.y \in Rows
  BY <1>1, <1>4, <1>5, <1>6, ScreenFacts DEF Rows
<1>9. s.window /\ Near(s) => InPane(m)
  BY <1>1, <1>2, <1>4, <1>5, <1>6, ScreenFacts DEF Near, InPane, Rows, Columns
<1>11. s.window /\ s.x \in Columns => m.x \in Columns
  BY <1>7, InPaneIsNear
<1>12. m.y <= s.y
  BY <1>1, <1>4, <1>5, <1>6, <1>10, ScreenFacts
<1> QED
  BY <1>2, <1>3, <1>7, <1>8, <1>9, <1>11, <1>12 DEF m

LEMMA MoveLeftStays ==
  ASSUME NEW s \in ScreenType
  PROVE  Stays(s, MoveLeft(s))
<1> DEFINE m == MoveLeft(s)
<1>1. SameBorder(s, m)
  BY MoveLeftFacts DEF SameBorder
<1>2. /\ m \in ScreenType /\ m.window = s.window
      /\ s.window /\ Near(s) => InPane(m)
      /\ s.window /\ s.x \in Columns => m.x \in Columns
      /\ s.window /\ s.x \in PaneLeft..(PaneRight + 1) => m.x \in Columns
      /\ s.window /\ s.y \in Rows => m.y \in Rows
      /\ m.y <= s.y
  BY MoveLeftFacts
<1>3. m.y \in Nat /\ s.y \in Nat
  BY <1>2, ScreenParts
<1> HIDE DEF m
<1>4. ~s.window /\ s.y < Height => m.y < Height
  BY <1>2, <1>3, ScreenFacts
<1>5. Near(s) => Near(m)
  BY <1>2, InPaneIsNear DEF Near
<1>6. s.window /\ s.x \in PaneLeft..(PaneRight + 1) => m.x \in PaneLeft..(PaneRight + 1)
  BY <1>2, InPaneIsNear
<1> QED
  BY <1>1, <1>2, <1>4, <1>5, <1>6 DEF Stays, m

\* Before the wrap the cursor may be a column beside the screen.
LooseColumn == [x : 0..Width, y : Nat, window : BOOLEAN, cells : [Cells -> Glyphs]]

\* scroll_screen
LEMMA ScrollScreenFacts ==
  ASSUME NEW t \in ScreenType
  PROVE  /\ ScrollScreen(t) \in ScreenType /\ ScrollScreen(t).window = t.window
         /\ ScrollScreen(t).y < Height
<1> DEFINE cells == [cell \in Cells |-> IF cell[2] = Height - 1 THEN Blank
                                        ELSE t.cells[<<cell[1], cell[2] + 1>>]]
<1>1. cells \in [Cells -> Glyphs]
  <2>1. ASSUME NEW cell \in Cells, cell[2] # Height - 1
        PROVE  t.cells[<<cell[1], cell[2] + 1>>] \in Glyphs
    <3>1. <<cell[1], cell[2] + 1>> \in Cells
      BY <2>1, ScreenFacts DEF Cells
    <3> QED
      BY <3>1 DEF ScreenType
  <2> QED
    BY <2>1, ScreenFacts
<1>2. ScrollScreen(t) = [t EXCEPT !.y = Height - 1, !.cells = cells]
  BY DEF ScrollScreen, ScreenType
<1> HIDE DEF cells
<1>3. Height - 1 \in Nat /\ Height - 1 < Height
  BY ScreenFacts
<1> QED
  BY <1>1, <1>2, <1>3 DEF ScreenType

\* scroll_window_content, and the cells it leaves.
Scrolled(cells) ==
  [cell \in Cells |-> IF cell \in Border THEN cells[cell]
                      ELSE IF cell[2] = PaneBottom THEN Blank
                      ELSE cells[<<cell[1], cell[2] + 1>>]]

LEMMA ScrollPaneFacts ==
  ASSUME NEW t \in ScreenType
  PROVE  /\ ScrollPane(t) \in ScreenType /\ ScrollPane(t).window = t.window
         /\ ScrollPane(t).x = PaneLeft /\ ScrollPane(t).y = PaneBottom
         /\ ScrollPane(t).cells = Scrolled(t.cells)
         /\ SameBorder(t, ScrollPane(t))
<1> DEFINE cells == Scrolled(t.cells)
<1>1. cells \in [Cells -> Glyphs]
  <2>1. ASSUME NEW cell \in Cells, cell \notin Border, cell[2] # PaneBottom
        PROVE  t.cells[<<cell[1], cell[2] + 1>>] \in Glyphs
    <3>1. cell \in Pane
      BY <2>1 DEF Border
    <3>2. <<cell[1], cell[2] + 1>> \in Cells
      BY <2>1, <3>1, ScreenFacts DEF Cells, Pane
    <3> QED
      BY <3>2 DEF ScreenType
  <2>2. \A cell \in Cells : t.cells[cell] \in Glyphs
    BY DEF ScreenType
  <2> QED
    BY <2>1, <2>2, ScreenFacts DEF Scrolled
<1>2. ScrollPane(t) = [t EXCEPT !.x = PaneLeft, !.y = PaneBottom, !.cells = cells]
  BY DEF ScrollPane, Scrolled, ScreenType
<1>3. \A cell \in Border : cells[cell] = t.cells[cell]
  BY DEF Scrolled, Border
<1> HIDE DEF cells
<1>4. PaneLeft \in 0..(Width - 1) /\ PaneBottom \in Nat
  BY ScreenFacts
<1>5. /\ ScrollPane(t) \in ScreenType /\ ScrollPane(t).window = t.window
      /\ ScrollPane(t).x = PaneLeft /\ ScrollPane(t).y = PaneBottom
      /\ ScrollPane(t).cells = cells
  BY <1>1, <1>2, <1>4 DEF ScreenType
<1>6. SameBorder(t, ScrollPane(t))
  BY <1>3, <1>5 DEF SameBorder
<1> QED
  BY <1>5, <1>6 DEF cells

\* The tests of the column and of the row.
LEMMA ColumnFacts ==
  ASSUME NEW t \in ScreenType
  PROVE  /\ KeepColumn(t) \in ScreenType /\ KeepColumn(t).x \in Columns
         /\ KeepColumn(t).window = t.window /\ KeepColumn(t).cells = t.cells
         /\ t.x \in Columns => KeepColumn(t) = t
<1> DEFINE m == KeepColumn(t)
<1>1. /\ t.x \in 0..(Width - 1) /\ t.y \in Nat
  BY ScreenParts
<1>2. PaneLeft \in 0..(Width - 1) /\ t.y + 1 \in Nat /\ PaneLeft \in Columns
  BY <1>1, ScreenFacts DEF Columns
<1>3. CASE t.x < PaneLeft
  <2>1. m = [t EXCEPT !.x = PaneLeft]
    BY <1>3 DEF KeepColumn
  <2>2. t.x \notin Columns
    BY <1>1, <1>3, ScreenFacts DEF Columns
  <2> HIDE DEF m
  <2>3. m \in ScreenType /\ m.x = PaneLeft /\ m.window = t.window /\ m.cells = t.cells
    BY <1>2, <2>1 DEF ScreenType
  <2> QED
    BY <1>2, <2>2, <2>3 DEF m
<1>4. CASE t.x > PaneRight
  <2>1. ~(t.x < PaneLeft)
    BY <1>1, <1>4, ScreenFacts
  <2>2. m = [t EXCEPT !.x = PaneLeft, !.y = t.y + 1]
    BY <1>4, <2>1 DEF KeepColumn
  <2>3. t.x \notin Columns
    BY <1>1, <1>4, ScreenFacts DEF Columns
  <2> HIDE DEF m
  <2>4. m \in ScreenType /\ m.x = PaneLeft /\ m.window = t.window /\ m.cells = t.cells
    BY <1>2, <2>2 DEF ScreenType
  <2> QED
    BY <1>2, <2>3, <2>4 DEF m
<1>5. CASE ~(t.x < PaneLeft) /\ ~(t.x > PaneRight)
  <2>1. m = t
    BY <1>5 DEF KeepColumn
  <2>2. t.x \in Columns
    BY <1>1, <1>5, ScreenFacts DEF Columns
  <2> QED
    BY <2>1, <2>2
<1> QED
  BY <1>3, <1>4, <1>5

LEMMA TopFacts ==
  ASSUME NEW t \in ScreenType
  PROVE  /\ KeepTop(t) \in ScreenType /\ KeepTop(t).x = t.x /\ KeepTop(t).y >= PaneTop
         /\ KeepTop(t).window = t.window /\ KeepTop(t).cells = t.cells
         /\ t.y >= PaneTop => KeepTop(t) = t
<1>1. t.y \in Nat /\ PaneTop \in Nat
  BY ScreenParts, ScreenFacts
<1>2. CASE t.y < PaneTop
  <2>1. KeepTop(t) = [t EXCEPT !.y = PaneTop]
    BY <1>2 DEF KeepTop
  <2> QED
    BY <1>1, <1>2, <2>1 DEF ScreenType
<1>3. CASE ~(t.y < PaneTop)
  <2>1. KeepTop(t) = t
    BY <1>3 DEF KeepTop
  <2> QED
    BY <1>1, <1>3, <2>1
<1> QED
  BY <1>2, <1>3

\* keep_cursor_in_console: what is in the pane stays, what is below it scrolls.
LEMMA KeepFacts ==
  ASSUME NEW t \in ScreenType
  PROVE  /\ KeepInConsole(t) \in ScreenType /\ KeepInConsole(t).window = t.window
         /\ ~t.window => KeepInConsole(t).y < Height
         /\ t.window => InPane(KeepInConsole(t)) /\ SameBorder(t, KeepInConsole(t))
         /\ InPane(t) => KeepInConsole(t) = t
         /\ t.window /\ t.x \in Columns /\ t.y = PaneBottom + 1
              => KeepInConsole(t) = ScrollPane(t)
<1> DEFINE row == KeepTop(KeepColumn(t))
           m == KeepInConsole(t)
<1>1. t.x \in 0..(Width - 1) /\ t.y \in Nat /\ t.window \in BOOLEAN
  BY ScreenParts
<1>2. m = IF ~t.window THEN (IF t.y >= Height THEN ScrollScreen(t) ELSE t)
          ELSE IF row.y > PaneBottom THEN ScrollPane(row) ELSE row
  BY DEF KeepInConsole
<1>3. CASE ~t.window
  <2>1. CASE t.y >= Height
    BY <1>2, <1>3, <2>1, ScrollScreenFacts DEF InPane
  <2>2. CASE ~(t.y >= Height)
    BY <1>1, <1>2, <1>3, <2>2, ScreenFacts DEF InPane
  <2> QED
    BY <2>1, <2>2
<1>4. CASE t.window
  <2>1. /\ row \in ScreenType /\ row.x \in Columns /\ row.y >= PaneTop
        /\ row.window /\ row.cells = t.cells
    BY <1>4, ColumnFacts, TopFacts
  <2>2. t.x \in Columns /\ t.y >= PaneTop => row = t
    BY ColumnFacts, TopFacts
  <2> HIDE DEF row
  <2>3. row.y \in Nat
    BY <2>1, ScreenParts
  <2>4. CASE row.y > PaneBottom
    <3>1. m = ScrollPane(row)
      BY <1>2, <1>4, <2>4
    <3> HIDE DEF m
    <3>2. ScrollPane(row) \in ScreenType /\ InPane(ScrollPane(row))
      BY <2>1, ScrollPaneFacts, ScreenFacts DEF InPane, Rows, Columns
    <3>3. SameBorder(t, ScrollPane(row))
      BY <2>1, ScrollPaneFacts DEF SameBorder
    <3>4. ~InPane(t)
      BY <2>2, <2>4, ScreenFacts DEF InPane, Rows
    <3>5. t.x \in Columns /\ t.y = PaneBottom + 1 => row = t
      BY <2>2, ScreenFacts
    <3>6. m \in ScreenType /\ m.window = t.window /\ InPane(m) /\ SameBorder(t, m)
      BY <1>4, <3>1, <3>2, <3>3 DEF InPane
    <3> QED
      BY <1>4, <3>1, <3>4, <3>5, <3>6 DEF m
  <2>5. CASE ~(row.y > PaneBottom)
    <3>1. m = row
      BY <1>2, <1>4, <2>5
    <3>2. row.y \in Rows
      BY <2>1, <2>3, <2>5, ScreenFacts DEF Rows
    <3>3. InPane(row) /\ SameBorder(t, row)
      BY <2>1, <3>2 DEF InPane, SameBorder
    <3>4. InPane(t) => row = t
      BY <2>2, ScreenFacts DEF InPane, Rows
    <3>5. ~(t.x \in Columns /\ t.y = PaneBottom + 1)
      BY <2>2, <2>5, ScreenFacts
    <3> HIDE DEF m
    <3> QED
      BY <1>4, <2>1, <3>1, <3>3, <3>4, <3>5 DEF m
  <2> QED
    BY <2>4, <2>5
<1> QED
  BY <1>3, <1>4

\* The end of a line of the screen.
LEMMA WrapFacts ==
  ASSUME NEW t \in LooseColumn
  PROVE  /\ Wrap(t) \in ScreenType /\ Wrap(t).window = t.window /\ Wrap(t).cells = t.cells
         /\ t.window /\ t.x \in Columns => Wrap(t) = t
         /\ t.window /\ t.x > PaneRight => Wrap(t).x = PaneLeft /\ Wrap(t).y = t.y + 1
<1>1. /\ t.x \in 0..Width /\ t.y \in Nat /\ t.window \in BOOLEAN
      /\ t.cells \in [Cells -> Glyphs]
  BY DEF LooseColumn
<1>2. CASE t.window /\ t.x > PaneRight
  <2>1. Wrap(t) = [t EXCEPT !.x = PaneLeft, !.y = t.y + 1]
    BY <1>2 DEF Wrap
  <2>2. PaneLeft \in 0..(Width - 1) /\ t.y + 1 \in Nat
    BY <1>1, ScreenFacts
  <2>3. t.x \notin Columns
    BY <1>1, <1>2, ScreenFacts DEF Columns
  <2> QED
    BY <1>1, <2>1, <2>2, <2>3 DEF LooseColumn, ScreenType
<1>3. CASE ~(t.window /\ t.x > PaneRight) /\ t.x >= Width
  <2>1. Wrap(t) = [t EXCEPT !.x = 0, !.y = t.y + 1]
    BY <1>3 DEF Wrap
  <2>2. 0 \in 0..(Width - 1) /\ t.y + 1 \in Nat
    BY <1>1, ScreenFacts
  <2>3. t.x \notin Columns
    BY <1>1, <1>3, ScreenFacts DEF Columns
  <2> QED
    BY <1>1, <1>3, <2>1, <2>2, <2>3 DEF LooseColumn, ScreenType
<1>4. CASE ~(t.window /\ t.x > PaneRight) /\ ~(t.x >= Width)
  <2>1. Wrap(t) = t
    BY <1>4 DEF Wrap
  <2>2. t.x \in 0..(Width - 1) /\ t.y \in Nat
    BY <1>1, <1>4, ScreenFacts
  <2>3. t \in ScreenType
    BY <2>2 DEF LooseColumn, ScreenType
  <2> QED
    BY <1>4, <2>1, <2>3
<1> QED
  BY <1>2, <1>3, <1>4

LEMMA KeepSettles ==
  ASSUME NEW s \in ScreenType
  PROVE  Settles(s, KeepInConsole(s))
BY KeepFacts, SettlesInPane

LEMMA MoveRightSettles ==
  ASSUME NEW s \in ScreenType
  PROVE  Settles(s, MoveRight(s))
<1> DEFINE t == [s EXCEPT !.x = @ + 1]
<1>1. s.x + 1 \in 0..Width
  BY ScreenParts, ScreenFacts
<1>2. t \in LooseColumn /\ t.window = s.window /\ t.cells = s.cells
  BY <1>1 DEF ScreenType, LooseColumn
<1>3. MoveRight(s) = KeepInConsole(Wrap(t))
  BY DEF MoveRight
<1> HIDE DEF t
<1>4. Wrap(t) \in ScreenType /\ Wrap(t).window = s.window /\ Wrap(t).cells = s.cells
  BY <1>2, WrapFacts
<1>5. /\ MoveRight(s) \in ScreenType /\ MoveRight(s).window = s.window
      /\ ~s.window => MoveRight(s).y < Height
      /\ s.window => InPane(MoveRight(s)) /\ SameBorder(Wrap(t), MoveRight(s))
  BY <1>3, <1>4, KeepFacts
<1>6. s.window => SameBorder(s, MoveRight(s))
  BY <1>4, <1>5 DEF SameBorder
<1> QED
  BY <1>5, <1>6, SettlesInPane

LEMMA EraseStays ==
  ASSUME NEW s \in ScreenType
  PROVE  Stays(s, Erase(s))
<1> DEFINE left == MoveLeft(s)
           m == Write(left, Blank)
<1>1. left \in ScreenType /\ Stays(s, left) /\ Blank \in Glyphs
  BY MoveLeftFacts, MoveLeftStays, ScreenFacts
<1>2. Near(s) => InPane(left)
  BY MoveLeftFacts DEF Near
<1> HIDE DEF left
<1>3. m \in ScreenType /\ m.x = left.x /\ m.y = left.y /\ m.window = left.window
  BY <1>1, WriteFacts
<1>4. InPane(left) => Stays(left, m)
  BY <1>1, WriteInPane DEF Settles
<1>5. ~s.window /\ s.y < Height => m.y < Height
  BY <1>1, <1>3 DEF Stays
<1> HIDE DEF m
<1>6. Stays(s, m)
  <2>1. CASE Near(s)
    BY <1>1, <1>2, <1>4, <2>1, StaysOn
  <2>2. CASE ~Near(s)
    BY <1>1, <1>3, <1>5, <2>2 DEF Stays
  <2> QED
    BY <2>1, <2>2
<1>7. Erase(s) = IF s.x = 0 /\ s.y = 0 THEN s ELSE m
  BY DEF Erase, m, left
<1> QED
  BY <1>6, <1>7, StaysSame

LEMMA PrintGlyphSettles ==
  ASSUME NEW s \in ScreenType, NEW glyph \in Glyphs
  PROVE  Settles(s, PrintGlyph(s, glyph))
<1> DEFINE kept == KeepInConsole(s)
           written == Write(kept, glyph)
<1>1. Settles(s, kept) /\ kept \in ScreenType
  BY KeepSettles DEF Settles, Stays
<1>2. PrintGlyph(s, glyph) = MoveRight(written)
  BY DEF PrintGlyph, MoveRight
<1> HIDE DEF kept
<1>3. written \in ScreenType /\ written.window = kept.window /\ written.y = kept.y
  BY <1>1, WriteFacts
<1>4. Stays(kept, written)
  <2>1. CASE kept.window
    BY <1>1, <2>1, WriteInPane DEF Settles, Stays
  <2>2. CASE ~kept.window
    BY <1>3, <2>2, StaysOutside DEF Settles
  <2> QED
    BY <2>1, <2>2
<1> HIDE DEF written
<1>5. Settles(written, MoveRight(written))
  BY <1>3, MoveRightSettles
<1>6. Stays(s, written)
  BY <1>1, <1>4, StaysOn DEF Settles
<1> QED
  BY <1>2, <1>5, <1>6, SettlesOn

LEMMA NewLineSettles ==
  ASSUME NEW s \in ScreenType
  PROVE  Settles(s, NewLine(s))
<1> DEFINE x == IF s.window THEN PaneLeft ELSE 0
           t == [s EXCEPT !.x = x, !.y = s.y + 1]
<1>1. x \in 0..(Width - 1) /\ s.y + 1 \in Nat
  BY ScreenParts, ScreenFacts
<1>2. NewLine(s) = KeepInConsole(t)
  BY DEF NewLine
<1> HIDE DEF x
<1>3. t \in ScreenType /\ t.window = s.window /\ t.cells = s.cells
  BY <1>1 DEF ScreenType
<1> HIDE DEF t
<1>4. /\ NewLine(s) \in ScreenType /\ NewLine(s).window = s.window
      /\ ~s.window => NewLine(s).y < Height
      /\ s.window => InPane(NewLine(s)) /\ SameBorder(t, NewLine(s))
  BY <1>2, <1>3, KeepFacts
<1>5. s.window => SameBorder(s, NewLine(s))
  BY <1>3, <1>4 DEF SameBorder
<1> QED
  BY <1>4, <1>5, SettlesInPane

LEMMA PutSettles ==
  ASSUME NEW s \in ScreenType, NEW glyph \in Glyphs
  PROVE  Settles(s, Put(s, glyph))
BY PrintGlyphSettles, NewLineSettles DEF Put

(***************************************************************************)
(* Several calls in a row.                                                 *)
(***************************************************************************)
LEMMA LeftBySteps ==
  ASSUME NEW s \in ScreenType, NEW n \in Nat
  PROVE  \E after : /\ LeftBy(s, n) = after[n] /\ after[0] = s
                    /\ \A i \in 1..n : after[i] = MoveLeft(after[i - 1])
<1> DEFINE f == [p \in (1..n) \X ScreenType |-> MoveLeft(p[2])]
           Is(after) == after = [i \in 0..n |-> IF i = 0 THEN s ELSE MoveLeft(after[i - 1])]
           g == CHOOSE after : Is(after)
<1>1. \A i \in 1..n : \A x \in ScreenType : f[<<i, x>>] = MoveLeft(x)
  OBVIOUS
<1> HIDE DEF f
<1>2. StepsIn(f, n, ScreenType)
  BY <1>1, MoveLeftStays DEF Stays, StepsIn
<1>3. PICK after \in [0..n -> ScreenType] : Runs(after, f, s, n)
  BY <1>2, StepsExist, Zenon
<1>4. Is(after)
  <2>1. \A i \in 0..n : after[i] = IF i = 0 THEN s ELSE MoveLeft(after[i - 1])
    <3> TAKE i \in 0..n
    <3>1. after[i] = IF i = 0 THEN s ELSE f[<<i, after[i - 1]>>]
      BY <1>3 DEF Runs
    <3>2. i # 0 => i \in 1..n /\ after[i - 1] \in ScreenType
      OBVIOUS
    <3> QED
      BY <1>1, <3>1, <3>2
  <2>2. after = [i \in 0..n |-> after[i]]
    OBVIOUS
  <2> QED
    BY <2>1, <2>2
<1>5. Is(g)
  BY <1>4
<1>6. LeftBy(s, n) = g[n]
  BY DEF LeftBy
<1> HIDE DEF g
<1> QED
  BY <1>5, <1>6

LEMMA RightBySteps ==
  ASSUME NEW s \in ScreenType, NEW n \in Nat
  PROVE  \E after : /\ RightBy(s, n) = after[n] /\ after[0] = s
                    /\ \A i \in 1..n : after[i] = MoveRight(after[i - 1])
<1> DEFINE f == [p \in (1..n) \X ScreenType |-> MoveRight(p[2])]
           Is(after) == after = [i \in 0..n |-> IF i = 0 THEN s ELSE MoveRight(after[i - 1])]
           g == CHOOSE after : Is(after)
<1>1. \A i \in 1..n : \A x \in ScreenType : f[<<i, x>>] = MoveRight(x)
  OBVIOUS
<1> HIDE DEF f
<1>2. StepsIn(f, n, ScreenType)
  BY <1>1, MoveRightSettles DEF Settles, Stays, StepsIn
<1>3. PICK after \in [0..n -> ScreenType] : Runs(after, f, s, n)
  BY <1>2, StepsExist, Zenon
<1>4. Is(after)
  <2>1. \A i \in 0..n : after[i] = IF i = 0 THEN s ELSE MoveRight(after[i - 1])
    <3> TAKE i \in 0..n
    <3>1. after[i] = IF i = 0 THEN s ELSE f[<<i, after[i - 1]>>]
      BY <1>3 DEF Runs
    <3>2. i # 0 => i \in 1..n /\ after[i - 1] \in ScreenType
      OBVIOUS
    <3> QED
      BY <1>1, <3>1, <3>2
  <2>2. after = [i \in 0..n |-> after[i]]
    OBVIOUS
  <2> QED
    BY <2>1, <2>2
<1>5. Is(g)
  BY <1>4
<1>6. RightBy(s, n) = g[n]
  BY DEF RightBy
<1> HIDE DEF g
<1> QED
  BY <1>5, <1>6

LEMMA EraseBySteps ==
  ASSUME NEW s \in ScreenType, NEW n \in Nat
  PROVE  \E after : /\ EraseBy(s, n) = after[n] /\ after[0] = s
                    /\ \A i \in 1..n : after[i] = Erase(after[i - 1])
<1> DEFINE f == [p \in (1..n) \X ScreenType |-> Erase(p[2])]
           Is(after) == after = [i \in 0..n |-> IF i = 0 THEN s ELSE Erase(after[i - 1])]
           g == CHOOSE after : Is(after)
<1>1. \A i \in 1..n : \A x \in ScreenType : f[<<i, x>>] = Erase(x)
  OBVIOUS
<1> HIDE DEF f
<1>2. StepsIn(f, n, ScreenType)
  BY <1>1, EraseStays DEF Stays, StepsIn
<1>3. PICK after \in [0..n -> ScreenType] : Runs(after, f, s, n)
  BY <1>2, StepsExist, Zenon
<1>4. Is(after)
  <2>1. \A i \in 0..n : after[i] = IF i = 0 THEN s ELSE Erase(after[i - 1])
    <3> TAKE i \in 0..n
    <3>1. after[i] = IF i = 0 THEN s ELSE f[<<i, after[i - 1]>>]
      BY <1>3 DEF Runs
    <3>2. i # 0 => i \in 1..n /\ after[i - 1] \in ScreenType
      OBVIOUS
    <3> QED
      BY <1>1, <3>1, <3>2
  <2>2. after = [i \in 0..n |-> after[i]]
    OBVIOUS
  <2> QED
    BY <2>1, <2>2
<1>5. Is(g)
  BY <1>4
<1>6. EraseBy(s, n) = g[n]
  BY DEF EraseBy
<1> HIDE DEF g
<1> QED
  BY <1>5, <1>6


LEMMA LeftByStays ==
  ASSUME NEW s \in ScreenType, NEW n \in Nat
  PROVE  Stays(s, LeftBy(s, n))
<1>1. PICK after : /\ LeftBy(s, n) = after[n] /\ after[0] = s
                   /\ \A i \in 1..n : after[i] = MoveLeft(after[i - 1])
  BY LeftBySteps
<1> DEFINE T == {i \in 0..n : after[i] \in ScreenType /\ Stays(s, after[i])}
<1>2. 0 \in T
  BY <1>1, StaysSame
<1>3. ASSUME NEW i \in 1..n, i - 1 \in T
      PROVE  i \in T
  <2>1. after[i - 1] \in ScreenType /\ Stays(s, after[i - 1])
    BY <1>3
  <2>2. Stays(after[i - 1], after[i])
    BY <1>1, <2>1, MoveLeftStays
  <2>3. Stays(s, after[i]) /\ after[i] \in ScreenType
    BY <2>1, <2>2, StaysOn DEF Stays
  <2> QED
    BY <2>3
<1> HIDE DEF T
<1>4. \A i \in 0..n : i \in T
  BY <1>2, <1>3, UpTo
<1>5. n \in T
  BY <1>4
<1> QED
  BY <1>1, <1>5 DEF T

LEMMA RightByStays ==
  ASSUME NEW s \in ScreenType, NEW n \in Nat
  PROVE  Stays(s, RightBy(s, n))
<1>1. PICK after : /\ RightBy(s, n) = after[n] /\ after[0] = s
                   /\ \A i \in 1..n : after[i] = MoveRight(after[i - 1])
  BY RightBySteps
<1> DEFINE T == {i \in 0..n : after[i] \in ScreenType /\ Stays(s, after[i])}
<1>2. 0 \in T
  BY <1>1, StaysSame
<1>3. ASSUME NEW i \in 1..n, i - 1 \in T
      PROVE  i \in T
  <2>1. after[i - 1] \in ScreenType /\ Stays(s, after[i - 1])
    BY <1>3
  <2>2. Stays(after[i - 1], after[i])
    BY <1>1, <2>1, MoveRightSettles DEF Settles
  <2>3. Stays(s, after[i]) /\ after[i] \in ScreenType
    BY <2>1, <2>2, StaysOn DEF Stays
  <2> QED
    BY <2>3
<1> HIDE DEF T
<1>4. \A i \in 0..n : i \in T
  BY <1>2, <1>3, UpTo
<1>5. n \in T
  BY <1>4
<1> QED
  BY <1>1, <1>5 DEF T

LEMMA EraseByStays ==
  ASSUME NEW s \in ScreenType, NEW n \in Nat
  PROVE  Stays(s, EraseBy(s, n))
<1>1. PICK after : /\ EraseBy(s, n) = after[n] /\ after[0] = s
                   /\ \A i \in 1..n : after[i] = Erase(after[i - 1])
  BY EraseBySteps
<1> DEFINE T == {i \in 0..n : after[i] \in ScreenType /\ Stays(s, after[i])}
<1>2. 0 \in T
  BY <1>1, StaysSame
<1>3. ASSUME NEW i \in 1..n, i - 1 \in T
      PROVE  i \in T
  <2>1. after[i - 1] \in ScreenType /\ Stays(s, after[i - 1])
    BY <1>3
  <2>2. Stays(after[i - 1], after[i])
    BY <1>1, <2>1, EraseStays
  <2>3. Stays(s, after[i]) /\ after[i] \in ScreenType
    BY <2>1, <2>2, StaysOn DEF Stays
  <2> QED
    BY <2>3
<1> HIDE DEF T
<1>4. \A i \in 0..n : i \in T
  BY <1>2, <1>3, UpTo
<1>5. n \in T
  BY <1>4
<1> QED
  BY <1>1, <1>5 DEF T

\* A text printed.
LEMMA PutAllSteps ==
  ASSUME NEW s \in ScreenType, NEW glyphs \in Seq(Glyphs)
  PROVE  \E after : /\ PutAll(s, glyphs) = after[Len(glyphs)] /\ after[0] = s
                    /\ \A i \in 1..Len(glyphs) : after[i] = Put(after[i - 1], glyphs[i])
<1> DEFINE n == Len(glyphs)
           f == [p \in (1..n) \X ScreenType |-> Put(p[2], glyphs[p[1]])]
           Is(after) == after = [i \in 0..n |-> IF i = 0 THEN s ELSE Put(after[i - 1], glyphs[i])]
           g == CHOOSE after : Is(after)
<1>1. n \in Nat /\ \A i \in 1..n : glyphs[i] \in Glyphs
  BY LenProperties, ElementOfSeq
<1>2. PutAll(s, glyphs) = g[n]
  BY DEF PutAll
<1> HIDE DEF n
<1>3. \A i \in 1..n : \A x \in ScreenType : f[<<i, x>>] = Put(x, glyphs[i])
  OBVIOUS
<1> HIDE DEF f
<1>4. StepsIn(f, n, ScreenType)
  BY <1>1, <1>3, PutSettles DEF Settles, Stays, StepsIn
<1>5. PICK after \in [0..n -> ScreenType] : Runs(after, f, s, n)
  BY <1>1, <1>4, StepsExist, Zenon
<1>6. Is(after)
  <2>1. \A i \in 0..n : after[i] = IF i = 0 THEN s ELSE Put(after[i - 1], glyphs[i])
    <3> TAKE i \in 0..n
    <3>1. after[i] = IF i = 0 THEN s ELSE f[<<i, after[i - 1]>>]
      BY <1>5 DEF Runs
    <3>2. i # 0 => i \in 1..n /\ after[i - 1] \in ScreenType
      BY <1>1
    <3> QED
      BY <1>3, <3>1, <3>2
  <2>2. after = [i \in 0..n |-> after[i]]
    OBVIOUS
  <2> QED
    BY <2>1, <2>2
<1>7. Is(g)
  BY <1>6
<1> HIDE DEF g
<1>8. g[0] = s /\ \A i \in 1..n : g[i] = Put(g[i - 1], glyphs[i])
  BY <1>1, <1>7
<1> QED
  BY <1>2, <1>8 DEF n

LEMMA PutAllStays ==
  ASSUME NEW s \in ScreenType, NEW glyphs \in Seq(Glyphs)
  PROVE  Stays(s, PutAll(s, glyphs))
<1> DEFINE n == Len(glyphs)
<1>1. PICK after : /\ PutAll(s, glyphs) = after[n] /\ after[0] = s
                   /\ \A i \in 1..n : after[i] = Put(after[i - 1], glyphs[i])
  BY PutAllSteps
<1>2. n \in Nat /\ \A i \in 1..n : glyphs[i] \in Glyphs
  BY LenProperties, ElementOfSeq
<1> HIDE DEF n
<1> DEFINE T == {i \in 0..n : after[i] \in ScreenType /\ Stays(s, after[i])}
<1>3. 0 \in T
  BY <1>1, <1>2, StaysSame
<1>4. ASSUME NEW i \in 1..n, i - 1 \in T
      PROVE  i \in T
  <2>1. after[i - 1] \in ScreenType /\ Stays(s, after[i - 1])
    BY <1>4
  <2>2. Stays(after[i - 1], after[i])
    BY <1>1, <1>2, <2>1, PutSettles DEF Settles
  <2>3. Stays(s, after[i]) /\ after[i] \in ScreenType
    BY <2>1, <2>2, StaysOn DEF Stays
  <2> QED
    BY <2>3
<1> HIDE DEF T
<1>5. \A i \in 0..n : i \in T
  BY <1>2, <1>3, <1>4, UpTo
<1>6. n \in T
  BY <1>2, <1>5
<1> QED
  BY <1>1, <1>6 DEF T

LEMMA LessType ==
  ASSUME NEW a \in Nat, NEW b \in Nat
  PROVE  Less(a, b) \in Nat
BY DEF Less

\* redraw_line and the moves of the other keys.
LEMMA RedrawStays ==
  ASSUME NEW k, Formed(k), NEW s \in ScreenType, NEW r \in Nat
  PROVE  Stays(s, Redraw(k, s, r))
<1> DEFINE ahead == Ahead(k, r)
           a == RightBy(s, ahead)
           b == EraseBy(a, r)
           c == PutAll(b, k.line)
           rest == Len(k.line) - k.cursor
<1>1. /\ k.line \in Seq(Characters) /\ Len(k.line) \in Nat
      /\ k.cursor \in Nat /\ k.cursor <= Len(k.line)
  BY FormedParts, LineType
<1>2. k.line \in Seq(Glyphs)
  <2>1. Characters \subseteq Glyphs
    BY DisplayAssumption
  <2> QED
    BY <1>1, <2>1
<1>3. ahead \in Nat /\ rest \in Nat
  <2>1. ahead \in Nat
    BY <1>1, LessType, Zenon DEF Ahead
  <2>2. rest \in Nat
    BY <1>1
  <2> QED
    BY <2>1, <2>2
<1>4. Redraw(k, s, r) = LeftBy(c, rest)
  BY DEF Redraw
<1> HIDE DEF ahead, rest
<1>5. Stays(s, a) /\ a \in ScreenType
  BY <1>3, RightByStays DEF Stays
<1> HIDE DEF a
<1>6. Stays(a, b) /\ b \in ScreenType
  BY <1>5, EraseByStays DEF Stays
<1> HIDE DEF b
<1>7. Stays(b, c) /\ c \in ScreenType
  BY <1>2, <1>6, PutAllStays DEF Stays
<1> HIDE DEF c
<1>8. Stays(c, LeftBy(c, rest))
  BY <1>3, <1>7, LeftByStays
<1>9. Stays(s, c)
  BY <1>5, <1>6, <1>7, StaysOn
<1> QED
  BY <1>4, <1>8, <1>9, StaysOn

LEMMA FollowStays ==
  ASSUME NEW s \in ScreenType, NEW from \in Nat, NEW to \in Nat
  PROVE  Stays(s, Follow(s, from, to))
<1> DEFINE left == Less(from, to)
           right == Less(to, from)
           a == LeftBy(s, left)
<1>1. left \in Nat /\ right \in Nat
  BY LessType
<1>2. Follow(s, from, to) = RightBy(a, right)
  BY DEF Follow
<1> HIDE DEF left, right
<1>3. Stays(s, a) /\ a \in ScreenType
  BY <1>1, LeftByStays DEF Stays
<1> HIDE DEF a
<1>4. Stays(a, RightBy(a, right))
  BY <1>1, <1>3, RightByStays
<1> QED
  BY <1>2, <1>3, <1>4, StaysOn

(***************************************************************************)
(* The invariant.                                                          *)
(***************************************************************************)
CursorType == [x : 0..(Width - 1), y : Nat, window : BOOLEAN]
Controls == {"clear", "border", "char", "column", "row", "write", "step", "wrap", "line",
             "margin", "bottom", "prompt", "wait", "run", "halted"}

\* The steps of print_char.
Steps == {"column", "row", "write", "step", "wrap", "line", "margin", "bottom"}

\* Which mode the screen is in, and what the main thread has not stored.
Modes ==
  /\ pc \in {"clear", "prompt", "wait", "run", "halted"} => dirty = {}
  /\ pc = "border" => dirty \subseteq {"x", "y"}
  /\ pc \in {"clear", "border", "halted"} => ~screen.window
  /\ pc \in {"border", "char"} /\ ~screen.window => reg.y < Height
  /\ pc = "char" => /\ reg.window /\ (screen.window <=> "window" \notin dirty)
                    /\ "window" \in dirty => text = Banner
  /\ pc \in Steps => reg.window /\ screen.window /\ "window" \notin dirty

\* What it has still to print of the banner.
Printing ==
  /\ text \in Seq(Glyphs)
  /\ text = Banner \/ Len(text) < Len(Banner)
  /\ pc \in {"clear", "border"} => text = Banner
  /\ pc \in {"column", "row", "write", "line"} => text # << >>
  /\ pc \in {"column", "row", "write"} => Head(text) # "newline"
  /\ pc = "line" => Head(text) = "newline"
  /\ pc \in {"step", "wrap", "margin", "bottom"} => text # Banner

\* Where its copy of the cursor is.  The first character alone finds the cursor anywhere.
Placed ==
  /\ pc \in {"row", "write", "margin", "bottom"} => reg.x \in Columns
  /\ pc \in {"char", "column", "step", "line"} /\ text # Banner => reg.x \in Columns
  /\ pc = "wrap" => reg.x \in PaneLeft..(PaneRight + 1)
  /\ pc \in {"write", "step", "wrap", "line"} => reg.y \in Rows
  /\ pc \in {"char", "column", "row"} /\ text # Banner => reg.y \in Rows
  /\ pc \in {"prompt", "wait", "run"} => InPane(screen)

\* Where the cursor stored is, whatever key came in between: where the copy is in the
\* pane, each coordinate that is stored is in it as well.
Follows ==
  pc \in Steps \/ (pc = "char" /\ text # Banner) =>
    /\ "x" \notin dirty /\ reg.x \in Columns => screen.x \in Columns
    /\ "x" \notin dirty /\ reg.x \in PaneLeft..(PaneRight + 1)
         => screen.x \in PaneLeft..(PaneRight + 1)
    /\ "y" \notin dirty /\ reg.y \in Rows => screen.y \in Rows

DisplayInvariant == TypeOK /\ Formed(keyboard) /\ Modes /\ Printing /\ Placed /\ Follows

LEMMA BannerFacts == Banner \in Seq(Glyphs) /\ Banner # << >> /\ Head(Banner) # "newline"
BY DisplayAssumption, BannerAssumption

LEMMA BlankFacts ==
  /\ BlankScreen \in ScreenType /\ ~BlankScreen.window /\ BlankScreen.y < Height
  /\ \A cell \in Cells : BlankScreen.cells[cell] = Blank
<1>1. /\ 0 \in 0..(Width - 1) /\ 0 \in Nat /\ 0 < Height
      /\ [cell \in Cells |-> Blank] \in [Cells -> Glyphs]
  BY ScreenFacts
<1> QED
  BY <1>1 DEF BlankScreen, ScreenType

LEMMA DisplayInitially == Init => DisplayInvariant
<1> SUFFICES ASSUME Init PROVE DisplayInvariant
  OBVIOUS
<1>1. Formed(keyboard) /\ keyboard \in KeyboardType
  BY ZeroFormed DEF Init, Formed
<1>2. screen \in ScreenType /\ ~screen.window /\ screen.y < Height
  BY BlankFacts DEF Init
<1>3. 0 \in 0..(LineCap - 1) /\ 0 \in 0..(Width - 1)
  BY KeyboardAssumption, ScreenFacts
<1>4. TypeOK
  BY <1>1, <1>2, <1>3 DEF Init, TypeOK, Booting
<1>5. Modes /\ Printing /\ Placed /\ Follows
  BY <1>2, BannerFacts DEF Init, Modes, Printing, Placed, Follows, Steps
<1> QED
  BY <1>1, <1>4, <1>5 DEF DisplayInvariant

\* What an action has to show of its step.
LEMMA StepKeeps ==
  ASSUME keyboard' \in KeyboardType, Formed(keyboard)', rendered' \in 0..(LineCap - 1),
         screen' \in ScreenType, ~screen'.window => screen'.y < Height,
         pc' \in Controls, reg' \in CursorType, dirty' \subseteq {"x", "y", "window"},
         Modes', Printing', Placed', Follows'
  PROVE  DisplayInvariant'
<1>1. ~Booting' /\ screen'.window => InPane(screen')
  BY DEF Booting, Modes, Placed
<1>2. TypeOK'
  BY <1>1 DEF TypeOK, Controls, CursorType, InPane, Rows, Columns
<1> QED
  BY <1>2 DEF DisplayInvariant

LEMMA InvariantParts ==
  ASSUME DisplayInvariant
  PROVE  /\ keyboard \in KeyboardType /\ Formed(keyboard) /\ rendered \in 0..(LineCap - 1)
         /\ screen \in ScreenType /\ (~screen.window => screen.y < Height)
         /\ reg \in CursorType /\ dirty \subseteq {"x", "y", "window"}
         /\ Modes /\ Printing /\ Placed /\ Follows
BY DEF DisplayInvariant, TypeOK, CursorType

LEMMA CursorParts ==
  ASSUME NEW c \in CursorType
  PROVE  c.x \in 0..(Width - 1) /\ c.y \in Nat /\ c.window \in BOOLEAN
BY DEF CursorType

\* Other cells under the same cursor.
LEMMA OtherCells ==
  ASSUME NEW s \in ScreenType, NEW cells \in [Cells -> Glyphs]
  PROVE  /\ [s EXCEPT !.cells = cells] \in ScreenType
         /\ [s EXCEPT !.cells = cells].x = s.x /\ [s EXCEPT !.cells = cells].y = s.y
         /\ [s EXCEPT !.cells = cells].window = s.window
         /\ [s EXCEPT !.cells = cells].cells = cells
BY DEF ScreenType

LEMMA ScreenCells ==
  ASSUME NEW s \in ScreenType
  PROVE  s.cells \in [Cells -> Glyphs]
BY DEF ScreenType

LEMMA FrameFacts ==
  ASSUME NEW s \in ScreenType
  PROVE  /\ DrawBorder(s) \in ScreenType /\ DrawBorder(s).window = s.window
         /\ \A cell \in Border : DrawBorder(s).cells[cell] = "frame"
         /\ EnterPane(s) \in ScreenType /\ InPane(EnterPane(s)) /\ EnterPane(s).cells = s.cells
<1> DEFINE cells == [cell \in Cells |-> IF cell \in Border THEN "frame" ELSE s.cells[cell]]
<1>1. cells \in [Cells -> Glyphs] /\ \A cell \in Border : cells[cell] = "frame"
  BY ScreenParts, ScreenFacts DEF Border
<1>2. DrawBorder(s) = [s EXCEPT !.cells = cells]
  BY DEF DrawBorder, ScreenType
<1> HIDE DEF cells
<1>3. /\ DrawBorder(s) \in ScreenType /\ DrawBorder(s).window = s.window
      /\ \A cell \in Border : DrawBorder(s).cells[cell] = "frame"
  BY <1>1, <1>2 DEF ScreenType
<1>4. PaneLeft \in 0..(Width - 1) /\ PaneTop \in Nat
  BY ScreenFacts
<1>5. EnterPane(s) \in ScreenType /\ EnterPane(s).cells = s.cells
  BY <1>4 DEF EnterPane, ScreenType
<1>6. InPane(EnterPane(s))
  BY <1>4, ScreenFacts DEF EnterPane, ScreenType, InPane, Rows, Columns
<1> QED
  BY <1>3, <1>5, <1>6

LEMMA DrawFrameKeeps ==
  ASSUME DisplayInvariant, DrawFrame
  PROVE  DisplayInvariant'
<1>1. /\ keyboard' = keyboard /\ rendered' = rendered /\ text' = text
      /\ pc \in {"clear", "border"} /\ ~screen.window /\ text = Banner
      /\ screen \in ScreenType /\ screen.y < Height /\ text \in Seq(Glyphs)
  BY InvariantParts DEF DrawFrame, Draws, Goes, Modes, Printing
<1>2. CASE /\ Draws("clear", "border", ClearScreen.cells)
           /\ reg' = [x |-> 0, y |-> 0, window |-> FALSE] /\ dirty' = {"x", "y"}
  <2> DEFINE cells == ClearScreen.cells
  <2>1. cells \in [Cells -> Glyphs]
    BY BlankFacts, ScreenCells DEF ClearScreen
  <2>2. screen' = [screen EXCEPT !.cells = cells] /\ pc' = "border"
    BY <1>2 DEF Draws, Goes
  <2> HIDE DEF cells
  <2>3. screen' \in ScreenType /\ ~screen'.window /\ screen'.y < Height
    BY <1>1, <2>1, <2>2, OtherCells
  <2>4. reg' \in CursorType /\ reg'.y < Height
    BY <1>2, ScreenFacts DEF CursorType
  <2>5. Modes' /\ Printing' /\ Placed' /\ Follows'
    BY <1>1, <1>2, <2>2, <2>3, <2>4 DEF Modes, Printing, Placed, Follows, Steps
  <2> QED
    BY <1>1, <1>2, <2>2, <2>3, <2>4, <2>5, InvariantParts, StepKeeps DEF Controls
<1>3. CASE /\ Draws("border", "char", DrawBorder(screen).cells)
           /\ reg' = [x |-> PaneLeft, y |-> PaneTop, window |-> TRUE]
           /\ dirty' = {"x", "y", "window"}
  <2> DEFINE cells == DrawBorder(screen).cells
  <2>1. cells \in [Cells -> Glyphs]
    BY <1>1, FrameFacts, ScreenCells
  <2>2. screen' = [screen EXCEPT !.cells = cells] /\ pc' = "char"
    BY <1>3 DEF Draws, Goes
  <2> HIDE DEF cells
  <2>3. screen' \in ScreenType /\ ~screen'.window /\ screen'.y < Height
    BY <1>1, <2>1, <2>2, OtherCells
  <2>4. reg' \in CursorType /\ reg'.window /\ reg'.y < Height
    BY <1>3, ScreenFacts DEF CursorType
  <2>5. Modes' /\ Printing' /\ Placed' /\ Follows'
    BY <1>1, <1>3, <2>2, <2>3, <2>4 DEF Modes, Printing, Placed, Follows, Steps
  <2> QED
    BY <1>1, <1>3, <2>2, <2>3, <2>4, <2>5, InvariantParts, StepKeeps DEF Controls
<1> QED
  BY <1>2, <1>3 DEF DrawFrame

\* One coordinate, or the mode, stored.
LEMMA StoredFacts ==
  ASSUME NEW s \in ScreenType, NEW c \in CursorType
  PROVE  /\ [s EXCEPT !.x = c.x] \in ScreenType /\ [s EXCEPT !.x = c.x].x = c.x
         /\ [s EXCEPT !.x = c.x].y = s.y /\ [s EXCEPT !.x = c.x].window = s.window
         /\ [s EXCEPT !.x = c.x].cells = s.cells
         /\ [s EXCEPT !.y = c.y] \in ScreenType /\ [s EXCEPT !.y = c.y].x = s.x
         /\ [s EXCEPT !.y = c.y].y = c.y /\ [s EXCEPT !.y = c.y].window = s.window
         /\ [s EXCEPT !.y = c.y].cells = s.cells
         /\ [s EXCEPT !.window = c.window] \in ScreenType
         /\ [s EXCEPT !.window = c.window].x = s.x /\ [s EXCEPT !.window = c.window].y = s.y
         /\ [s EXCEPT !.window = c.window].window = c.window
         /\ [s EXCEPT !.window = c.window].cells = s.cells
BY DEF ScreenType, CursorType

LEMMA StoreKeeps ==
  ASSUME DisplayInvariant, Store
  PROVE  DisplayInvariant' /\ screen'.cells = screen.cells
<1>1. /\ keyboard' = keyboard /\ rendered' = rendered /\ pc' = pc /\ text' = text /\ reg' = reg
  BY DEF Store
<1>2. /\ screen \in ScreenType /\ reg \in CursorType /\ dirty \subseteq {"x", "y", "window"}
      /\ (~screen.window => screen.y < Height) /\ pc \in Controls
      /\ Modes /\ Printing /\ Placed /\ Follows
  BY InvariantParts DEF DisplayInvariant, TypeOK, Controls
<1>3. Printing'
  BY <1>1, <1>2 DEF Printing
<1>4. pc \in Steps \cup {"border", "char"}
  BY <1>2 DEF Store, Modes, Controls, Steps
<1>5. CASE "x" \in dirty /\ screen' = [screen EXCEPT !.x = reg.x] /\ dirty' = dirty \ {"x"}
  <2>1. /\ screen' \in ScreenType /\ screen'.x = reg.x /\ screen'.y = screen.y
        /\ screen'.window = screen.window /\ screen'.cells = screen.cells
    BY <1>2, <1>5, StoredFacts
  <2>2. Modes'
    BY <1>1, <1>2, <1>5, <2>1 DEF Modes, Steps
  <2>3. Placed' /\ Follows'
    BY <1>1, <1>2, <1>4, <1>5, <2>1 DEF Placed, Follows, Steps
  <2> QED
    BY <1>1, <1>2, <1>3, <1>5, <2>1, <2>2, <2>3, InvariantParts, StepKeeps
<1>6. CASE "y" \in dirty /\ screen' = [screen EXCEPT !.y = reg.y] /\ dirty' = dirty \ {"y"}
  <2>1. /\ screen' \in ScreenType /\ screen'.x = screen.x /\ screen'.y = reg.y
        /\ screen'.window = screen.window /\ screen'.cells = screen.cells
    BY <1>2, <1>6, StoredFacts
  <2>2. Modes' /\ (~screen'.window => screen'.y < Height)
    BY <1>1, <1>2, <1>4, <1>6, <2>1 DEF Modes, Steps
  <2>3. Placed' /\ Follows'
    BY <1>1, <1>2, <1>4, <1>6, <2>1 DEF Placed, Follows, Steps
  <2> QED
    BY <1>1, <1>2, <1>3, <1>6, <2>1, <2>2, <2>3, InvariantParts, StepKeeps
<1>7. CASE /\ "window" \in dirty /\ screen' = [screen EXCEPT !.window = reg.window]
           /\ dirty' = dirty \ {"window"}
  <2>1. /\ screen' \in ScreenType /\ screen'.x = screen.x /\ screen'.y = screen.y
        /\ screen'.window = reg.window /\ screen'.cells = screen.cells
    BY <1>2, <1>7, StoredFacts
  <2>2. pc = "char" /\ reg.window /\ text = Banner
    BY <1>2, <1>4, <1>7 DEF Modes
  <2>3. Modes'
    BY <1>1, <1>2, <1>7, <2>1, <2>2 DEF Modes, Steps
  <2>4. Placed' /\ Follows'
    BY <1>1, <1>2, <1>7, <2>1, <2>2 DEF Placed, Follows, Steps
  <2> QED
    BY <1>1, <1>2, <1>3, <1>7, <2>1, <2>2, <2>3, <2>4, InvariantParts, StepKeeps
<1> QED
  BY <1>5, <1>6, <1>7 DEF Store

\* The copy of a coordinate replaced.
LEMMA CopyFacts ==
  ASSUME NEW c \in CursorType
  PROVE  /\ \A x \in 0..(Width - 1) :
              /\ [c EXCEPT !.x = x] \in CursorType /\ [c EXCEPT !.x = x].x = x
              /\ [c EXCEPT !.x = x].y = c.y /\ [c EXCEPT !.x = x].window = c.window
         /\ \A y \in Nat :
              /\ [c EXCEPT !.y = y] \in CursorType /\ [c EXCEPT !.y = y].x = c.x
              /\ [c EXCEPT !.y = y].y = y /\ [c EXCEPT !.y = y].window = c.window
         /\ \A x \in 0..(Width - 1), y \in Nat :
              /\ [c EXCEPT !.x = x, !.y = y] \in CursorType
              /\ [c EXCEPT !.x = x, !.y = y].x = x /\ [c EXCEPT !.x = x, !.y = y].y = y
              /\ [c EXCEPT !.x = x, !.y = y].window = c.window
BY DEF CursorType

LEMMA ReloadKeeps ==
  ASSUME DisplayInvariant, Reload
  PROVE  DisplayInvariant'
<1>1. /\ UNCHANGED <<keyboard, screen, rendered, pc, text, dirty>> /\ pc \in Steps
  BY DEF Reload, Steps
<1>2. /\ screen \in ScreenType /\ reg \in CursorType /\ dirty \subseteq {"x", "y", "window"}
      /\ (~screen.window => screen.y < Height) /\ pc \in Controls
      /\ Modes /\ Printing /\ Placed /\ Follows
  BY InvariantParts DEF DisplayInvariant, TypeOK, Controls
<1>3. screen.x \in 0..(Width - 1) /\ screen.y \in Nat
  BY <1>2, ScreenParts
<1>4. Printing'
  BY <1>1, <1>2 DEF Printing
<1>5. CASE "x" \notin dirty /\ reg' = [reg EXCEPT !.x = screen.x]
  <2>1. reg' \in CursorType /\ reg'.x = screen.x /\ reg'.y = reg.y /\ reg'.window = reg.window
    BY <1>2, <1>3, <1>5, CopyFacts
  <2>2. Modes' /\ Follows'
    BY <1>1, <1>2, <1>5, <2>1 DEF Modes, Follows, Steps
  <2>3. Placed'
    BY <1>1, <1>2, <1>5, <2>1 DEF Placed, Follows, Steps
  <2> QED
    BY <1>1, <1>2, <1>4, <2>1, <2>2, <2>3, InvariantParts, StepKeeps
<1>6. CASE "y" \notin dirty /\ reg' = [reg EXCEPT !.y = screen.y]
  <2>1. reg' \in CursorType /\ reg'.x = reg.x /\ reg'.y = screen.y /\ reg'.window = reg.window
    BY <1>2, <1>3, <1>6, CopyFacts
  <2>2. Modes' /\ Follows'
    BY <1>1, <1>2, <1>6, <2>1 DEF Modes, Follows, Steps
  <2>3. Placed'
    BY <1>1, <1>2, <1>6, <2>1 DEF Placed, Follows, Steps
  <2> QED
    BY <1>1, <1>2, <1>4, <2>1, <2>2, <2>3, InvariantParts, StepKeeps
<1> QED
  BY <1>5, <1>6 DEF Reload

\* A step on the copy alone, which stores nothing and dirties what it moves.
LEMMA ComputesKeeps ==
  ASSUME DisplayInvariant, NEW from \in Steps, NEW to \in Steps \cup {"char"},
         NEW new \in CursorType, new.window, Computes(from, to, new),
         text # Banner \/ to # "char", Printing', Placed'
  PROVE  DisplayInvariant'
<1>1. /\ UNCHANGED <<keyboard, screen, rendered, text>> /\ reg' = new
      /\ pc = from /\ pc' = to /\ dirty' = dirty \cup Moved(new)
  BY DEF Computes, Assigns, Goes
<1>2. /\ screen \in ScreenType /\ reg \in CursorType /\ dirty \subseteq {"x", "y", "window"}
      /\ (~screen.window => screen.y < Height) /\ Modes /\ Follows
  BY InvariantParts
<1>3. Moved(new) \subseteq {"x", "y"}
  BY DEF Moved
<1>4. "x" \notin dirty' => "x" \notin dirty /\ new.x = reg.x
  BY <1>1 DEF Moved
<1>5. "y" \notin dirty' => "y" \notin dirty /\ new.y = reg.y
  BY <1>1 DEF Moved
<1>6. Follows'
  BY <1>1, <1>2, <1>4, <1>5 DEF Follows
<1>7. screen.window /\ "window" \notin dirty'
  BY <1>1, <1>2, <1>3 DEF Modes
<1>8. Modes'
  BY <1>1, <1>7 DEF Modes, Steps
<1>9. pc' \in Controls
  BY <1>1 DEF Steps, Controls
<1> QED
  BY <1>1, <1>2, <1>3, <1>6, <1>8, <1>9, InvariantParts, StepKeeps

\* The tests of keep_cursor_in_console on the copy.
LEMMA CopyColumnFacts ==
  ASSUME NEW c \in CursorType
  PROVE  /\ KeepColumn(c) \in CursorType /\ KeepColumn(c).x \in Columns
         /\ KeepColumn(c).window = c.window
         /\ c.x \in Columns => KeepColumn(c) = c
<1>1. c.x \in 0..(Width - 1) /\ c.y \in Nat
  BY CursorParts
<1>2. PaneLeft \in 0..(Width - 1) /\ c.y + 1 \in Nat /\ PaneLeft \in Columns
  BY <1>1, ScreenFacts DEF Columns
<1>3. CASE c.x < PaneLeft
  <2>1. KeepColumn(c) = [c EXCEPT !.x = PaneLeft]
    BY <1>3 DEF KeepColumn
  <2>2. c.x \notin Columns
    BY <1>1, <1>3, ScreenFacts DEF Columns
  <2>3. /\ [c EXCEPT !.x = PaneLeft] \in CursorType /\ [c EXCEPT !.x = PaneLeft].x = PaneLeft
        /\ [c EXCEPT !.x = PaneLeft].window = c.window
    BY <1>2, CopyFacts
  <2> QED
    BY <1>2, <2>1, <2>2, <2>3
<1>4. CASE c.x > PaneRight
  <2>1. ~(c.x < PaneLeft)
    BY <1>1, <1>4, ScreenFacts
  <2>2. KeepColumn(c) = [c EXCEPT !.x = PaneLeft, !.y = c.y + 1]
    BY <1>4, <2>1 DEF KeepColumn
  <2>3. c.x \notin Columns
    BY <1>1, <1>4, ScreenFacts DEF Columns
  <2> DEFINE m == [c EXCEPT !.x = PaneLeft, !.y = c.y + 1]
  <2>4. m \in CursorType /\ m.x = PaneLeft /\ m.window = c.window
    BY <1>2 DEF CursorType
  <2> HIDE DEF m
  <2>5. KeepColumn(c) = m
    BY <2>2 DEF m
  <2> QED
    BY <1>2, <2>3, <2>4, <2>5
<1>5. CASE ~(c.x < PaneLeft) /\ ~(c.x > PaneRight)
  <2>1. KeepColumn(c) = c
    BY <1>5 DEF KeepColumn
  <2>2. c.x \in Columns
    BY <1>1, <1>5, ScreenFacts DEF Columns
  <2> QED
    BY <2>1, <2>2
<1> QED
  BY <1>3, <1>4, <1>5

LEMMA CopyTopFacts ==
  ASSUME NEW c \in CursorType
  PROVE  /\ KeepTop(c) \in CursorType /\ KeepTop(c).x = c.x
         /\ KeepTop(c).window = c.window
         /\ c.y <= PaneBottom => KeepTop(c).y \in Rows
         /\ c.y \in Rows => KeepTop(c) = c
<1>1. c.y \in Nat /\ PaneTop \in Nat
  BY CursorParts, ScreenFacts
<1>2. CASE c.y < PaneTop
  <2>1. KeepTop(c) = [c EXCEPT !.y = PaneTop]
    BY <1>2 DEF KeepTop
  <2>2. PaneTop \in Rows /\ c.y \notin Rows
    BY <1>1, <1>2, ScreenFacts DEF Rows
  <2>3. /\ [c EXCEPT !.y = PaneTop] \in CursorType /\ [c EXCEPT !.y = PaneTop].x = c.x
        /\ [c EXCEPT !.y = PaneTop].y = PaneTop /\ [c EXCEPT !.y = PaneTop].window = c.window
    BY <1>1, CopyFacts
  <2> QED
    BY <2>1, <2>2, <2>3
<1>3. CASE ~(c.y < PaneTop)
  <2>1. KeepTop(c) = c
    BY <1>3 DEF KeepTop
  <2>2. c.y <= PaneBottom => c.y \in Rows
    BY <1>1, <1>3, ScreenFacts DEF Rows
  <2> QED
    BY <2>1, <2>2
<1> QED
  BY <1>2, <1>3

LEMMA TextFacts ==
  ASSUME text \in Seq(Glyphs), text # << >>
  PROVE  /\ Head(text) \in Glyphs /\ Tail(text) \in Seq(Glyphs)
         /\ Len(Tail(text)) < Len(text) /\ Len(text) \in Nat
<1>1. Head(text) \in Glyphs /\ Tail(text) \in Seq(Glyphs) /\ Len(Tail(text)) = Len(text) - 1
  BY HeadTailProperties
<1>2. Len(text) \in Nat
  BY LenProperties
<1> QED
  BY <1>1, <1>2

\* What is left after a character is no longer the whole banner.
LEMMA TailLeft ==
  ASSUME DisplayInvariant, text # << >>
  PROVE  /\ Tail(text) \in Seq(Glyphs) /\ Tail(text) # Banner
         /\ Len(Tail(text)) < Len(Banner)
<1>1. text \in Seq(Glyphs) /\ (text = Banner \/ Len(text) < Len(Banner))
  BY InvariantParts DEF Printing
<1>2. /\ Tail(text) \in Seq(Glyphs) /\ Len(Tail(text)) < Len(text) /\ Len(text) \in Nat
  BY <1>1, TextFacts
<1>3. Len(Banner) \in Nat /\ Len(Tail(text)) \in Nat
  BY <1>2, BannerFacts, LenProperties
<1>4. Len(Tail(text)) < Len(Banner)
  BY <1>1, <1>2, <1>3
<1> QED
  BY <1>2, <1>3, <1>4

LEMMA KeepsColumnKeeps ==
  ASSUME DisplayInvariant, NEW from, NEW to, KeepsColumn(from, to),
         <<from, to>> \in {<<"column", "row">>, <<"margin", "bottom">>}
  PROVE  DisplayInvariant' /\ screen'.cells = screen.cells
<1> DEFINE new == KeepColumn(reg)
<1>1. reg \in CursorType /\ Modes /\ Printing /\ Placed
  BY InvariantParts
<1>2. new \in CursorType /\ new.x \in Columns /\ new.window = reg.window
      /\ (reg.x \in Columns => new = reg)
  BY <1>1, CopyColumnFacts
<1>3. Computes(from, to, new)
  BY DEF KeepsColumn
<1> HIDE DEF new
<1>4. pc = from /\ pc' = to /\ reg' = new /\ text' = text /\ screen' = screen
  BY <1>3 DEF Computes, Assigns, Goes
<1>5. from \in Steps /\ to \in Steps /\ new.window
  BY <1>1, <1>2, <1>4 DEF Steps, Modes
<1>6. Printing'
  BY <1>1, <1>4 DEF Printing
<1>7. Placed'
  BY <1>1, <1>2, <1>4 DEF Placed
<1>8. DisplayInvariant'
  BY <1>2, <1>3, <1>5, <1>6, <1>7, ComputesKeeps
<1> QED
  BY <1>4, <1>8

LEMMA KeepsRowKeeps ==
  ASSUME DisplayInvariant, NEW from, NEW to, KeepsRow(from, to),
         <<from, to>> \in {<<"row", "write">>, <<"bottom", "char">>}
  PROVE  DisplayInvariant' /\ SameBorder(screen, screen')
<1>1. /\ screen \in ScreenType /\ reg \in CursorType /\ Modes /\ Printing /\ Placed
      /\ (~screen.window => screen.y < Height)
  BY InvariantParts
<1>2. CASE reg.y <= PaneBottom /\ Computes(from, to, KeepTop(reg))
  <2> DEFINE new == KeepTop(reg)
  <2>1. new \in CursorType /\ new.x = reg.x /\ new.window = reg.window /\ new.y \in Rows
    BY <1>1, <1>2, CopyTopFacts
  <2>2. Computes(from, to, new)
    BY <1>2
  <2> HIDE DEF new
  <2>3. pc = from /\ pc' = to /\ reg' = new /\ text' = text /\ screen' = screen
    BY <2>2 DEF Computes, Assigns, Goes
  <2>4. from \in Steps /\ to \in Steps \cup {"char"} /\ new.window
    BY <1>1, <2>1, <2>3 DEF Steps, Modes
  <2>5. text # Banner \/ to # "char"
    BY <1>1, <2>3 DEF Printing
  <2>6. Printing'
    BY <1>1, <2>3 DEF Printing
  <2>7. Placed'
    BY <1>1, <2>1, <2>3 DEF Placed
  <2>8. DisplayInvariant'
    BY <2>1, <2>2, <2>4, <2>5, <2>6, <2>7, ComputesKeeps
  <2> QED
    BY <2>3, <2>8 DEF SameBorder
<1>3. CASE /\ reg.y > PaneBottom
           /\ Draws(from, to, ScrollPane(screen).cells)
           /\ reg' = [reg EXCEPT !.x = PaneLeft, !.y = PaneBottom] /\ dirty' = {"x", "y"}
           /\ UNCHANGED text
  <2> DEFINE cells == ScrollPane(screen).cells
  <2>1. cells \in [Cells -> Glyphs] /\ \A cell \in Border : cells[cell] = screen.cells[cell]
    BY <1>1, ScrollPaneFacts, ScreenCells DEF SameBorder
  <2>2. /\ pc = from /\ pc' = to /\ screen' = [screen EXCEPT !.cells = cells]
        /\ keyboard' = keyboard /\ rendered' = rendered /\ text' = text
    BY <1>3 DEF Draws, Goes
  <2> HIDE DEF cells
  <2>3. /\ screen' \in ScreenType /\ screen'.window = screen.window /\ screen'.cells = cells
        /\ screen'.y = screen.y
    BY <1>1, <2>1, <2>2, OtherCells
  <2>4. PaneLeft \in 0..(Width - 1) /\ PaneBottom \in Nat /\ PaneLeft \in Columns
        /\ PaneBottom \in Rows
    BY ScreenFacts DEF Rows, Columns
  <2>5. /\ reg' \in CursorType /\ reg'.x \in Columns /\ reg'.y \in Rows
        /\ reg'.window = reg.window
    <3> DEFINE new == [reg EXCEPT !.x = PaneLeft, !.y = PaneBottom]
    <3>1. /\ new \in CursorType /\ new.x = PaneLeft /\ new.y = PaneBottom
          /\ new.window = reg.window
      BY <1>1, <2>4 DEF CursorType
    <3> HIDE DEF new
    <3>2. reg' = new
      BY <1>3 DEF new
    <3> QED
      BY <2>4, <3>1, <3>2
  <2>6. reg.window /\ screen.window /\ (pc = "bottom" => text # Banner)
    BY <1>1, <2>2 DEF Modes, Printing, Steps
  <2>7. Modes' /\ Follows'
    BY <1>3, <2>2, <2>3, <2>5, <2>6 DEF Modes, Follows, Steps
  <2>8. Printing'
    BY <1>1, <2>2 DEF Printing
  <2>9. Placed'
    BY <1>1, <2>2, <2>5 DEF Placed
  <2>10. DisplayInvariant'
    BY <1>1, <1>3, <2>2, <2>3, <2>5, <2>6, <2>7, <2>8, <2>9, InvariantParts, StepKeeps DEF Controls
  <2> QED
    BY <2>1, <2>3, <2>10 DEF SameBorder
<1> QED
  BY <1>2, <1>3 DEF KeepsRow

\* A character of the banner begun, with the cursor as it is stored.
LEMMA BeginsKeeps ==
  ASSUME DisplayInvariant, NEW to \in {"column", "line"}, text # << >>, Begins(to),
         Head(text) = "newline" <=> to = "line"
  PROVE  DisplayInvariant'
<1>1. /\ UNCHANGED <<keyboard, screen, rendered, text, dirty>> /\ dirty = {}
      /\ pc = "char" /\ pc' = to
      /\ reg' = [x |-> screen.x, y |-> screen.y, window |-> screen.window]
  BY DEF Begins, Loads, Goes
<1>2. /\ screen \in ScreenType /\ (~screen.window => screen.y < Height)
      /\ Modes /\ Printing /\ Placed /\ Follows
  BY InvariantParts
<1>3. reg' \in CursorType /\ reg'.x = screen.x /\ reg'.y = screen.y /\ reg'.window = screen.window
  BY <1>1, <1>2, ScreenParts DEF CursorType
<1>4. screen.window
  BY <1>1, <1>2 DEF Modes
<1>5. text # Banner => screen.x \in Columns /\ screen.y \in Rows
  BY <1>1, <1>2 DEF Placed, Follows
<1>6. to = "line" => text # Banner
  BY BannerFacts
<1>7. Modes' /\ Follows'
  BY <1>1, <1>3, <1>4 DEF Modes, Follows, Steps
<1>8. Printing'
  BY <1>1, <1>2 DEF Printing
<1>9. Placed'
  BY <1>1, <1>3, <1>5, <1>6 DEF Placed
<1> QED
  BY <1>1, <1>2, <1>3, <1>7, <1>8, <1>9, InvariantParts, StepKeeps DEF Controls

\* The cell of the character, in the pane.
LEMMA WritesKeeps ==
  ASSUME DisplayInvariant, text' = Tail(text), Loads, UNCHANGED dirty,
         Draws("write", "step", [screen.cells EXCEPT ![<<reg.x, reg.y>>] = Head(text)])
  PROVE  DisplayInvariant' /\ SameBorder(screen, screen')
<1> DEFINE cells == [screen.cells EXCEPT ![<<reg.x, reg.y>>] = Head(text)]
<1>1. /\ screen \in ScreenType /\ reg \in CursorType /\ Modes /\ Printing /\ Placed /\ Follows
      /\ (~screen.window => screen.y < Height)
  BY InvariantParts
<1>2. /\ pc = "write" /\ pc' = "step" /\ screen' = [screen EXCEPT !.cells = cells]
      /\ keyboard' = keyboard /\ rendered' = rendered /\ dirty = {}
  BY DEF Draws, Goes
<1>3. text # << >> /\ text \in Seq(Glyphs) /\ reg.x \in Columns /\ reg.y \in Rows
  BY <1>1, <1>2 DEF Printing, Placed
<1>4. Head(text) \in Glyphs
  BY <1>3, TextFacts
<1>5. <<reg.x, reg.y>> \in Cells /\ <<reg.x, reg.y>> \in Pane
  BY <1>3, PaneCells
<1>6. screen.cells \in [Cells -> Glyphs]
  BY <1>1, ScreenCells
<1>7. cells \in [Cells -> Glyphs]
  BY <1>4, <1>6
<1>8. \A cell \in Border : cells[cell] = screen.cells[cell]
  BY <1>5, <1>6 DEF Border
<1> HIDE DEF cells
<1>9. /\ screen' \in ScreenType /\ screen'.x = screen.x /\ screen'.y = screen.y
      /\ screen'.window = screen.window /\ screen'.cells = cells
  BY <1>1, <1>2, <1>7, OtherCells
<1>10. Tail(text) \in Seq(Glyphs) /\ Tail(text) # Banner /\ Len(Tail(text)) < Len(Banner)
  BY <1>3, TailLeft
<1>11. /\ reg' \in CursorType
       /\ reg'.x = screen.x /\ reg'.y = screen.y /\ reg'.window = screen.window
  BY <1>1, ScreenParts DEF Loads, CursorType
<1>12. screen.window /\ screen.x \in Columns /\ screen.y \in Rows
  BY <1>1, <1>2, <1>3 DEF Modes, Follows, Steps
<1>13. Modes' /\ Follows'
  BY <1>2, <1>9, <1>11, <1>12 DEF Modes, Follows, Steps
<1>14. Printing'
  BY <1>2, <1>10 DEF Printing
<1>15. Placed'
  BY <1>2, <1>11, <1>12 DEF Placed
<1>16. DisplayInvariant'
  BY <1>1, <1>2, <1>9, <1>11, <1>13, <1>14, <1>15, InvariantParts, StepKeeps DEF Controls
<1> QED
  BY <1>8, <1>9, <1>16 DEF SameBorder

\* The end of a line of the screen, on the copy.
LEMMA CopyWrapFacts ==
  ASSUME NEW c \in CursorType, c.window, c.x \in PaneLeft..(PaneRight + 1), c.y \in Rows
  PROVE  /\ Wrap(c) \in CursorType /\ Wrap(c).x \in Columns /\ Wrap(c).window
<1>1. c.y + 1 \in Nat /\ PaneLeft \in 0..(Width - 1) /\ PaneLeft \in Columns
  BY ScreenFacts DEF Rows, Columns
<1>2. CASE c.x > PaneRight
  <2> DEFINE m == [c EXCEPT !.x = PaneLeft, !.y = c.y + 1]
  <2>1. m \in CursorType /\ m.x = PaneLeft /\ m.window = c.window
    BY <1>1 DEF CursorType
  <2> HIDE DEF m
  <2>2. Wrap(c) = m
    BY <1>2 DEF Wrap, m
  <2> QED
    BY <1>1, <2>1, <2>2
<1>3. CASE ~(c.x > PaneRight)
  <2>1. c.x \in Columns /\ ~(c.x >= Width)
    BY <1>3, ScreenFacts DEF Columns
  <2>2. Wrap(c) = c
    BY <1>3, <2>1 DEF Wrap
  <2> QED
    BY <2>1, <2>2
<1> QED
  BY <1>2, <1>3

LEMMA PrintCharKeeps ==
  ASSUME DisplayInvariant, PrintChar
  PROVE  DisplayInvariant' /\ SameBorder(screen, screen')
<1>1. /\ screen \in ScreenType /\ reg \in CursorType /\ Modes /\ Printing /\ Placed
  BY InvariantParts
<1>2. CASE text # << >> /\ Head(text) # "newline" /\ Begins("column")
  BY <1>2, BeginsKeeps DEF Begins, SameBorder
<1>3. CASE KeepsColumn("column", "row")
  BY <1>3, KeepsColumnKeeps DEF SameBorder
<1>4. CASE KeepsRow("row", "write")
  BY <1>4, KeepsRowKeeps
<1>5. CASE /\ Draws("write", "step", [screen.cells EXCEPT ![<<reg.x, reg.y>>] = Head(text)])
           /\ text' = Tail(text) /\ Loads /\ UNCHANGED dirty
  BY <1>5, WritesKeeps
<1>6. CASE Computes("step", "wrap", [reg EXCEPT !.x = @ + 1])
  <2> DEFINE x == reg.x + 1
             new == [reg EXCEPT !.x = x]
  <2>1. pc = "step" /\ pc' = "wrap" /\ text' = text /\ screen' = screen
    BY <1>6 DEF Computes, Assigns, Goes
  <2>2. reg.x \in Columns /\ reg.y \in Rows /\ reg.window /\ text # Banner
    BY <1>1, <2>1 DEF Placed, Modes, Printing, Steps
  <2>3. x \in 0..(Width - 1) /\ x \in PaneLeft..(PaneRight + 1)
    BY <2>2, ScreenFacts DEF Columns
  <2> HIDE DEF x
  <2>4. new \in CursorType /\ new.x = x /\ new.y = reg.y /\ new.window = reg.window
    BY <1>1, <2>3, CopyFacts
  <2> HIDE DEF new
  <2>5. Computes("step", "wrap", new)
    BY <1>6 DEF new, x
  <2>6. reg' = new
    BY <2>5 DEF Computes, Assigns
  <2>7. Printing'
    BY <1>1, <2>1, <2>2 DEF Printing
  <2>8. Placed'
    BY <2>1, <2>2, <2>3, <2>4, <2>6 DEF Placed
  <2>9. DisplayInvariant'
    BY <2>2, <2>4, <2>5, <2>7, <2>8, ComputesKeeps DEF Steps
  <2> QED
    BY <2>1, <2>9 DEF SameBorder
<1>7. CASE Computes("wrap", "margin", Wrap(reg))
  <2> DEFINE new == Wrap(reg)
  <2>1. pc = "wrap" /\ pc' = "margin" /\ text' = text /\ screen' = screen /\ reg' = new
    BY <1>7 DEF Computes, Assigns, Goes
  <2>2. reg.x \in PaneLeft..(PaneRight + 1) /\ reg.y \in Rows /\ reg.window /\ text # Banner
    BY <1>1, <2>1 DEF Placed, Modes, Printing, Steps
  <2>3. new \in CursorType /\ new.x \in Columns /\ new.window
    BY <1>1, <2>2, CopyWrapFacts
  <2> HIDE DEF new
  <2>4. Computes("wrap", "margin", new)
    BY <1>7 DEF new
  <2>5. Printing'
    BY <1>1, <2>1, <2>2 DEF Printing
  <2>6. Placed'
    BY <2>1, <2>3 DEF Placed
  <2>7. DisplayInvariant'
    BY <2>3, <2>4, <2>5, <2>6, ComputesKeeps DEF Steps
  <2> QED
    BY <2>1, <2>7 DEF SameBorder
<1> QED
  BY <1>2, <1>3, <1>4, <1>5, <1>6, <1>7 DEF PrintChar

LEMMA PrintNewLineKeeps ==
  ASSUME DisplayInvariant, PrintNewLine
  PROVE  DisplayInvariant' /\ SameBorder(screen, screen')
<1>1. /\ screen \in ScreenType /\ reg \in CursorType /\ Modes /\ Printing /\ Placed
      /\ (~screen.window => screen.y < Height)
  BY InvariantParts
<1>2. CASE text # << >> /\ Head(text) = "newline" /\ Begins("line")
  BY <1>2, BeginsKeeps DEF Begins, SameBorder
<1>3. CASE /\ Goes("line", "margin")
           /\ reg' = [reg EXCEPT !.x = PaneLeft, !.y = @ + 1] /\ dirty' = {"x", "y"}
           /\ text' = Tail(text)
           /\ UNCHANGED <<keyboard, screen, rendered, keys, skewed>>
  <2> DEFINE y == reg.y + 1
             new == [reg EXCEPT !.x = PaneLeft, !.y = y]
  <2>1. pc = "line" /\ pc' = "margin" /\ reg.window /\ screen.window /\ text # << >>
    BY <1>1, <1>3 DEF Goes, Modes, Printing, Steps
  <2>2. y \in Nat /\ PaneLeft \in 0..(Width - 1) /\ PaneLeft \in Columns
    BY <1>1, CursorParts, ScreenFacts DEF Columns
  <2> HIDE DEF y
  <2>3. new \in CursorType /\ new.x = PaneLeft /\ new.window = reg.window
    BY <1>1, <2>2 DEF CursorType
  <2> HIDE DEF new
  <2>4. reg' = new
    BY <1>3 DEF new, y
  <2>5. Tail(text) \in Seq(Glyphs) /\ Tail(text) # Banner /\ Len(Tail(text)) < Len(Banner)
    BY <2>1, TailLeft
  <2>6. Printing'
    BY <1>3, <2>1, <2>5 DEF Printing
  <2>7. Placed'
    BY <2>1, <2>2, <2>3, <2>4 DEF Placed
  <2>8. Modes' /\ Follows'
    BY <1>3, <2>1, <2>3, <2>4 DEF Modes, Follows, Steps
  <2>9. DisplayInvariant'
    BY <1>1, <1>3, <2>1, <2>3, <2>4, <2>6, <2>7, <2>8, InvariantParts, StepKeeps DEF Controls
  <2> QED
    BY <1>3, <2>9 DEF SameBorder
<1> QED
  BY <1>2, <1>3 DEF PrintNewLine

LEMMA EndCharKeeps ==
  ASSUME DisplayInvariant, EndChar
  PROVE  DisplayInvariant' /\ SameBorder(screen, screen')
<1>1. CASE KeepsColumn("margin", "bottom")
  BY <1>1, KeepsColumnKeeps DEF SameBorder
<1>2. CASE KeepsRow("bottom", "char")
  BY <1>2, KeepsRowKeeps
<1> QED
  BY <1>1, <1>2 DEF EndChar

LEMMA EndBannerKeeps ==
  ASSUME DisplayInvariant, EndBanner
  PROVE  DisplayInvariant'
<1>1. /\ pc = "char" /\ pc' = "prompt" /\ text = << >> /\ dirty = {}
      /\ UNCHANGED <<keyboard, screen, rendered, text, reg, dirty>>
  BY DEF EndBanner, Goes
<1>2. /\ screen \in ScreenType /\ reg \in CursorType /\ Modes /\ Printing /\ Placed /\ Follows
  BY InvariantParts
<1>3. text # Banner
  BY <1>1, BannerFacts
<1>4. InPane(screen)
  BY <1>1, <1>2, <1>3 DEF Modes, Placed, Follows, InPane
<1>5. Modes' /\ Printing' /\ Placed' /\ Follows'
  BY <1>1, <1>2, <1>4 DEF Modes, Printing, Placed, Follows, Steps, InPane
<1> QED
  BY <1>1, <1>2, <1>4, <1>5, InvariantParts, StepKeeps DEF Controls, InPane

(***************************************************************************)
(* The loop.                                                               *)
(***************************************************************************)
LEMMA PromptText == <<Mark, Blank>> \in Seq(Glyphs)
BY ScreenFacts, DisplayAssumption

LEMMA LineBegunFormed ==
  ASSUME NEW k, Formed(k)
  PROVE  Formed([k EXCEPT !.line = << >>, !.cursor = 0, !.ready = FALSE, !.recall = 0])
<1> DEFINE begun == [k EXCEPT !.line = << >>, !.cursor = 0, !.ready = FALSE, !.recall = 0]
<1>1. << >> \in TypedLines /\ Len(<< >>) = 0 /\ 0 \in 0..(LineCap - 1) /\ 0 \in 0..HistoryCap
  BY EmptyLineTyped, KeyboardAssumption
<1>2. begun \in KeyboardType
  BY <1>1 DEF Formed, KeyboardType
<1>3. begun.line = << >> /\ begun.cursor = 0 /\ begun.recall = 0 /\ begun.count = k.count
  BY DEF Formed, KeyboardType
<1>4. k.count \in Nat
  BY FormedParts, KeyboardAssumption
<1> QED
  BY <1>1, <1>2, <1>3, <1>4 DEF Formed

\* A step of the loop that leaves the cursor in the pane.
LEMMA LoopKeeps ==
  ASSUME DisplayInvariant, pc \in {"prompt", "wait", "run"}, pc' \in {"prompt", "wait", "run"},
         keyboard' \in KeyboardType, Formed(keyboard)', rendered' \in 0..(LineCap - 1),
         screen' \in ScreenType, InPane(screen'), UNCHANGED <<text, reg, dirty>>
  PROVE  DisplayInvariant'
<1>1. reg \in CursorType /\ Modes /\ Printing
  BY InvariantParts
<1>2. Modes' /\ Printing' /\ Placed' /\ Follows'
  BY <1>1 DEF Modes, Printing, Placed, Follows, Steps, InPane
<1> QED
  BY <1>1, <1>2, InvariantParts, StepKeeps DEF Controls, InPane

LEMMA LoopInPane ==
  ASSUME DisplayInvariant, pc \in {"prompt", "wait", "run"}
  PROVE  screen \in ScreenType /\ InPane(screen)
BY InvariantParts DEF Placed

LEMMA ShowPromptKeeps ==
  ASSUME DisplayInvariant, ShowPrompt
  PROVE  DisplayInvariant'
<1>1. /\ pc = "prompt" /\ pc' = "wait"
      /\ keyboard' = [keyboard EXCEPT !.line = << >>, !.cursor = 0, !.ready = FALSE,
                                      !.recall = 0]
      /\ screen' = PutAll(screen, <<Mark, Blank>>)
      /\ rendered' = 0 /\ UNCHANGED <<text, reg, dirty>>
  BY DEF ShowPrompt, Goes
<1>2. screen \in ScreenType /\ InPane(screen) /\ Formed(keyboard)
  BY <1>1, LoopInPane, InvariantParts
<1>3. screen' \in ScreenType /\ InPane(screen')
  BY <1>1, <1>2, PutAllStays, PromptText, StaysInPane DEF Stays
<1>4. Formed(keyboard)' /\ keyboard' \in KeyboardType
  BY <1>1, <1>2, LineBegunFormed DEF Formed
<1>5. rendered' \in 0..(LineCap - 1)
  BY <1>1, KeyboardAssumption
<1> QED
  BY <1>1, <1>3, <1>4, <1>5, LoopKeeps

LEMMA RunKeeps ==
  ASSUME DisplayInvariant, Run
  PROVE  DisplayInvariant'
<1>1. /\ pc = "wait" /\ pc' = "run"
      /\ UNCHANGED <<keyboard, screen, rendered, text, reg, dirty>>
  BY DEF Run, Goes
<1>2. screen \in ScreenType /\ InPane(screen)
  BY <1>1, LoopInPane
<1> QED
  BY <1>1, <1>2, InvariantParts, LoopKeeps

\* What the commands and the exception handler show.
LEMMA Cleared ==
  ASSUME NEW s \in ScreenType, InPane(s)
  PROVE  /\ ClearPane(s) \in ScreenType /\ InPane(ClearPane(s)) /\ SameBorder(s, ClearPane(s))
         /\ \A cell \in Pane \cap Cells : ClearPane(s).cells[cell] = Blank
         /\ DrawWindow \in ScreenType /\ InPane(DrawWindow)
         /\ \A cell \in Border : DrawWindow.cells[cell] = "frame"
<1> DEFINE cells == [cell \in Cells |-> IF cell \in Pane THEN Blank ELSE s.cells[cell]]
<1>1. /\ cells \in [Cells -> Glyphs]
      /\ \A cell \in Border : cells[cell] = s.cells[cell]
      /\ \A cell \in Pane \cap Cells : cells[cell] = Blank
  BY ScreenParts, ScreenFacts DEF Border
<1>2. ClearPane(s) = [s EXCEPT !.x = PaneLeft, !.y = PaneTop, !.cells = cells]
  BY DEF ClearPane, ScreenType, InPane
<1> HIDE DEF cells
<1>3. /\ PaneLeft \in 0..(Width - 1) /\ PaneTop \in Nat
      /\ PaneLeft \in Columns /\ PaneTop \in Rows
  BY ScreenFacts DEF Rows, Columns
<1>4. /\ ClearPane(s) \in ScreenType /\ ClearPane(s).x = PaneLeft /\ ClearPane(s).y = PaneTop
      /\ ClearPane(s).window = s.window /\ ClearPane(s).cells = cells
  BY <1>1, <1>2, <1>3 DEF ScreenType
<1>5. InPane(ClearPane(s)) /\ SameBorder(s, ClearPane(s))
  BY <1>1, <1>3, <1>4 DEF InPane, SameBorder
<1>6. ClearScreen \in ScreenType
  BY BlankFacts DEF ClearScreen
<1>7. DrawBorder(ClearScreen) \in ScreenType
  BY <1>6, FrameFacts
<1>8. DrawWindow \in ScreenType /\ InPane(DrawWindow)
  BY <1>7, FrameFacts DEF DrawWindow
<1>9. \A cell \in Border : DrawWindow.cells[cell] = "frame"
  <2>1. DrawWindow.cells = DrawBorder(ClearScreen).cells
    BY <1>7, FrameFacts DEF DrawWindow
  <2>2. \A cell \in Border : DrawBorder(ClearScreen).cells[cell] = "frame"
    BY <1>6, FrameFacts
  <2> QED
    BY <2>1, <2>2
<1> QED
  BY <1>1, <1>4, <1>5, <1>8, <1>9

\* The window drawn again, and what is printed in it.
LEMMA Redrawn ==
  ASSUME NEW output \in Outputs
  PROVE  /\ output \in Seq(Glyphs)
         /\ PutAll(DrawWindow, output) \in ScreenType /\ InPane(PutAll(DrawWindow, output))
         /\ \A cell \in Border : PutAll(DrawWindow, output).cells[cell] = "frame"
<1> DEFINE m == PutAll(DrawWindow, output)
<1>1. output \in Seq(Glyphs)
  BY DisplayAssumption
<1>2. DrawBorder(ClearScreen) \in ScreenType /\ ClearScreen \in ScreenType
  BY BlankFacts, FrameFacts DEF ClearScreen
<1>3. /\ DrawWindow \in ScreenType /\ InPane(DrawWindow)
      /\ DrawWindow.cells = DrawBorder(ClearScreen).cells
  BY <1>2, FrameFacts DEF DrawWindow
<1>4. Stays(DrawWindow, m)
  BY <1>1, <1>3, PutAllStays
<1> HIDE DEF m
<1>5. m \in ScreenType /\ InPane(m) /\ SameBorder(DrawWindow, m)
  BY <1>3, <1>4, StaysInPane, InPaneIsNear DEF Stays
<1>6. \A cell \in Border : m.cells[cell] = "frame"
  BY <1>2, <1>3, <1>5, FrameFacts DEF SameBorder
<1> QED
  BY <1>1, <1>5, <1>6 DEF m

LEMMA OutputKeeps ==
  ASSUME DisplayInvariant, Output
  PROVE  DisplayInvariant'
<1>1. PICK output \in Outputs : screen' = PutAll(screen, output)
  BY DEF Output
<1>2. pc = "run" /\ pc' = "prompt" /\ UNCHANGED <<keyboard, rendered, text, reg, dirty>>
  BY DEF Output, Goes
<1>3. screen \in ScreenType /\ InPane(screen) /\ output \in Seq(Glyphs)
  BY <1>1, <1>2, LoopInPane, DisplayAssumption
<1>4. screen' \in ScreenType /\ InPane(screen')
  BY <1>1, <1>3, PutAllStays, StaysInPane DEF Stays
<1> QED
  BY <1>2, <1>4, InvariantParts, LoopKeeps

LEMMA RedisplayKeeps ==
  ASSUME DisplayInvariant, Redisplay
  PROVE  DisplayInvariant'
<1>1. /\ pc = "run" /\ pc' = "prompt" /\ UNCHANGED <<keyboard, rendered, text, reg, dirty>>
      /\ screen' = ClearPane(screen) \/ \E output \in Outputs : screen' = PutAll(DrawWindow, output)
  BY DEF Redisplay, Goes
<1>2. screen \in ScreenType /\ InPane(screen)
  BY <1>1, LoopInPane
<1>3. screen' \in ScreenType /\ InPane(screen')
  BY <1>1, <1>2, Cleared, Redrawn
<1> QED
  BY <1>1, <1>3, InvariantParts, LoopKeeps

LEMMA ExceptKeeps ==
  ASSUME DisplayInvariant, Except
  PROVE  DisplayInvariant' /\ ~screen'.window
<1>1. PICK output \in Outputs : screen' = PutAll(ClearScreen, output)
  BY DEF Except
<1>2. /\ ClearScreen \in ScreenType /\ ~ClearScreen.window /\ ClearScreen.y < Height
      /\ output \in Seq(Glyphs)
  BY <1>1, BlankFacts, DisplayAssumption DEF ClearScreen
<1>3. screen' \in ScreenType /\ ~screen'.window /\ screen'.y < Height
  BY <1>1, <1>2, PutAllStays DEF Stays
<1>4. pc = "run" /\ pc' = "halted" /\ UNCHANGED <<keyboard, rendered, text, reg, dirty>>
  BY DEF Except, Goes
<1>5. Modes /\ Printing
  BY InvariantParts
<1>6. Modes' /\ Printing' /\ Placed' /\ Follows'
  BY <1>3, <1>4, <1>5 DEF Modes, Printing, Placed, Follows, Steps
<1> QED
  BY <1>3, <1>4, <1>6, InvariantParts, StepKeeps DEF Controls

(***************************************************************************)
(* Keys.                                                                   *)
(***************************************************************************)
\* What a key does to the keyboard, the screen and rendered_length.
KeyDrawn(code) ==
  LET new == Handle(keyboard, code)
      begun == IF code = "backspace" THEN MoveLeft(screen) ELSE screen
      followed == Follow(screen, keyboard.cursor, new.cursor)
  IN  IF Redraws(keyboard, code) THEN Redraw(new, begun, rendered)
      ELSE IF Ends(keyboard, code) THEN NewLine(followed) ELSE followed

LEMMA KeyStays ==
  ASSUME NEW code, screen \in ScreenType, Formed(keyboard), rendered \in Nat
  PROVE  Stays(screen, KeyDrawn(code))
<1> DEFINE new == Handle(keyboard, code)
           begun == IF code = "backspace" THEN MoveLeft(screen) ELSE screen
           followed == Follow(screen, keyboard.cursor, new.cursor)
<1>1. Formed(new) /\ new.cursor \in Nat /\ keyboard.cursor \in Nat
  BY HandleFormed, FormedParts, LineType
<1> HIDE DEF new
<1>2. Stays(screen, begun) /\ begun \in ScreenType
  BY MoveLeftStays, StaysSame DEF Stays
<1> HIDE DEF begun
<1>3. Stays(begun, Redraw(new, begun, rendered))
  BY <1>1, <1>2, RedrawStays
<1>4. Stays(screen, Redraw(new, begun, rendered))
  BY <1>2, <1>3, StaysOn
<1>5. Stays(screen, followed) /\ followed \in ScreenType
  BY <1>1, FollowStays DEF Stays
<1> HIDE DEF followed
<1>6. Stays(followed, NewLine(followed))
  BY <1>5, NewLineSettles DEF Settles
<1>7. Stays(screen, NewLine(followed))
  BY <1>5, <1>6, StaysOn
<1>8. KeyDrawn(code) = IF Redraws(keyboard, code) THEN Redraw(new, begun, rendered)
                       ELSE IF Ends(keyboard, code) THEN NewLine(followed) ELSE followed
  BY Zenon DEF KeyDrawn, new, begun, followed
<1> QED
  BY <1>4, <1>5, <1>7, <1>8

LEMMA KeyKeeps ==
  ASSUME DisplayInvariant, Key
  PROVE  DisplayInvariant' /\ Stays(screen, screen')
<1>1. PICK code \in Codes :
        /\ keyboard' = Handle(keyboard, code) /\ screen' = KeyDrawn(code)
        /\ rendered' = IF Redraws(keyboard, code) THEN Len(keyboard'.line)
                       ELSE IF Ends(keyboard, code) THEN 0 ELSE rendered
  BY Zenon DEF Key, KeyDrawn
<1>2. UNCHANGED <<pc, text, reg, dirty>> /\ pc \notin {"prompt", "halted"}
  BY DEF Key
<1>3. /\ screen \in ScreenType /\ Formed(keyboard) /\ rendered \in 0..(LineCap - 1)
      /\ rendered \in Nat /\ (~screen.window => screen.y < Height)
      /\ Modes /\ Printing /\ Placed /\ Follows /\ pc \in Controls
  BY InvariantParts, KeyboardAssumption DEF DisplayInvariant, TypeOK, Controls
<1>4. Stays(screen, screen')
  BY <1>1, <1>3, KeyStays
<1>5. Formed(keyboard)' /\ keyboard' \in KeyboardType
  BY <1>1, <1>3, HandleFormed DEF Formed
<1>6. rendered' \in 0..(LineCap - 1)
  <2>1. Len(keyboard'.line) \in 0..(LineCap - 1) /\ 0 \in 0..(LineCap - 1)
    BY <1>5, FormedParts, KeyboardAssumption
  <2> QED
    BY <1>1, <1>3, <2>1
<1>7. Modes' /\ Printing'
  BY <1>2, <1>3, <1>4 DEF Modes, Printing, Stays
<1>8. Placed'
  BY <1>2, <1>3, <1>4, StaysInPane DEF Placed
<1>9. Follows'
  <2>1. pc \in Steps \/ (pc = "char" /\ text # Banner) => screen.window
    BY <1>3 DEF Modes
  <2> QED
    BY <1>2, <1>3, <1>4, <2>1 DEF Follows, Stays
<1>10. screen' \in ScreenType /\ (~screen'.window => screen'.y < Height)
  BY <1>3, <1>4 DEF Stays
<1>11. DisplayInvariant'
  BY <1>2, <1>3, <1>5, <1>6, <1>7, <1>8, <1>9, <1>10, InvariantParts, StepKeeps
<1> QED
  BY <1>4, <1>11

(***************************************************************************)
(* The theorems.                                                           *)
(***************************************************************************)
LEMMA DisplayKept == DisplayInvariant /\ [Next]_vars => DisplayInvariant'
<1> SUFFICES ASSUME DisplayInvariant, [Next]_vars
             PROVE  DisplayInvariant'
  OBVIOUS
<1>1. CASE Next
  BY <1>1, DrawFrameKeeps, PrintCharKeeps, PrintNewLineKeeps, EndCharKeeps, EndBannerKeeps,
     StoreKeeps, ReloadKeeps, ShowPromptKeeps, RunKeeps, OutputKeeps, RedisplayKeeps,
     ExceptKeeps, KeyKeeps
     DEF Next
<1>2. CASE UNCHANGED vars
  BY <1>2 DEF vars, DisplayInvariant, TypeOK, Booting, Modes, Printing, Placed, Follows
<1> QED
  BY <1>1, <1>2

\* Whatever key comes between any two loads and stores of the boot, the main thread's copy
\* of the cursor is in the pane where it writes a cell, and the cursor stored is in it
\* after every character.
THEOREM DisplayInvariantHolds == Spec => []DisplayInvariant
<1> QED
  BY DisplayInitially, DisplayKept, PTL DEF Spec

\* The cursor stays on the screen until the window is up, and once the boot is over in
\* the pane, the line in its array and rendered_length below its capacity.
THEOREM DisplayTypeIsCorrect == Spec => []TypeOK
<1>1. DisplayInvariant => TypeOK
  BY DEF DisplayInvariant
<1> QED
  BY <1>1, DisplayInvariantHolds, PTL

\* What the frame's cells may become.
Framed == \A cell \in Border : screen'.cells[cell] \in {screen.cells[cell], "frame"}

LEMMA SameIsFramed ==
  ASSUME SameBorder(screen, screen')
  PROVE  Framed
BY DEF SameBorder, Framed

LEMMA LoopFramed ==
  ASSUME DisplayInvariant, ShowPrompt \/ Run \/ Output \/ Redisplay
  PROVE  Framed
<1>1. pc \in {"prompt", "wait", "run"}
  BY DEF ShowPrompt, Run, Output, Redisplay, Goes
<1>2. screen \in ScreenType /\ InPane(screen) /\ Near(screen)
  BY <1>1, LoopInPane, InPaneIsNear
<1>3. ASSUME NEW glyphs \in Seq(Glyphs), screen' = PutAll(screen, glyphs)
      PROVE  Framed
  <2>1. SameBorder(screen, PutAll(screen, glyphs))
    BY <1>2, PutAllStays DEF Stays
  <2> QED
    BY <1>3, <2>1, SameIsFramed
<1>4. CASE ShowPrompt
  BY <1>3, <1>4, PromptText DEF ShowPrompt
<1>5. CASE Output
  BY <1>3, <1>5, DisplayAssumption DEF Output
<1>6. CASE Run
  BY <1>6 DEF Run, Framed
<1>7. CASE Redisplay
  <2>1. screen' = ClearPane(screen) \/ \E output \in Outputs : screen' = PutAll(DrawWindow, output)
    BY <1>7 DEF Redisplay
  <2>2. CASE screen' = ClearPane(screen)
    BY <1>2, <2>2, Cleared, SameIsFramed
  <2>3. CASE \E output \in Outputs : screen' = PutAll(DrawWindow, output)
    BY <2>3, Redrawn DEF Framed
  <2> QED
    BY <2>1, <2>2, <2>3
<1> QED
  BY <1>4, <1>5, <1>6, <1>7

\* Outside the boot, and in it near the pane, a key leaves the frame as it is.
LEMMA KeyFramed ==
  ASSUME DisplayInvariant, Key, screen.window, Booting => AtPane
  PROVE  Framed
<1>1. Modes /\ Placed /\ pc \in Controls /\ pc \notin {"prompt", "halted"}
  BY InvariantParts DEF Key, DisplayInvariant, TypeOK, Controls
<1>2. Near(screen)
  <2>1. CASE Booting
    BY <2>1 DEF AtPane, Near, Rows
  <2>2. CASE ~Booting
    BY <1>1, <2>2, LoopInPane, InPaneIsNear DEF Booting
  <2> QED
    BY <2>1, <2>2
<1> QED
  BY <1>2, KeyKeeps, SameIsFramed DEF Stays

\* Each key counts.
LEMMA KeysCounted == Spec => [](keys \in Nat)
<1>1. Init => keys \in Nat
  BY DEF Init
<1>2. keys \in Nat /\ [Next]_vars => (keys \in Nat)'
  <2> SUFFICES ASSUME keys \in Nat, [Next]_vars
               PROVE  keys' = keys \/ keys' = keys + 1
    OBVIOUS
  <2>1. \A from, to, cells : Draws(from, to, cells) => keys' = keys
    BY Zenon DEF Draws
  <2>2. \A from, to, new : Computes(from, to, new) => keys' = keys
    BY Zenon DEF Computes, Assigns
  <2>3. DrawFrame => keys' = keys
    BY <2>1, Zenon DEF DrawFrame
  <2>4. EndChar => keys' = keys
    BY <2>1, <2>2, Zenon DEF EndChar, KeepsColumn, KeepsRow
  <2>5. PrintChar => keys' = keys
    BY <2>1, <2>2, Zenon DEF PrintChar, KeepsColumn, KeepsRow, Begins
  <2>6. PrintNewLine => keys' = keys
    BY DEF PrintNewLine, Begins
  <2>7. EndBanner \/ Store \/ Reload => keys' = keys
    BY DEF EndBanner, Store, Reload
  <2>8. ShowPrompt \/ Run \/ Output \/ Redisplay \/ Except => keys' = keys
    BY DEF ShowPrompt, Run, Output, Redisplay, Except
  <2>9. Key => keys' = keys + 1
    BY DEF Key
  <2> QED
    BY <2>3, <2>4, <2>5, <2>6, <2>7, <2>8, <2>9 DEF Next, vars
<1> QED
  BY <1>1, <1>2, PTL DEF Spec

\* Nothing printed or scrolled in the window writes on its frame, whatever the handler
\* did to the cursor between any two stores, for every size of the screen and its pane,
\* every banner and all keys; nor does a key, except one of the boot that finds the cursor
\* off the pane.
THEOREM FrameAlwaysStays == Spec => FrameStays
<1>1. DisplayInvariant /\ keys \in Nat /\ [Next]_vars
        => [ screen.window /\ screen'.window /\ (Booting /\ keys' # keys => AtPane) =>
               \A cell \in Border : screen'.cells[cell] \in {screen.cells[cell], "frame"} ]_vars
  <2> SUFFICES ASSUME DisplayInvariant, keys \in Nat, Next, screen.window, screen'.window,
                      Booting /\ keys' # keys => AtPane
               PROVE  Framed
    BY DEF Framed
  <2>1. CASE DrawFrame
    BY <2>1, InvariantParts DEF DrawFrame, Draws, Goes, Modes
  <2>2. CASE PrintChar \/ PrintNewLine \/ EndChar
    BY <2>2, PrintCharKeeps, PrintNewLineKeeps, EndCharKeeps, SameIsFramed
  <2>3. CASE EndBanner \/ Reload
    BY <2>3 DEF EndBanner, Reload, Framed
  <2>4. CASE Store
    BY <2>4, StoreKeeps DEF Framed
  <2>5. CASE ShowPrompt \/ Run \/ Output \/ Redisplay
    BY <2>5, LoopFramed
  <2>6. CASE Except
    BY <2>6, ExceptKeeps
  <2>7. CASE Key
    <3>1. keys' = keys + 1
      BY <2>7 DEF Key
    <3>2. Booting => AtPane
      BY <3>1
    <3> QED
      BY <2>7, <3>2, KeyFramed
  <2> QED
    BY <2>1, <2>2, <2>3, <2>4, <2>5, <2>6, <2>7 DEF Next
<1> QED
  BY <1>1, DisplayInvariantHolds, KeysCounted, PTL DEF Spec, FrameStays

(***************************************************************************)
(* The pane as a row of places.                                            *)
(***************************************************************************)
\* The places above the pane's last row, and the first place of a row.
Room == PaneWidth * (PaneBottom - PaneTop)
RowStart(y) == (y - PaneTop) * PaneWidth
Place(s) == RowStart(s.y) + s.x - PaneLeft
Cell(place) == <<PaneLeft + (place % PaneWidth), PaneTop + (place \div PaneWidth)>>

\* What is seen at each place.
View(s) == [place \in Places |-> s.cells[Cell(place)]]

LEMMA WidthFacts == PaneWidth \in Nat \ {0} /\ PaneBottom - PaneTop \in Nat
BY ScreenFacts DEF PaneWidth

LEMMA Product ==
  ASSUME NEW w \in Nat, NEW d \in Nat
  PROVE  /\ w * d \in Nat /\ d * w = w * d /\ w * (d + 1) = w * d + w
         /\ (d + 1) * w = d * w + w
BY Z3

LEMMA ProductGrows ==
  ASSUME NEW w \in Nat, NEW d \in Nat, NEW e \in Nat, d <= e
  PROVE  d * w <= e * w
BY Z3

LEMMA RoomFacts ==
  /\ PaneWidth \in Nat \ {0} /\ Room \in Nat /\ Places = 0..(Room + PaneWidth - 1)
  /\ LineCap \in Nat \ {0} /\ LineCap + 1 <= Room
<1> DEFINE d == PaneBottom - PaneTop
<1>1. PaneWidth * d \in Nat /\ PaneWidth * (d + 1) = PaneWidth * d + PaneWidth
  BY WidthFacts, Product
<1>2. Places = 0..(PaneWidth * (d + 1) - 1)
  BY DEF Places
<1>3. Room = PaneWidth * d /\ LineCap + 1 <= Room
  BY RoomAssumption DEF Room
<1> QED
  BY <1>1, <1>2, <1>3, WidthFacts, KeyboardAssumption

\* Where the rows begin.
LEMMA RowFacts ==
  ASSUME NEW y \in PaneTop..(PaneBottom + 1)
  PROVE  /\ RowStart(y) \in Nat /\ RowStart(y + 1) = RowStart(y) + PaneWidth
         /\ y \in Rows => RowStart(y) <= Room
         /\ y \in Rows /\ y # PaneBottom => RowStart(y) + PaneWidth <= Room
         /\ RowStart(PaneBottom) = Room /\ RowStart(PaneBottom + 1) = Room + PaneWidth
         /\ RowStart(PaneTop) = 0
<1> DEFINE d == y - PaneTop
           e == PaneBottom - PaneTop
<1>1. d \in Nat /\ e \in Nat /\ PaneWidth \in Nat /\ (y + 1) - PaneTop = d + 1
      /\ (PaneBottom + 1) - PaneTop = e + 1 /\ PaneTop - PaneTop = 0
  BY ScreenFacts, WidthFacts
<1>2. RowStart(y) = d * PaneWidth /\ RowStart(y + 1) = (d + 1) * PaneWidth
  BY <1>1 DEF RowStart
<1>3. /\ RowStart(PaneBottom) = e * PaneWidth /\ RowStart(PaneBottom + 1) = (e + 1) * PaneWidth
      /\ RowStart(PaneTop) = 0 * PaneWidth
  BY <1>1 DEF RowStart
<1>4. Room = PaneWidth * e
  BY DEF Room
<1>5. y \in Rows => d <= e
  BY ScreenFacts DEF Rows
<1>6. y \in Rows /\ y # PaneBottom => d + 1 <= e
  BY ScreenFacts DEF Rows
<1> HIDE DEF d, e
<1>7. /\ d * PaneWidth = PaneWidth * d /\ PaneWidth * d \in Nat
      /\ (d + 1) * PaneWidth = d * PaneWidth + PaneWidth
      /\ e * PaneWidth = PaneWidth * e /\ PaneWidth * e \in Nat
      /\ (e + 1) * PaneWidth = e * PaneWidth + PaneWidth
      /\ 0 * PaneWidth = 0
  BY <1>1, Product
<1>8. d <= e => d * PaneWidth <= e * PaneWidth
  BY <1>1, ProductGrows
<1>9. d + 1 <= e => (d + 1) * PaneWidth <= e * PaneWidth
  BY <1>1, ProductGrows
<1> QED
  BY <1>1, <1>2, <1>3, <1>4, <1>5, <1>6, <1>7, <1>8, <1>9

LEMMA Remainder ==
  ASSUME NEW w \in Nat \ {0}, NEW d \in Nat, NEW r \in 0..(w - 1)
  PROVE  (d * w + r) % w = r /\ (d * w + r) \div w = d
BY Z3

LEMMA Divided ==
  ASSUME NEW w \in Nat \ {0}, NEW p \in Nat
  PROVE  p \div w \in Nat /\ p % w \in 0..(w - 1) /\ p = (p \div w) * w + (p % w)
BY Z3

\* A cell of the pane and its place.
LEMMA PlaceFacts ==
  ASSUME NEW x \in Columns, NEW y \in Rows
  PROVE  /\ RowStart(y) + x - PaneLeft \in Places
         /\ Cell(RowStart(y) + x - PaneLeft) = <<x, y>>
         /\ RowStart(y) + x - PaneLeft >= Room <=> y = PaneBottom
<1> DEFINE d == y - PaneTop
           r == x - PaneLeft
<1>1. d \in Nat /\ r \in 0..(PaneWidth - 1) /\ r \in Nat /\ PaneWidth \in Nat \ {0}
  BY ScreenFacts, WidthFacts DEF Rows, Columns, PaneWidth
<1>2. RowStart(y) = d * PaneWidth
  BY DEF RowStart
<1>3. PaneLeft + r = x /\ PaneTop + d = y
  BY ScreenFacts DEF Rows, Columns
<1> HIDE DEF d
<1>4. /\ RowStart(y) \in Nat /\ RowStart(y) <= Room
      /\ y # PaneBottom => RowStart(y) + PaneWidth <= Room
      /\ y = PaneBottom => RowStart(y) = Room
  <2>1. y \in PaneTop..(PaneBottom + 1)
    BY ScreenFacts DEF Rows
  <2> QED
    BY <2>1, RowFacts
<1>5. RowStart(y) + x - PaneLeft = RowStart(y) + r
  BY <1>4, ScreenFacts DEF Columns
<1> HIDE DEF r
<1>6. (RowStart(y) + r) % PaneWidth = r /\ (RowStart(y) + r) \div PaneWidth = d
  BY <1>1, <1>2, Remainder
<1>7. Cell(RowStart(y) + r) = <<x, y>>
  BY <1>3, <1>6 DEF Cell
<1>8. RowStart(y) + r \in Places /\ (RowStart(y) + r >= Room <=> y = PaneBottom)
  BY <1>1, <1>4, RoomFacts
<1> QED
  BY <1>5, <1>7, <1>8

LEMMA CellFacts ==
  ASSUME NEW place \in Places
  PROVE  \E x \in Columns, y \in Rows :
           Cell(place) = <<x, y>> /\ place = RowStart(y) + x - PaneLeft
<1> DEFINE d == place \div PaneWidth
           r == place % PaneWidth
           e == PaneBottom - PaneTop
<1>1. place \in Nat /\ place < Room + PaneWidth /\ PaneWidth \in Nat \ {0} /\ Room \in Nat
  BY RoomFacts
<1>2. d \in Nat /\ r \in 0..(PaneWidth - 1) /\ place = d * PaneWidth + r
  BY <1>1, Divided
<1>3. Cell(place) = <<PaneLeft + r, PaneTop + d>>
  BY DEF Cell
<1> HIDE DEF d, r
<1>4. e \in Nat /\ Room = PaneWidth * e
  BY WidthFacts DEF Room
<1> HIDE DEF e
<1>5. d <= e
  <2>1. SUFFICES ASSUME e + 1 <= d
                 PROVE  FALSE
    BY <1>2, <1>4
  <2>2. (e + 1) * PaneWidth <= d * PaneWidth
    BY <1>1, <1>2, <1>4, <2>1, ProductGrows
  <2>3. (e + 1) * PaneWidth = Room + PaneWidth
    BY <1>1, <1>4, Product
  <2>4. d * PaneWidth \in Nat
    BY <1>1, <1>2, Product
  <2> QED
    BY <1>1, <1>2, <2>2, <2>3, <2>4
<1>6. PaneLeft + r \in Columns
  BY <1>2, ScreenFacts DEF Columns, PaneWidth
<1>7. PaneTop + d \in Rows
  BY <1>2, <1>5, ScreenFacts DEF Rows, e
<1>8. RowStart(PaneTop + d) + (PaneLeft + r) - PaneLeft = place
  <2>1. (PaneTop + d) - PaneTop = d
    BY <1>2, ScreenFacts
  <2>2. RowStart(PaneTop + d) = d * PaneWidth /\ d * PaneWidth \in Nat
    BY <1>1, <1>2, <2>1, Product DEF RowStart
  <2> QED
    BY <1>2, <2>2, ScreenFacts
<1> QED
  BY <1>3, <1>6, <1>7, <1>8

\* The cell below.
LEMMA CellBelow ==
  ASSUME NEW place \in Places
  PROVE  /\ Cell(place) \in Cells /\ Cell(place) \in Pane
         /\ place >= Room <=> Cell(place)[2] = PaneBottom
         /\ place < Room => /\ place + PaneWidth \in Places
                            /\ Cell(place + PaneWidth)
                                 = <<Cell(place)[1], Cell(place)[2] + 1>>
<1>1. PICK x \in Columns, y \in Rows :
             Cell(place) = <<x, y>> /\ place = RowStart(y) + x - PaneLeft
  BY CellFacts
<1>2. place >= Room <=> y = PaneBottom
  BY <1>1, PlaceFacts
<1>3. place \in Nat /\ Room \in Nat /\ PaneWidth \in Nat
  BY RoomFacts
<1>4. ASSUME place < Room
      PROVE  place + PaneWidth \in Places /\ Cell(place + PaneWidth) = <<x, y + 1>>
  <2>1. y + 1 \in Rows /\ y \in PaneTop..(PaneBottom + 1)
    BY <1>2, <1>3, <1>4, ScreenFacts DEF Rows
  <2>2. RowStart(y + 1) = RowStart(y) + PaneWidth /\ RowStart(y) \in Nat
    BY <2>1, RowFacts
  <2>3. RowStart(y + 1) + x - PaneLeft = place + PaneWidth
    BY <1>1, <1>3, <2>2, ScreenFacts DEF Columns
  <2> QED
    BY <2>1, <2>3, PlaceFacts
<1> QED
  BY <1>1, <1>2, <1>4, PaneCells

LEMMA ViewType ==
  ASSUME NEW s \in ScreenType
  PROVE  /\ View(s) \in [Places -> Glyphs]
         /\ \A place \in Places : View(s)[place] = s.cells[Cell(place)]
BY CellBelow, ScreenParts DEF View

LEMMA PlaceType ==
  ASSUME NEW s, InPane(s)
  PROVE  Place(s) \in Places /\ Cell(Place(s)) = <<s.x, s.y>>
BY PlaceFacts DEF InPane, Place

\* A screen after a call: the view it leaves, and where the cursor stands in the pane.
Stands(s, place, view) == s \in ScreenType /\ InPane(s) /\ Place(s) = place /\ View(s) = view

\* What is seen when the pane has scrolled.
Risen(view) ==
  [place \in Places |-> IF place < Room THEN view[place + PaneWidth] ELSE Blank]

LEMMA SameView ==
  ASSUME NEW s, NEW m, m.cells = s.cells
  PROVE  View(m) = View(s)
BY DEF View

LEMMA WriteStands ==
  ASSUME NEW s \in ScreenType, InPane(s), NEW glyph \in Glyphs
  PROVE  Stands(Write(s, glyph), Place(s), [View(s) EXCEPT ![Place(s)] = glyph])
<1> DEFINE m == Write(s, glyph)
           p == Place(s)
<1>1. m \in ScreenType /\ InPane(m) /\ m.x = s.x /\ m.y = s.y
      /\ m.cells = [s.cells EXCEPT ![<<s.x, s.y>>] = glyph]
  <2>1. /\ m \in ScreenType /\ m.x = s.x /\ m.y = s.y /\ m.window = s.window
        /\ m.cells = [s.cells EXCEPT ![<<s.x, s.y>>] = glyph]
    BY WriteFacts
  <2>2. InPane(m)
    BY <2>1 DEF InPane
  <2> QED
    BY <2>1, <2>2
<1>2. Place(m) = p
  BY <1>1 DEF Place
<1>3. p \in Places /\ Cell(p) = <<s.x, s.y>>
  BY PlaceType
<1>4. s.cells \in [Cells -> Glyphs]
  BY ScreenParts
<1> HIDE DEF m, p
<1>5. \A q \in Places : m.cells[Cell(q)] = IF q = p THEN glyph ELSE View(s)[q]
  <2> TAKE q \in Places
  <2>1. Cell(q) \in Cells /\ View(s)[q] = s.cells[Cell(q)]
    BY CellBelow, ViewType
  <2>2. Cell(q) = Cell(p) => q = p
    <3>1. PICK x \in Columns, y \in Rows : Cell(q) = <<x, y>> /\ q = RowStart(y) + x - PaneLeft
      BY CellFacts
    <3>2. PICK x2 \in Columns, y2 \in Rows :
                 Cell(p) = <<x2, y2>> /\ p = RowStart(y2) + x2 - PaneLeft
      BY <1>3, CellFacts
    <3> QED
      BY <3>1, <3>2
  <2> QED
    BY <1>1, <1>3, <1>4, <2>1, <2>2
<1>6. View(m) = [View(s) EXCEPT ![p] = glyph]
  <2>1. View(s) \in [Places -> Glyphs]
    BY ViewType
  <2>2. View(m) = [q \in Places |-> m.cells[Cell(q)]]
    BY DEF View
  <2> QED
    BY <1>5, <2>1, <2>2
<1> QED
  BY <1>1, <1>2, <1>6 DEF Stands, m, p

LEMMA MoveLeftStands ==
  ASSUME NEW s \in ScreenType, InPane(s), Place(s) > 0
  PROVE  Stands(MoveLeft(s), Place(s) - 1, View(s))
<1> DEFINE m == MoveLeft(s)
<1>1. /\ m \in ScreenType /\ m.window = s.window /\ m.cells = s.cells /\ InPane(m)
  BY MoveLeftFacts, InPaneIsNear DEF InPane
<1>2. s.x \in Columns /\ s.y \in Rows /\ s.window
  BY DEF InPane
<1>3. s.x > PaneLeft => m.x = s.x - 1 /\ m.y = s.y
  BY <1>2 DEF MoveLeft, ScreenType
<1>4. ~(s.x > PaneLeft) /\ s.y > PaneTop => m.x = PaneRight /\ m.y = s.y - 1
  BY <1>2 DEF MoveLeft, ScreenType
<1> HIDE DEF m
<1>5. Place(m) = Place(s) - 1
  <2>1. s.y \in PaneTop..(PaneBottom + 1)
    BY <1>2, ScreenFacts DEF Rows
  <2>2. RowStart(s.y) \in Nat /\ RowStart(PaneTop) = 0
    BY <2>1, RowFacts
  <2>3. CASE s.x > PaneLeft
    BY <1>2, <1>3, <2>2, <2>3, ScreenFacts DEF Place, Columns
  <2>4. CASE ~(s.x > PaneLeft) /\ s.y > PaneTop
    <3>1. s.y - 1 \in PaneTop..(PaneBottom + 1) /\ (s.y - 1) + 1 = s.y
      BY <1>2, <2>4, ScreenFacts DEF Rows
    <3>2. RowStart((s.y - 1) + 1) = RowStart(s.y - 1) + PaneWidth /\ RowStart(s.y - 1) \in Nat
      BY <3>1, RowFacts
    <3>3. RowStart(s.y) = RowStart(s.y - 1) + PaneWidth
      BY <3>1, <3>2
    <3>4. s.x = PaneLeft
      BY <1>2, <2>4, ScreenFacts DEF Columns
    <3> QED
      BY <1>4, <2>4, <3>2, <3>3, <3>4, ScreenFacts DEF Place, PaneWidth
  <2>5. CASE ~(s.x > PaneLeft) /\ ~(s.y > PaneTop)
    <3>1. s.x = PaneLeft /\ s.y = PaneTop
      BY <1>2, <2>5, ScreenFacts DEF Columns, Rows
    <3>2. Place(s) = 0
      BY <2>2, <3>1, ScreenFacts DEF Place
    <3> QED
      BY <3>2
  <2> QED
    BY <2>3, <2>4, <2>5
<1> QED
  BY <1>1, <1>5, SameView DEF Stands, m

\* Back in the pane from a place of it, or from the place behind its last.
LEMMA KeepStands ==
  ASSUME NEW t \in ScreenType, t.window, t.x \in Columns, t.y \in PaneTop..(PaneBottom + 1),
         t.y = PaneBottom + 1 => t.x = PaneLeft
  PROVE  /\ Place(t) \in Places => Stands(KeepInConsole(t), Place(t), View(t))
         /\ Place(t) \in Places <=> t.y # PaneBottom + 1
         /\ Place(t) \notin Places => /\ Place(t) = Room + PaneWidth
                                      /\ Stands(KeepInConsole(t), Room, Risen(View(t)))
<1>1. CASE t.y # PaneBottom + 1
  <2>1. t.y \in Rows
    BY <1>1, ScreenFacts DEF Rows
  <2>2. InPane(t)
    BY <2>1 DEF InPane
  <2>3. KeepInConsole(t) = t /\ t \in ScreenType
    BY <2>2, KeepFacts
  <2> QED
    BY <1>1, <2>2, <2>3, PlaceType DEF Stands
<1>2. CASE t.y = PaneBottom + 1
  <2> DEFINE m == ScrollPane(t)
  <2>1. KeepInConsole(t) = m
    BY <1>2, KeepFacts
  <2>2. /\ m \in ScreenType /\ m.window /\ m.x = PaneLeft /\ m.y = PaneBottom
        /\ m.cells = Scrolled(t.cells)
    BY ScrollPaneFacts
  <2> HIDE DEF m
  <2>3. PaneLeft \in Columns /\ PaneBottom \in Rows /\ PaneBottom \in PaneTop..(PaneBottom + 1)
    BY ScreenFacts DEF Columns, Rows
  <2>4. RowStart(PaneBottom) = Room /\ RowStart(PaneBottom + 1) = Room + PaneWidth
    BY <2>3, RowFacts
  <2>5. InPane(m) /\ Place(m) = Room /\ Place(t) = Room + PaneWidth
    BY <1>2, <2>2, <2>3, <2>4, RoomFacts, ScreenFacts DEF InPane, Place
  <2>6. View(m) = Risen(View(t))
    <3>1. ASSUME NEW p \in Places
          PROVE  m.cells[Cell(p)] = IF p < Room THEN View(t)[p + PaneWidth] ELSE Blank
      <4>1. Cell(p) \in Cells /\ Cell(p) \notin Border
        BY CellBelow DEF Border
      <4>2. p < Room \/ p >= Room
        BY RoomFacts
      <4>3. CASE p >= Room
        <5>1. Cell(p)[2] = PaneBottom /\ ~(p < Room)
          BY <4>3, CellBelow, RoomFacts
        <5> QED
          BY <2>2, <4>1, <5>1 DEF Scrolled
      <4>4. CASE p < Room
        <5>1. /\ Cell(p)[2] # PaneBottom /\ p + PaneWidth \in Places
              /\ Cell(p + PaneWidth) = <<Cell(p)[1], Cell(p)[2] + 1>>
          BY <4>4, CellBelow, RoomFacts
        <5>2. View(t)[p + PaneWidth] = t.cells[Cell(p + PaneWidth)]
          BY <5>1 DEF View
        <5>3. m.cells[Cell(p)] = t.cells[<<Cell(p)[1], Cell(p)[2] + 1>>]
          BY <2>2, <4>1, <5>1 DEF Scrolled
        <5> QED
          BY <4>4, <5>1, <5>2, <5>3
      <4> QED
        BY <4>2, <4>3, <4>4
    <3> QED
      BY <3>1 DEF View, Risen
  <2>7. Place(t) \notin Places
    BY <2>5, RoomFacts
  <2> QED
    BY <1>2, <2>1, <2>2, <2>5, <2>6, <2>7 DEF Stands
<1> QED
  BY <1>1, <1>2

LEMMA MoveRightStands ==
  ASSUME NEW s \in ScreenType, InPane(s)
  PROVE  /\ Place(s) + 1 \in Places => Stands(MoveRight(s), Place(s) + 1, View(s))
         /\ Place(s) + 1 \notin Places =>
              /\ Place(s) + 1 = Room + PaneWidth
              /\ Stands(MoveRight(s), Room, Risen(View(s)))
<1> DEFINE t == [s EXCEPT !.x = @ + 1]
           w == Wrap(t)
<1>1. s.x \in Columns /\ s.y \in Rows /\ s.window
  BY DEF InPane
<1>2. s.x + 1 \in 0..Width
  BY ScreenParts, ScreenFacts
<1>3. /\ t \in LooseColumn /\ t.window /\ t.cells = s.cells
      /\ t.x = s.x + 1 /\ t.y = s.y
  BY <1>1, <1>2 DEF ScreenType, LooseColumn
<1>4. MoveRight(s) = KeepInConsole(w)
  BY DEF MoveRight
<1> HIDE DEF t
<1>5. w \in ScreenType /\ w.window /\ w.cells = s.cells
  BY <1>3, WrapFacts
<1>6. t.x \in Columns => w = t
  BY <1>3, WrapFacts
<1>7. t.x > PaneRight => w.x = PaneLeft /\ w.y = s.y + 1
  BY <1>3, WrapFacts
<1> HIDE DEF w
<1>8. s.y \in PaneTop..(PaneBottom + 1) /\ s.y + 1 \in PaneTop..(PaneBottom + 1)
  BY <1>1, ScreenFacts DEF Rows
<1>9. RowStart(s.y + 1) = RowStart(s.y) + PaneWidth /\ RowStart(s.y) \in Nat
  BY <1>8, RowFacts
<1>10. CASE s.x # PaneRight
  <2>1. t.x \in Columns
    BY <1>1, <1>3, <1>10, ScreenFacts DEF Columns
  <2>2. /\ w.x \in Columns /\ w.y = s.y /\ w.y # PaneBottom + 1
        /\ Place(w) = Place(s) + 1
    BY <1>1, <1>3, <1>6, <1>9, <2>1, ScreenFacts DEF Place, Columns, Rows
  <2> QED
    BY <1>4, <1>5, <1>8, <2>2, KeepStands, SameView
<1>11. CASE s.x = PaneRight
  <2>1. t.x > PaneRight
    BY <1>3, <1>11, ScreenFacts
  <2>2. w.x = PaneLeft /\ w.y = s.y + 1 /\ PaneLeft \in Columns
    BY <1>7, <2>1, ScreenFacts DEF Columns
  <2>3. Place(w) = Place(s) + 1
    BY <1>9, <1>11, <2>2, ScreenFacts DEF Place, PaneWidth
  <2> QED
    BY <1>4, <1>5, <1>8, <2>2, <2>3, KeepStands, SameView
<1> QED
  BY <1>10, <1>11

LEMMA NewLineStands ==
  ASSUME NEW s \in ScreenType, InPane(s)
  PROVE  \/ \E p \in Places : p > Place(s) /\ Stands(NewLine(s), p, View(s))
         \/ Stands(NewLine(s), Room, Risen(View(s)))
<1> DEFINE t == [s EXCEPT !.x = PaneLeft, !.y = s.y + 1]
<1>1. s.x \in Columns /\ s.y \in Rows /\ s.window
  BY DEF InPane
<1>2. PaneLeft \in 0..(Width - 1) /\ s.y + 1 \in Nat /\ PaneLeft \in Columns
  BY ScreenParts, ScreenFacts DEF Columns
<1>3. /\ t \in ScreenType /\ t.window /\ t.cells = s.cells
      /\ t.x = PaneLeft /\ t.y = s.y + 1
  BY <1>1, <1>2 DEF ScreenType
<1>4. NewLine(s) = KeepInConsole(t)
  BY <1>1 DEF NewLine
<1> HIDE DEF t
<1>5. s.y \in PaneTop..(PaneBottom + 1) /\ s.y + 1 \in PaneTop..(PaneBottom + 1)
  BY <1>1, ScreenFacts DEF Rows
<1>6. RowStart(s.y + 1) = RowStart(s.y) + PaneWidth /\ RowStart(s.y) \in Nat
  BY <1>5, RowFacts
<1>7. Place(t) > Place(s)
  BY <1>1, <1>3, <1>6, ScreenFacts DEF Place, Columns, PaneWidth
<1>8. View(t) = View(s)
  BY <1>3, SameView
<1>9. /\ Place(t) \in Places => Stands(KeepInConsole(t), Place(t), View(t))
      /\ Place(t) \notin Places => Stands(KeepInConsole(t), Room, Risen(View(t)))
  BY <1>2, <1>3, <1>5, KeepStands
<1> QED
  BY <1>4, <1>7, <1>8, <1>9

LEMMA EraseStands ==
  ASSUME NEW s \in ScreenType, InPane(s), Place(s) > 0
  PROVE  Stands(Erase(s), Place(s) - 1, [View(s) EXCEPT ![Place(s) - 1] = Blank])
<1> DEFINE m == MoveLeft(s)
<1>1. /\ m \in ScreenType /\ InPane(m) /\ Place(m) = Place(s) - 1 /\ View(m) = View(s)
  BY MoveLeftStands DEF Stands
<1>2. Erase(s) = Write(m, Blank)
  <2>1. s.x # 0
    BY ScreenFacts DEF InPane, Columns
  <2> QED
    BY <2>1 DEF Erase
<1> HIDE DEF m
<1>3. Stands(Write(m, Blank), Place(m), [View(m) EXCEPT ![Place(m)] = Blank])
  BY <1>1, WriteStands, ScreenFacts
<1> QED
  BY <1>1, <1>2, <1>3

\* A character printed: the cursor goes on by a place, or the pane scrolls.
LEMMA PrintStands ==
  ASSUME NEW s \in ScreenType, InPane(s), NEW glyph \in Glyphs
  PROVE  /\ Place(s) + 1 \in Places =>
              Stands(PrintGlyph(s, glyph), Place(s) + 1, [View(s) EXCEPT ![Place(s)] = glyph])
         /\ Place(s) + 1 \notin Places =>
              /\ Place(s) + 1 = Room + PaneWidth
              /\ Stands(PrintGlyph(s, glyph), Room,
                        Risen([View(s) EXCEPT ![Place(s)] = glyph]))
<1> DEFINE w == Write(s, glyph)
<1>1. KeepInConsole(s) = s
  BY KeepFacts
<1>2. PrintGlyph(s, glyph) = MoveRight(w)
  BY <1>1 DEF PrintGlyph, MoveRight
<1>3. /\ w \in ScreenType /\ InPane(w) /\ Place(w) = Place(s)
      /\ View(w) = [View(s) EXCEPT ![Place(s)] = glyph]
  BY WriteStands DEF Stands
<1> HIDE DEF w
<1> QED
  BY <1>2, <1>3, MoveRightStands

(***************************************************************************)
(* Texts in the pane.                                                      *)
(***************************************************************************)
\* The first n characters of a text stand right before a place; nothing is from it on.
Spells(view, end, f, n) ==
  /\ end \in Places /\ n <= end
  /\ \A j \in 1..n : view[end - n + j - 1] = f[j]
Bare(view, end) == \A place \in Places : place >= end => view[place] = Blank

\* A screen after a call, by what it is shown to spell.
Written(s, f, n) == s \in ScreenType /\ InPane(s) /\ Spells(View(s), Place(s), f, n)
Blanks(s) == s \in ScreenType /\ InPane(s) /\ Bare(View(s), Place(s))

LEMMA PrintWritten ==
  ASSUME NEW s, NEW f, NEW n \in Nat, Written(s, f, n), n + 1 <= Room,
         NEW glyph \in Glyphs, f[n + 1] = glyph
  PROVE  Written(PrintGlyph(s, glyph), f, n + 1)
<1> DEFINE p == Place(s)
           v == View(s)
           w == [v EXCEPT ![p] = glyph]
           m == PrintGlyph(s, glyph)
<1>1. s \in ScreenType /\ InPane(s) /\ p \in Places /\ n <= p
      /\ \A j \in 1..n : v[p - n + j - 1] = f[j]
  BY DEF Written, Spells
<1>2. v \in [Places -> Glyphs]
  BY <1>1, ViewType
<1>3. Places = 0..(Room + PaneWidth - 1) /\ Room \in Nat /\ PaneWidth \in Nat \ {0}
  BY RoomFacts
<1>4. /\ p + 1 \in Places => Stands(m, p + 1, w)
      /\ p + 1 \notin Places => p + 1 = Room + PaneWidth /\ Stands(m, Room, Risen(w))
  BY <1>1, PrintStands
<1> HIDE DEF p, v, m
<1>5. \A j \in 1..(n + 1) : (p + 1) - (n + 1) + j - 1 \in Places
                            /\ w[(p + 1) - (n + 1) + j - 1] = f[j]
  <2> TAKE j \in 1..(n + 1)
  <2>1. (p + 1) - (n + 1) + j - 1 = p - n + j - 1 /\ p - n + j - 1 \in 0..p
    BY <1>1, <1>3
  <2>2. p - n + j - 1 \in Places
    BY <1>1, <1>3, <2>1
  <2>3. CASE j = n + 1
    <3>1. p - n + j - 1 = p
      BY <1>1, <1>3, <2>3
    <3> QED
      BY <1>1, <1>2, <2>1, <2>2, <2>3, <3>1
  <2>4. CASE j # n + 1
    <3>1. j \in 1..n /\ p - n + j - 1 # p
      BY <1>1, <1>3, <2>4
    <3> QED
      BY <1>1, <1>2, <2>1, <2>2, <3>1
  <2> QED
    BY <2>3, <2>4
<1> HIDE DEF w
<1>6. CASE p + 1 \in Places
  <2>1. m \in ScreenType /\ InPane(m) /\ Place(m) = p + 1 /\ View(m) = w
    BY <1>4, <1>6 DEF Stands
  <2>2. n + 1 <= p + 1
    BY <1>1, <1>3
  <2>3. Spells(w, p + 1, f, n + 1)
    BY <1>5, <1>6, <2>2 DEF Spells
  <2> QED
    BY <2>1, <2>3 DEF Written, m
<1>7. CASE p + 1 \notin Places
  <2>1. m \in ScreenType /\ InPane(m) /\ Place(m) = Room /\ View(m) = Risen(w)
    BY <1>4, <1>7 DEF Stands
  <2>2. \A j \in 1..(n + 1) : Risen(w)[Room - (n + 1) + j - 1] = f[j]
    <3> TAKE j \in 1..(n + 1)
    <3> DEFINE q == Room - (n + 1) + j - 1
    <3>1. q \in Places /\ q < Room /\ q + PaneWidth = (p + 1) - (n + 1) + j - 1
      BY <1>3, <1>4, <1>7
    <3> HIDE DEF q
    <3>2. Risen(w)[q] = w[q + PaneWidth]
      BY <3>1 DEF Risen
    <3>3. w[q + PaneWidth] = f[j]
      BY <1>5, <3>1
    <3> QED
      BY <3>2, <3>3 DEF q
  <2>3. Room \in Places
    BY <1>3
  <2>4. Spells(Risen(w), Room, f, n + 1)
    BY <2>2, <2>3 DEF Spells
  <2> QED
    BY <2>1, <2>4 DEF Written, m
<1> QED
  BY <1>6, <1>7

\* What scrolls in is blank.
LEMMA RisenBare ==
  ASSUME NEW view
  PROVE  Bare(Risen(view), Room)
BY RoomFacts DEF Bare, Risen

LEMMA PutBlanks ==
  ASSUME NEW s, Blanks(s), NEW glyph \in Glyphs
  PROVE  Blanks(Put(s, glyph))
<1> DEFINE p == Place(s)
           v == View(s)
<1>1. s \in ScreenType /\ InPane(s) /\ Bare(v, p) /\ p \in Places /\ v \in [Places -> Glyphs]
  BY PlaceType, ViewType DEF Blanks
<1>2. ASSUME NEW m, NEW q \in Places, q >= p, Stands(m, q, v)
      PROVE  Blanks(m)
  <2>1. Bare(v, q)
    BY <1>1, <1>2, RoomFacts DEF Bare
  <2> QED
    BY <1>2, <2>1 DEF Stands, Blanks
<1>3. ASSUME NEW m, NEW view, Stands(m, Room, Risen(view))
      PROVE  Blanks(m)
  BY <1>3, RisenBare DEF Stands, Blanks
<1>4. CASE glyph = "newline"
  <2>1. Put(s, glyph) = NewLine(s)
    BY <1>4 DEF Put
  <2>2. \/ \E q \in Places : q > p /\ Stands(NewLine(s), q, v)
        \/ Stands(NewLine(s), Room, Risen(v))
    BY <1>1, NewLineStands
  <2> HIDE DEF p, v
  <2>3. ASSUME NEW q \in Places, q > p
        PROVE  q >= p
    BY <1>1, <2>3, RoomFacts
  <2> QED
    BY <1>2, <1>3, <2>1, <2>2, <2>3
<1>5. CASE glyph # "newline"
  <2> DEFINE w == [v EXCEPT ![p] = glyph]
             m == Put(s, glyph)
  <2>1. m = PrintGlyph(s, glyph)
    BY <1>5 DEF Put
  <2>2. /\ p + 1 \in Places => Stands(m, p + 1, w)
        /\ p + 1 \notin Places => Stands(m, Room, Risen(w))
    BY <1>1, <2>1, PrintStands
  <2> HIDE DEF p, v, m
  <2>3. Bare(w, p + 1)
    <3>1. ASSUME NEW q \in Places, q >= p + 1
          PROVE  w[q] = Blank
      <4>1. q # p /\ q >= p
        BY <1>1, <3>1, RoomFacts
      <4> QED
        BY <1>1, <4>1 DEF Bare
    <3> QED
      BY <3>1 DEF Bare
  <2> HIDE DEF w
  <2>4. p + 1 \in Places => Blanks(m)
    BY <2>2, <2>3 DEF Stands, Blanks
  <2> QED
    BY <1>3, <2>2, <2>4 DEF m
<1> QED
  BY <1>4, <1>5

LEMMA PutAllBlanks ==
  ASSUME NEW s, Blanks(s), NEW glyphs \in Seq(Glyphs)
  PROVE  Blanks(PutAll(s, glyphs))
<1> DEFINE n == Len(glyphs)
<1>1. s \in ScreenType
  BY DEF Blanks
<1>2. PICK after : /\ PutAll(s, glyphs) = after[n] /\ after[0] = s
                   /\ \A i \in 1..n : after[i] = Put(after[i - 1], glyphs[i])
  BY <1>1, PutAllSteps
<1>3. n \in Nat /\ \A i \in 1..n : glyphs[i] \in Glyphs
  BY LenProperties, ElementOfSeq
<1> HIDE DEF n
<1> DEFINE T == {i \in 0..n : Blanks(after[i])}
<1>4. 0 \in T
  BY <1>2, <1>3
<1>5. ASSUME NEW i \in 1..n, i - 1 \in T
      PROVE  i \in T
  <2>1. Blanks(after[i - 1])
    BY <1>5
  <2>2. Blanks(Put(after[i - 1], glyphs[i]))
    BY <1>3, <2>1, PutBlanks
  <2> QED
    BY <1>2, <2>2
<1> HIDE DEF T
<1>6. \A i \in 0..n : i \in T
  BY <1>3, <1>4, <1>5, UpTo
<1>7. n \in T
  BY <1>3, <1>6
<1> QED
  BY <1>2, <1>7 DEF T

\* A text without a newline printed behind the beginning of one.
LEMMA PutAllWritten ==
  ASSUME NEW s, NEW f, NEW n \in Nat, Written(s, f, n),
         NEW glyphs \in Seq(Glyphs), n + Len(glyphs) <= Room,
         \A j \in 1..Len(glyphs) : glyphs[j] # "newline" /\ f[n + j] = glyphs[j]
  PROVE  Written(PutAll(s, glyphs), f, n + Len(glyphs))
<1> DEFINE len == Len(glyphs)
<1>1. s \in ScreenType
  BY DEF Written
<1>2. PICK after : /\ PutAll(s, glyphs) = after[len] /\ after[0] = s
                   /\ \A i \in 1..len : after[i] = Put(after[i - 1], glyphs[i])
  BY <1>1, PutAllSteps
<1>3. len \in Nat /\ \A i \in 1..len : glyphs[i] \in Glyphs
  BY LenProperties, ElementOfSeq
<1>4. n + len <= Room /\ \A j \in 1..len : glyphs[j] # "newline" /\ f[n + j] = glyphs[j]
  OBVIOUS
<1> HIDE DEF len
<1> DEFINE T == {i \in 0..len : Written(after[i], f, n + i)}
<1>5. 0 \in T
  BY <1>2, <1>3
<1>6. ASSUME NEW i \in 1..len, i - 1 \in T
      PROVE  i \in T
  <2>1. Written(after[i - 1], f, n + (i - 1))
    BY <1>6
  <2>2. /\ n + (i - 1) \in Nat /\ (n + (i - 1)) + 1 = n + i /\ (n + (i - 1)) + 1 <= Room
        /\ glyphs[i] \in Glyphs /\ f[(n + (i - 1)) + 1] = glyphs[i]
    BY <1>3, <1>4, RoomFacts
  <2>3. Written(PrintGlyph(after[i - 1], glyphs[i]), f, (n + (i - 1)) + 1)
    BY <2>1, <2>2, PrintWritten
  <2>4. after[i] = PrintGlyph(after[i - 1], glyphs[i])
    BY <1>2, <1>4 DEF Put
  <2> QED
    BY <2>2, <2>3, <2>4
<1> HIDE DEF T
<1>7. \A i \in 0..len : i \in T
  BY <1>3, <1>5, <1>6, UpTo
<1>8. len \in T
  BY <1>3, <1>7
<1> QED
  BY <1>2, <1>8 DEF T, len

\* The cursor moved in a row of places.
LEMMA LeftByStands ==
  ASSUME NEW s \in ScreenType, InPane(s), NEW n \in Nat, n <= Place(s)
  PROVE  Stands(LeftBy(s, n), Place(s) - n, View(s))
<1> DEFINE p == Place(s)
           v == View(s)
<1>1. PICK after : /\ LeftBy(s, n) = after[n] /\ after[0] = s
                   /\ \A i \in 1..n : after[i] = MoveLeft(after[i - 1])
  BY LeftBySteps
<1>2. p \in Nat /\ n <= p
  BY PlaceType, RoomFacts
<1>3. Stands(s, p, v)
  BY DEF Stands
<1> HIDE DEF p, v
<1> DEFINE T == {i \in 0..n : Stands(after[i], p - i, v)}
<1>4. 0 \in T
  BY <1>1, <1>2, <1>3
<1>5. ASSUME NEW i \in 1..n, i - 1 \in T
      PROVE  i \in T
  <2>1. /\ after[i - 1] \in ScreenType /\ InPane(after[i - 1])
        /\ Place(after[i - 1]) = p - (i - 1) /\ View(after[i - 1]) = v
    BY <1>5 DEF Stands
  <2>2. p - (i - 1) > 0 /\ (p - (i - 1)) - 1 = p - i
    BY <1>2
  <2>3. Stands(MoveLeft(after[i - 1]), p - i, v)
    BY <2>1, <2>2, MoveLeftStands
  <2> QED
    BY <1>1, <2>3
<1> HIDE DEF T
<1>6. \A i \in 0..n : i \in T
  BY <1>4, <1>5, UpTo
<1>7. n \in T
  BY <1>6
<1> QED
  BY <1>1, <1>7 DEF T, p, v

LEMMA RightByStands ==
  ASSUME NEW s \in ScreenType, InPane(s), NEW n \in Nat, Place(s) + n \in Places
  PROVE  Stands(RightBy(s, n), Place(s) + n, View(s))
<1> DEFINE p == Place(s)
           v == View(s)
<1>1. PICK after : /\ RightBy(s, n) = after[n] /\ after[0] = s
                   /\ \A i \in 1..n : after[i] = MoveRight(after[i - 1])
  BY RightBySteps
<1>2. p \in Nat /\ p + n \in Places
  BY PlaceType, RoomFacts
<1>3. Stands(s, p, v)
  BY DEF Stands
<1> HIDE DEF p, v
<1> DEFINE T == {i \in 0..n : Stands(after[i], p + i, v)}
<1>4. 0 \in T
  BY <1>1, <1>2, <1>3
<1>5. ASSUME NEW i \in 1..n, i - 1 \in T
      PROVE  i \in T
  <2>1. /\ after[i - 1] \in ScreenType /\ InPane(after[i - 1])
        /\ Place(after[i - 1]) = p + (i - 1) /\ View(after[i - 1]) = v
    BY <1>5 DEF Stands
  <2>2. (p + (i - 1)) + 1 = p + i /\ p + i \in Places
    BY <1>2, RoomFacts
  <2>3. Stands(MoveRight(after[i - 1]), p + i, v)
    BY <2>1, <2>2, MoveRightStands
  <2> QED
    BY <1>1, <2>3
<1> HIDE DEF T
<1>6. \A i \in 0..n : i \in T
  BY <1>4, <1>5, UpTo
<1>7. n \in T
  BY <1>6
<1> QED
  BY <1>1, <1>7 DEF T, p, v

\* What is seen when the n places before one have been erased.
Erased(view, end, n) ==
  [place \in Places |-> IF end - n <= place /\ place < end THEN Blank ELSE view[place]]

LEMMA EraseByStands ==
  ASSUME NEW s \in ScreenType, InPane(s), NEW n \in Nat, n <= Place(s)
  PROVE  Stands(EraseBy(s, n), Place(s) - n, Erased(View(s), Place(s), n))
<1> DEFINE p == Place(s)
           v == View(s)
<1>1. PICK after : /\ EraseBy(s, n) = after[n] /\ after[0] = s
                   /\ \A i \in 1..n : after[i] = Erase(after[i - 1])
  BY EraseBySteps
<1>2. p \in Nat /\ p \in Places /\ n <= p
  BY PlaceType, RoomFacts
<1>3. Stands(s, p, v) /\ v \in [Places -> Glyphs]
  BY ViewType DEF Stands
<1> HIDE DEF p, v
<1>4. Erased(v, p, 0) = v
  <2>1. \A q \in Places : ~(p - 0 <= q /\ q < p)
    BY <1>2, RoomFacts
  <2> QED
    BY <1>3, <2>1 DEF Erased
<1>5. ASSUME NEW i \in 1..n
      PROVE  [Erased(v, p, i - 1) EXCEPT ![p - i] = Blank] = Erased(v, p, i)
  <2>1. p - i \in Places
    BY <1>2, RoomFacts
  <2>2. \A q \in Places : p - i <= q /\ q < p <=> q = p - i \/ (p - (i - 1) <= q /\ q < p)
    BY <1>2, RoomFacts
  <2> QED
    BY <2>1, <2>2 DEF Erased
<1> DEFINE T == {i \in 0..n : Stands(after[i], p - i, Erased(v, p, i))}
<1>6. 0 \in T
  BY <1>1, <1>2, <1>3, <1>4
<1>7. ASSUME NEW i \in 1..n, i - 1 \in T
      PROVE  i \in T
  <2>1. /\ after[i - 1] \in ScreenType /\ InPane(after[i - 1])
        /\ Place(after[i - 1]) = p - (i - 1) /\ View(after[i - 1]) = Erased(v, p, i - 1)
    BY <1>7 DEF Stands
  <2>2. p - (i - 1) > 0 /\ (p - (i - 1)) - 1 = p - i
    BY <1>2
  <2>3. Stands(Erase(after[i - 1]), p - i, [Erased(v, p, i - 1) EXCEPT ![p - i] = Blank])
    BY <2>1, <2>2, EraseStands
  <2> QED
    BY <1>1, <1>5, <2>3
<1> HIDE DEF T
<1>8. \A i \in 0..n : i \in T
  BY <1>6, <1>7, UpTo
<1>9. n \in T
  BY <1>8
<1> QED
  BY <1>1, <1>9 DEF T, p, v

\* Moves of the cursor along the line shown.
LEMMA FollowStands ==
  ASSUME NEW s \in ScreenType, InPane(s), NEW from \in Nat, NEW to \in Nat,
         from <= Place(s), Place(s) - from + to \in Places
  PROVE  Stands(Follow(s, from, to), Place(s) - from + to, View(s))
<1>1. Place(s) \in Nat
  BY PlaceType, RoomFacts
<1>2. CASE from > to
  <2>1. Less(from, to) = from - to /\ Less(to, from) = 0 /\ from - to \in Nat
    BY <1>2 DEF Less
  <2> DEFINE a == LeftBy(s, from - to)
  <2>2. Stands(a, Place(s) - (from - to), View(s))
    BY <1>1, <1>2, <2>1, LeftByStands
  <2>3. a \in ScreenType /\ InPane(a) /\ Place(a) = Place(s) - from + to /\ View(a) = View(s)
    BY <1>1, <2>2 DEF Stands
  <2>4. Follow(s, from, to) = RightBy(a, 0)
    BY <2>1 DEF Follow
  <2> HIDE DEF a
  <2>5. Place(a) + 0 = Place(a)
    BY <1>1, <2>3
  <2>6. Stands(RightBy(a, 0), Place(a) + 0, View(a))
    BY <2>3, <2>5, RightByStands
  <2> QED
    BY <2>3, <2>4, <2>5, <2>6
<1>3. CASE ~(from > to)
  <2>1. Less(from, to) = 0 /\ Less(to, from) = to - from /\ to - from \in Nat
    <3>1. to > from \/ to = from
      BY <1>3
    <3> QED
      BY <1>3, <3>1 DEF Less
  <2> DEFINE a == LeftBy(s, 0)
  <2>2. Stands(a, Place(s) - 0, View(s))
    BY <1>1, LeftByStands
  <2>3. a \in ScreenType /\ InPane(a) /\ Place(a) = Place(s) /\ View(a) = View(s)
    BY <1>1, <2>2 DEF Stands
  <2>4. Follow(s, from, to) = RightBy(a, to - from)
    BY <2>1 DEF Follow
  <2> HIDE DEF a
  <2>5. Place(a) + (to - from) = Place(s) - from + to
    BY <1>1, <2>3
  <2>6. Stands(RightBy(a, to - from), Place(a) + (to - from), View(a))
    BY <2>1, <2>3, <2>5, RightByStands
  <2> QED
    BY <2>3, <2>4, <2>5, <2>6
<1> QED
  BY <1>2, <1>3

(***************************************************************************)
(* What the keys leave to the drawing.                                     *)
(***************************************************************************)
LEMMA HistoryKeepsReady ==
  ASSUME NEW k, Formed(k)
  PROVE  /\ HistoryUp(k).ready = k.ready /\ (k.count = 0 => HistoryUp(k).line = k.line)
         /\ HistoryDown(k).ready = k.ready /\ (k.recall = 0 => HistoryDown(k).line = k.line)
<1>1. k \in KeyboardType
  BY DEF Formed
<1> DEFINE kept == [k EXCEPT !.saved = k.line, !.recall = k.count]
           back == [k EXCEPT !.recall = @ - 1]
           on == [k EXCEPT !.recall = @ + 1]
           out == [k EXCEPT !.recall = 0]
           Has(m) == \A line : Replace(m, line).ready = k.ready
<1>2. Has(kept) /\ Has(back) /\ Has(on) /\ Has(out) /\ Has(k)
  BY <1>1 DEF Replace, KeyboardType
<1> HIDE DEF kept, back, on, out
<1> DEFINE older == IF k.recall = 0 THEN kept ELSE IF k.recall > 1 THEN back ELSE k
<1>3. Has(older)
  BY <1>2
<1> HIDE DEF older
<1>4. HistoryUp(k) = IF k.count = 0 THEN k ELSE Replace(older, Recalled(older))
  BY Zenon DEF HistoryUp, older, kept, back
<1>5. HistoryDown(k) = IF k.recall = 0 THEN k
                       ELSE IF k.recall < k.count THEN Replace(on, Recalled(on))
                       ELSE Replace(out, k.saved)
  BY Zenon DEF HistoryDown, on, out
<1> QED
  BY <1>2, <1>3, <1>4, <1>5, Zenon

LEMMA EditsKeepReady ==
  ASSUME NEW k, Formed(k), NEW character
  PROVE  /\ Insert(k, character).ready = k.ready
         /\ Len(k.line) >= LineCap - 1 => Insert(k, character) = k
         /\ Delete(k).ready = k.ready /\ (k.cursor >= Len(k.line) => Delete(k) = k)
<1>1. k \in KeyboardType
  BY DEF Formed
<1> QED
  BY <1>1 DEF Insert, Delete, KeyboardType

LEMMA BackspaceEffect ==
  ASSUME NEW k, Formed(k)
  PROVE  /\ k.cursor = 0 => Backspace(k) = k
         /\ Backspace(k).ready = k.ready
         /\ k.cursor # 0 => Backspace(k).cursor = k.cursor - 1
<1>1. CASE k.cursor = 0
  BY <1>1, Zenon DEF Backspace
<1>2. CASE k.cursor # 0
  <2> DEFINE m == [k EXCEPT !.cursor = k.cursor - 1]
  <2>1. k.cursor - 1 \in 0..Len(k.line) /\ k.cursor - 1 < Len(k.line) /\ Len(k.line) \in Nat
    BY <1>2, FormedParts
  <2>2. Formed(m)
    BY <2>1, MoveFormed, Zenon
  <2>3. m.ready = k.ready /\ m.cursor = k.cursor - 1 /\ m.line = k.line
    BY DEF Formed, KeyboardType
  <2>4. Backspace(k) = Delete(m)
    BY <1>2 DEF Backspace
  <2> HIDE DEF m
  <2>5. Delete(m).ready = m.ready
    BY <2>2, EditsKeepReady
  <2>6. Delete(m).cursor = m.cursor
    BY <2>2 DEF Delete, Formed, KeyboardType
  <2> QED
    BY <1>2, <2>3, <2>4, <2>5, <2>6
<1> QED
  BY <1>1, <1>2

LEMMA EnterEffect ==
  ASSUME NEW k, Formed(k)
  PROVE  Enter(k).line = k.line /\ Enter(k).cursor = Len(k.line) /\ Enter(k).ready
<1> DEFINE ended == [k EXCEPT !.cursor = Len(k.line)]
<1>1. Len(k.line) \in 0..Len(k.line)
  BY FormedParts
<1>2. Formed(ended)
  BY <1>1, MoveFormed, Zenon
<1>3. ended.line = k.line /\ ended.cursor = Len(k.line)
  BY DEF Formed, KeyboardType
<1>4. Enter(k) = [Remember(ended) EXCEPT !.ready = TRUE]
  BY Zenon DEF Enter, ended
<1> HIDE DEF ended
<1>5. Formed(Remember(ended)) /\ Remember(ended).line = k.line
  BY <1>2, <1>3, RememberFormed, Zenon
<1>6. Remember(ended).cursor = ended.cursor
  BY <1>2 DEF Remember, Formed, KeyboardType
<1> QED
  BY <1>3, <1>4, <1>5, <1>6 DEF Formed, KeyboardType

\* What the drawing relies on: the keys that leave the line as it is, and those that
\* leave it unfinished.
Pressed(k, code) == IF k.extended THEN PressExtended(k, code) ELSE Press(k, code)
Drawable(k, code, m) ==
  /\ ~Redraws(k, code) /\ ~Ends(k, code) => m.line = k.line
  /\ ~Ends(k, code) => ~m.ready
  /\ Ends(k, code) => m.line = k.line /\ m.cursor = Len(k.line) /\ m.ready
  /\ Redraws(k, code) /\ code = "backspace" => m.cursor = k.cursor - 1

LEMMA PressedDrawable ==
  ASSUME NEW k, Formed(k), NEW code, ~k.ready
  PROVE  Drawable(k, code, Pressed(k, code))
<1> DEFINE m == Pressed(k, code)
<1>1. k \in KeyboardType /\ Len(k.line) \in Nat /\ k.cursor \in 0..Len(k.line)
      /\ LineCap \in Nat
  BY FormedParts, KeyboardAssumption DEF Formed
<1>2. "enter" \notin Letters /\ "backspace" \notin Letters
  BY LetterAssumption
<1>3. CASE k.extended
  <2>1. m = PressExtended(k, code)
    BY <1>3 DEF Pressed
  <2>2. ~Ends(k, code) /\ ~(Redraws(k, code) /\ code = "backspace")
    BY <1>3, <1>2 DEF Ends, Redraws
  <2>3. CASE code = "up"
    <3>1. m = HistoryUp(k)
      BY <2>1, <2>3 DEF PressExtended
    <3>2. ~Redraws(k, code) => k.count = 0
      BY <1>3, <2>3 DEF Redraws
    <3> HIDE DEF m
    <3>3. m.ready = k.ready /\ (~Redraws(k, code) => m.line = k.line)
      BY <3>1, <3>2, HistoryKeepsReady, Zenon
    <3> QED
      BY <2>2, <3>3, Zenon DEF Drawable, m
  <2>4. CASE code = "down"
    <3>1. m = HistoryDown(k)
      BY <2>1, <2>4 DEF PressExtended
    <3>2. ~Redraws(k, code) => k.recall = 0
      BY <1>3, <2>4 DEF Redraws
    <3> HIDE DEF m
    <3>3. m.ready = k.ready /\ (~Redraws(k, code) => m.line = k.line)
      BY <3>1, <3>2, HistoryKeepsReady, Zenon
    <3> QED
      BY <2>2, <3>3, Zenon DEF Drawable, m
  <2>5. CASE code = "delete"
    <3>1. m = Delete(k)
      BY <2>1, <2>5 DEF PressExtended
    <3>2. ~Redraws(k, code) => k.cursor >= Len(k.line)
      BY <1>1, <1>3, <2>5 DEF Redraws
    <3> HIDE DEF m
    <3>3. m.ready = k.ready /\ (~Redraws(k, code) => m.line = k.line)
      BY <3>1, <3>2, EditsKeepReady, Zenon
    <3> QED
      BY <2>2, <3>3, Zenon DEF Drawable, m
  <2>6. CASE code \notin {"up", "down", "delete"}
    <3>1. m \in {[k EXCEPT !.cursor = IF @ > 0 THEN @ - 1 ELSE 0],
                 [k EXCEPT !.cursor = IF @ < Len(k.line) THEN @ + 1 ELSE @],
                 [k EXCEPT !.cursor = 0], [k EXCEPT !.cursor = Len(k.line)], k}
      BY <2>1, <2>6 DEF PressExtended
    <3> HIDE DEF m
    <3>2. m.ready = k.ready /\ m.line = k.line
      BY <1>1, <3>1 DEF KeyboardType
    <3> QED
      BY <2>2, <3>2, Zenon DEF Drawable, m
  <2> QED
    BY <2>3, <2>4, <2>5, <2>6
<1>4. CASE ~k.extended
  <2>1. m = Press(k, code)
    BY <1>4 DEF Pressed
  <2>2. CASE code = "enter"
    <3>1. m = Enter(k)
      BY <1>2, <2>1, <2>2 DEF Press
    <3>2. Ends(k, code) /\ code # "backspace"
      BY <1>4, <2>2 DEF Ends
    <3> HIDE DEF m
    <3>3. m.line = k.line /\ m.cursor = Len(k.line) /\ m.ready
      BY <3>1, EnterEffect, Zenon
    <3> QED
      BY <3>2, <3>3, Zenon DEF Drawable, m
  <2>3. CASE code = "backspace"
    <3>1. m = Backspace(k)
      BY <1>2, <2>1, <2>3 DEF Press
    <3>2. ~Ends(k, code) /\ (Redraws(k, code) <=> k.cursor # 0)
      BY <1>2, <1>4, <2>3 DEF Ends, Redraws
    <3> HIDE DEF m
    <3>3. /\ m.ready = k.ready /\ (k.cursor = 0 => m.line = k.line)
          /\ k.cursor # 0 => m.cursor = k.cursor - 1
      BY <3>1, BackspaceEffect, Zenon
    <3> QED
      BY <3>2, <3>3, Zenon DEF Drawable, m
  <2>4. CASE code \in Letters
    <3>1. \E character : m = Insert(k, character)
      BY <1>2, <2>1, <2>4 DEF Press
    <3>2. code # "enter" /\ code # "backspace"
      BY <1>2, <2>4
    <3>3. ~Ends(k, code) /\ (~Redraws(k, code) => Len(k.line) >= LineCap - 1)
      BY <1>1, <1>4, <2>4, <3>2 DEF Ends, Redraws
    <3> HIDE DEF m
    <3>4. m.ready = k.ready /\ (~Redraws(k, code) => m.line = k.line)
      BY <3>1, <3>3, EditsKeepReady, Zenon
    <3> QED
      BY <3>2, <3>3, <3>4, Zenon DEF Drawable, m
  <2>5. CASE code \notin Letters /\ code # "enter" /\ code # "backspace"
    <3>1. m = k
      BY <2>1, <2>5 DEF Press
    <3>2. ~Ends(k, code)
      BY <2>5 DEF Ends
    <3> QED
      BY <2>5, <3>1, <3>2, Zenon DEF Drawable
  <2> QED
    BY <2>2, <2>3, <2>4, <2>5
<1> QED
  BY <1>3, <1>4

LEMMA HandleDrawable ==
  ASSUME NEW k, Formed(k), NEW code
  PROVE  /\ ~k.ready => Drawable(k, code, Handle(k, code))
         /\ k.ready => /\ ~Redraws(k, code) /\ ~Ends(k, code)
                       /\ Handle(k, code).ready /\ Handle(k, code).cursor = k.cursor
<1> DEFINE pressed == Pressed(k, code)
           shifted == [k EXCEPT !.shift = code = "shift"]
           begun == [k EXCEPT !.extended = TRUE]
           ended == [k EXCEPT !.extended = FALSE]
           handled == [pressed EXCEPT !.extended = FALSE]
           Same(m, n) == m.line = n.line /\ m.cursor = n.cursor /\ m.ready = n.ready
<1>1. Formed(pressed)
  BY PressExtendedFormed, PressFormed, Zenon DEF Pressed
<1>2. Same(begun, k) /\ Same(ended, k) /\ Same(shifted, k)
  BY DEF Formed, KeyboardType
<1> HIDE DEF pressed
<1>3. Same(handled, pressed)
  BY <1>1 DEF Formed, KeyboardType
<1>4. ~k.ready => Drawable(k, code, pressed)
  BY PressedDrawable DEF pressed
<1> HIDE DEF shifted, begun, ended, handled
<1>5. Handle(k, code) = IF code = "extend" THEN begun
                        ELSE IF code \in {"shift", "unshift"} THEN shifted
                        ELSE IF code = "release" \/ k.ready THEN ended ELSE handled
  BY Zenon DEF Handle, begun, shifted, ended, handled, pressed, Pressed
<1>6. CASE k.ready
  <2>1. ~Redraws(k, code) /\ ~Ends(k, code)
    BY <1>6 DEF Redraws, Ends
  <2> QED
    BY <1>2, <1>5, <1>6, <2>1, Zenon
<1>7. CASE ~k.ready /\ ~(code \in {"extend", "shift", "unshift", "release"})
  <2>1. Handle(k, code) = handled
    BY <1>5, <1>7
  <2> QED
    BY <1>3, <1>4, <1>7, <2>1, Zenon DEF Drawable
<1>8. CASE ~k.ready /\ code \in {"extend", "shift", "unshift", "release"}
  <2>1. ~Ends(k, code) /\ code # "backspace"
    BY <1>8 DEF Ends
  <2>2. Same(Handle(k, code), k)
    BY <1>2, <1>5, <1>8
  <2> QED
    BY <1>8, <2>1, <2>2, Zenon DEF Drawable
<1> QED
  BY <1>6, <1>7, <1>8

(***************************************************************************)
(* The line on the screen.                                                 *)
(***************************************************************************)
\* A text whose end is a number of places behind the cursor.
Shown(s, back, f, n) ==
  /\ s \in ScreenType /\ InPane(s) /\ Place(s) + back \in Places
  /\ Spells(View(s), Place(s) + back, f, n)

\* The prompt and the line, with nothing behind them.
Prompted(line) ==
  [j \in 1..(Len(line) + 2) |-> IF j = 1 THEN Mark ELSE IF j = 2 THEN Blank ELSE line[j - 2]]
Prompting(k, s) ==
  /\ Shown(s, Len(k.line) - k.cursor, Prompted(k.line), Len(k.line) + 2)
  /\ Bare(View(s), Place(s) + (Len(k.line) - k.cursor))

LEMMA LineFacts ==
  ASSUME NEW k, Formed(k)
  PROVE  /\ k.line \in Seq(Glyphs) /\ Len(k.line) \in Nat /\ Len(k.line) + 2 <= Room
         /\ k.cursor \in 0..Len(k.line)
         /\ \A j \in 1..Len(k.line) : k.line[j] # "newline"
<1>1. /\ k.line \in Seq(Characters) /\ Len(k.line) \in 0..(LineCap - 1)
      /\ k.cursor \in 0..Len(k.line)
  BY FormedParts, LineType
<1>2. Characters \subseteq Glyphs /\ "newline" \notin Characters
  BY DisplayAssumption
<1>3. \A j \in 1..Len(k.line) : k.line[j] \in Characters
  BY <1>1, ElementOfSeq
<1>4. k.line \in Seq(Glyphs)
  BY <1>1, <1>2
<1>5. Len(k.line) \in Nat /\ Len(k.line) + 2 <= Room
  BY <1>1, RoomFacts
<1> QED
  BY <1>1, <1>2, <1>3, <1>4, <1>5

LEMMA FollowShown ==
  ASSUME NEW s, NEW len \in Nat, NEW from \in 0..len, NEW to \in 0..len, NEW f,
         NEW n \in Nat, len <= n, Shown(s, len - from, f, n)
  PROVE  /\ Shown(Follow(s, from, to), len - to, f, n)
         /\ View(Follow(s, from, to)) = View(s)
         /\ Place(Follow(s, from, to)) + (len - to) = Place(s) + (len - from)
<1> DEFINE m == Follow(s, from, to)
           p == Place(s)
<1>1. /\ s \in ScreenType /\ InPane(s) /\ p + (len - from) \in Places
      /\ n <= p + (len - from) /\ Spells(View(s), p + (len - from), f, n)
  BY DEF Shown, Spells
<1>2. p \in Nat /\ p \in Places
  BY <1>1, PlaceType, RoomFacts
<1>3. from <= p /\ p - from + to \in Places /\ from \in Nat /\ to \in Nat
  BY <1>1, <1>2, RoomFacts
<1>4. Stands(m, p - from + to, View(s))
  BY <1>1, <1>3, FollowStands
<1> HIDE DEF m, p
<1>5. m \in ScreenType /\ InPane(m) /\ Place(m) = p - from + to /\ View(m) = View(s)
  BY <1>4 DEF Stands
<1>6. Place(m) + (len - to) = p + (len - from)
  BY <1>2, <1>5
<1>7. Shown(m, len - to, f, n)
  BY <1>1, <1>5, <1>6 DEF Shown
<1> QED
  BY <1>5, <1>6, <1>7 DEF m, p

\* Wherever redraw_line begins, it leaves the line drawn around the cursor.
LEMMA LineRedrawn ==
  ASSUME NEW k, Formed(k), NEW s \in ScreenType, InPane(s), NEW r \in Nat
  PROVE  Shown(Redraw(k, s, r), Len(k.line) - k.cursor, k.line, Len(k.line))
<1> DEFINE len == Len(k.line)
           rest == len - k.cursor
           a == RightBy(s, Ahead(k, r))
           b == EraseBy(a, r)
           c == PutAll(b, k.line)
           m == Redraw(k, s, r)
<1>1. /\ k.line \in Seq(Glyphs) /\ len \in Nat /\ 0 + len <= Room /\ rest \in 0..len
      /\ k.cursor \in Nat /\ \A j \in 1..len : k.line[j] # "newline"
  BY LineFacts, RoomFacts
<1>2. m = LeftBy(c, rest)
  BY DEF Redraw
<1>3. Ahead(k, r) \in Nat
  BY <1>1, LessType DEF Ahead
<1>4. a \in ScreenType /\ InPane(a)
  BY <1>3, RightByStays, StaysInPane DEF Stays
<1> HIDE DEF a
<1>5. b \in ScreenType /\ InPane(b)
  BY <1>4, EraseByStays, StaysInPane DEF Stays
<1> HIDE DEF b
<1>6. Written(b, k.line, 0)
  <2>1. Place(b) \in Places /\ 0 <= Place(b)
    BY <1>5, PlaceType, RoomFacts
  <2> QED
    BY <1>5, <2>1 DEF Written, Spells
<1>7. Written(c, k.line, len)
  <2>1. Written(PutAll(b, k.line), k.line, 0 + Len(k.line))
    <3>1. \A j \in 1..Len(k.line) : k.line[j] # "newline" /\ k.line[0 + j] = k.line[j]
      BY <1>1
    <3> QED
      BY <1>1, <1>6, <3>1, PutAllWritten
  <2>2. 0 + Len(k.line) = Len(k.line)
    BY <1>1
  <2> QED
    BY <2>1, <2>2
<1> HIDE DEF c
<1>8. /\ c \in ScreenType /\ InPane(c) /\ Place(c) \in Places /\ len <= Place(c)
      /\ Spells(View(c), Place(c), k.line, len)
  BY <1>7 DEF Written, Spells
<1>9. rest <= Place(c) /\ Place(c) \in Nat /\ rest \in Nat
  BY <1>1, <1>8, RoomFacts
<1>10. Stands(m, Place(c) - rest, View(c))
  BY <1>2, <1>8, <1>9, LeftByStands
<1> HIDE DEF rest, m, len
<1>11. m \in ScreenType /\ InPane(m) /\ Place(m) + rest = Place(c) /\ View(m) = View(c)
  BY <1>9, <1>10 DEF Stands
<1>12. Shown(m, rest, k.line, len)
  BY <1>8, <1>11 DEF Shown
<1> QED
  BY <1>12 DEF m, rest, len

\* If it begins at the end of what was drawn, it leaves it behind its prompt.
LEMMA PromptRedrawn ==
  ASSUME NEW k, Formed(k), NEW s \in ScreenType, InPane(s), NEW r \in Nat,
         NEW end \in Places, Place(s) + Ahead(k, r) = end, r + 2 <= end,
         Spells(View(s), end - r, Prompted(k.line), 2), Bare(View(s), end)
  PROVE  Prompting(k, Redraw(k, s, r))
<1> DEFINE len == Len(k.line)
           rest == len - k.cursor
           f == Prompted(k.line)
           v == View(s)
           w == Erased(v, end, r)
           a == RightBy(s, Ahead(k, r))
           b == EraseBy(a, r)
           c == PutAll(b, k.line)
           m == Redraw(k, s, r)
<1>1. /\ k.line \in Seq(Glyphs) /\ len \in Nat /\ 2 + len <= Room /\ rest \in 0..len
      /\ k.cursor \in Nat /\ \A j \in 1..len : k.line[j] # "newline"
  BY LineFacts, RoomFacts
<1>2. m = LeftBy(c, rest)
  BY DEF Redraw
<1>3. Ahead(k, r) \in Nat
  BY <1>1, LessType DEF Ahead
<1>4. Stands(a, end, v)
  BY <1>3, RightByStands
<1>5. a \in ScreenType /\ InPane(a) /\ Place(a) = end /\ View(a) = v
  BY <1>4 DEF Stands
<1> HIDE DEF a
<1>6. end \in Nat /\ r <= end /\ end - r \in Nat /\ end - r \in Places /\ end - r >= 2
  BY RoomFacts
<1> HIDE DEF v
<1>7. Stands(b, end - r, w)
  BY <1>5, <1>6, EraseByStands
<1>8. b \in ScreenType /\ InPane(b) /\ Place(b) = end - r /\ View(b) = w
  BY <1>7 DEF Stands
<1> HIDE DEF b
<1>9. Spells(w, end - r, f, 2)
  <2>1. \A j \in 1..2 : v[(end - r) - 2 + j - 1] = f[j]
    BY DEF Spells, v, f
  <2>2. \A j \in 1..2 : /\ (end - r) - 2 + j - 1 \in Places
                        /\ ~(end - r <= (end - r) - 2 + j - 1)
    BY <1>6, RoomFacts
  <2>3. \A j \in 1..2 : w[(end - r) - 2 + j - 1] = f[j]
    BY <2>1, <2>2 DEF Erased
  <2> QED
    BY <1>6, <2>3 DEF Spells
<1>10. Bare(w, end - r)
  <2>1. ASSUME NEW q \in Places, q >= end - r
        PROVE  w[q] = Blank
    <3>1. CASE q < end
      BY <2>1, <3>1 DEF Erased
    <3>2. CASE ~(q < end)
      <4>1. q >= end
        BY <1>6, <3>2, RoomFacts
      <4>2. v[q] = Blank
        BY <4>1 DEF Bare, v
      <4> QED
        BY <3>2, <4>2 DEF Erased
    <3> QED
      BY <3>1, <3>2
  <2> QED
    BY <2>1 DEF Bare
<1> HIDE DEF w
<1>11. Written(b, f, 2) /\ Blanks(b)
  BY <1>8, <1>9, <1>10 DEF Written, Blanks
<1>12. Written(c, f, 2 + len)
  <2>1. \A j \in 1..Len(k.line) : k.line[j] # "newline" /\ f[2 + j] = k.line[j]
    <3> TAKE j \in 1..Len(k.line)
    <3>1. 2 + j \in 1..(Len(k.line) + 2) /\ 2 + j # 1 /\ 2 + j # 2 /\ (2 + j) - 2 = j
      BY <1>1
    <3> QED
      BY <1>1, <3>1 DEF Prompted
  <2> HIDE DEF f
  <2> QED
    BY <1>1, <1>11, <2>1, PutAllWritten
<1>13. Blanks(c)
  BY <1>1, <1>11, PutAllBlanks
<1> HIDE DEF c, f
<1>14. /\ c \in ScreenType /\ InPane(c) /\ Place(c) \in Places /\ 2 + len <= Place(c)
       /\ Spells(View(c), Place(c), f, 2 + len) /\ Bare(View(c), Place(c))
  BY <1>12, <1>13 DEF Written, Spells, Blanks
<1>15. rest <= Place(c) /\ Place(c) \in Nat /\ rest \in Nat /\ 2 + len = len + 2
  BY <1>1, <1>14, RoomFacts
<1>16. Stands(m, Place(c) - rest, View(c))
  BY <1>2, <1>14, <1>15, LeftByStands
<1> HIDE DEF rest, m, len
<1>17. m \in ScreenType /\ InPane(m) /\ Place(m) + rest = Place(c) /\ View(m) = View(c)
  BY <1>15, <1>16 DEF Stands
<1>18. Shown(m, rest, f, len + 2) /\ Bare(View(m), Place(m) + rest)
  BY <1>14, <1>15, <1>17 DEF Shown
<1> QED
  BY <1>18 DEF m, rest, len, f, Prompting

(***************************************************************************)
(* Keys at the prompt.                                                     *)
(***************************************************************************)
\* Whether a redraw begins off the end of what was drawn.
KeySkews(code) ==
  LET new == Handle(keyboard, code)
      at == IF code = "backspace" THEN new.cursor ELSE keyboard.cursor
  IN  Redraws(keyboard, code) /\ at + Ahead(new, rendered) # rendered

KeyStep(code) ==
  /\ keyboard' = Handle(keyboard, code) /\ screen' = KeyDrawn(code)
  /\ rendered' = IF Redraws(keyboard, code) THEN Len(Handle(keyboard, code).line)
                 ELSE IF Ends(keyboard, code) THEN 0 ELSE rendered
  /\ skewed' = (skewed \/ KeySkews(code) \/ (Booting /\ screen' # screen))

LEMMA KeySteps ==
  ASSUME Key
  PROVE  (\E code \in Codes : KeyStep(code)) /\ UNCHANGED <<pc, text, reg, dirty>>
BY Zenon DEF Key, KeyStep, KeyDrawn, KeySkews

\* A key that is dropped draws nothing.
LEMMA FollowNone ==
  ASSUME NEW s \in ScreenType, NEW c \in Nat
  PROVE  Follow(s, c, c) = s
<1>1. LeftBy(s, 0) = s
  <2>1. 0 \in Nat
    OBVIOUS
  <2> QED
    BY <2>1, LeftBySteps
<1>2. RightBy(s, 0) = s
  <2>1. 0 \in Nat
    OBVIOUS
  <2> QED
    BY <2>1, RightBySteps
<1>3. Less(c, c) = 0
  BY DEF Less
<1> QED
  BY <1>1, <1>2, <1>3 DEF Follow

LEMMA ReadyDrawsNothing ==
  ASSUME Formed(keyboard), keyboard.ready, screen \in ScreenType, NEW code
  PROVE  KeyDrawn(code) = screen /\ Handle(keyboard, code).ready
<1>1. /\ ~Redraws(keyboard, code) /\ ~Ends(keyboard, code)
      /\ Handle(keyboard, code).ready /\ Handle(keyboard, code).cursor = keyboard.cursor
  BY HandleDrawable
<1>2. KeyDrawn(code) = Follow(screen, keyboard.cursor, keyboard.cursor)
  BY <1>1, Zenon DEF KeyDrawn
<1>3. keyboard.cursor \in Nat
  BY LineFacts
<1> QED
  BY <1>1, <1>2, <1>3, FollowNone

LEMMA LineAfterKey ==
  ASSUME Formed(keyboard), ~keyboard.ready, rendered \in Nat, NEW code,
         Shown(screen, Len(keyboard.line) - keyboard.cursor, keyboard.line,
               Len(keyboard.line)),
         ~Handle(keyboard, code).ready
  PROVE  Shown(KeyDrawn(code),
               Len(Handle(keyboard, code).line) - Handle(keyboard, code).cursor,
               Handle(keyboard, code).line, Len(Handle(keyboard, code).line))
<1> DEFINE new == Handle(keyboard, code)
           begun == IF code = "backspace" THEN MoveLeft(screen) ELSE screen
<1>1. Formed(new) /\ Drawable(keyboard, code, new)
  BY HandleFormed, HandleDrawable
<1>2. screen \in ScreenType /\ InPane(screen) /\ ~new.ready
  BY DEF Shown
<1> HIDE DEF new
<1>3. begun \in ScreenType /\ InPane(begun)
  BY <1>2, MoveLeftStays, StaysInPane DEF Stays
<1> HIDE DEF begun
<1>4. CASE Redraws(keyboard, code)
  <2>1. KeyDrawn(code) = Redraw(new, begun, rendered)
    BY <1>4, Zenon DEF KeyDrawn, new, begun
  <2>2. Shown(Redraw(new, begun, rendered), Len(new.line) - new.cursor, new.line,
              Len(new.line))
    BY <1>1, <1>3, LineRedrawn
  <2> QED
    BY <2>1, <2>2 DEF new
<1>5. CASE ~Redraws(keyboard, code)
  <2>1. ~Ends(keyboard, code) /\ new.line = keyboard.line
    BY <1>1, <1>2, <1>5 DEF Drawable
  <2>2. KeyDrawn(code) = Follow(screen, keyboard.cursor, new.cursor)
    BY <1>5, <2>1, Zenon DEF KeyDrawn, new
  <2>3. /\ Len(keyboard.line) \in Nat /\ keyboard.cursor \in 0..Len(keyboard.line)
        /\ new.cursor \in 0..Len(keyboard.line)
    BY <1>1, <2>1, LineFacts
  <2>4. Shown(Follow(screen, keyboard.cursor, new.cursor), Len(keyboard.line) - new.cursor,
              keyboard.line, Len(keyboard.line))
    <3> DEFINE len == Len(keyboard.line)
               line == keyboard.line
    <3>1. len \in Nat /\ keyboard.cursor \in 0..len /\ new.cursor \in 0..len /\ len <= len
      BY <2>3
    <3>2. Shown(screen, len - keyboard.cursor, line, len)
      OBVIOUS
    <3> HIDE DEF len, line
    <3>3. Shown(Follow(screen, keyboard.cursor, new.cursor), len - new.cursor, line, len)
      BY <3>1, <3>2, FollowShown
    <3> QED
      BY <3>3 DEF len, line
  <2> QED
    BY <2>1, <2>2, <2>4 DEF new
<1> QED
  BY <1>4, <1>5

\* Where the prompt stands, seen from the line's end.
LEMMA PromptPart ==
  ASSUME NEW view, NEW end, NEW line, NEW other, Len(line) \in Nat, Len(other) \in Nat,
         Spells(view, end, Prompted(line), Len(line) + 2)
  PROVE  Spells(view, end - Len(line), Prompted(other), 2)
<1>1. /\ end \in Nat /\ Len(line) + 2 <= end /\ end \in Places
      /\ \A j \in 1..(Len(line) + 2) : view[end - (Len(line) + 2) + j - 1] = Prompted(line)[j]
  BY RoomFacts DEF Spells
<1>2. end - Len(line) \in Places /\ 2 <= end - Len(line)
  BY <1>1, RoomFacts
<1>3. \A j \in 1..2 : /\ j \in 1..(Len(line) + 2) /\ j \in 1..(Len(other) + 2)
                      /\ (end - Len(line)) - 2 + j - 1 = end - (Len(line) + 2) + j - 1
  BY <1>1
<1>4. \A j \in 1..2 : Prompted(line)[j] = Prompted(other)[j]
  BY <1>3 DEF Prompted
<1>5. \A j \in 1..2 : view[(end - Len(line)) - 2 + j - 1] = Prompted(other)[j]
  BY <1>1, <1>3, <1>4
<1> QED
  BY <1>2, <1>5 DEF Spells

LEMMA PromptAfterKey ==
  ASSUME Formed(keyboard), ~keyboard.ready, rendered = Len(keyboard.line), NEW code,
         Prompting(keyboard, screen), ~KeySkews(code)
  PROVE  /\ ~Handle(keyboard, code).ready => Prompting(Handle(keyboard, code), KeyDrawn(code))
         /\ Handle(keyboard, code).ready => Blanks(KeyDrawn(code))
<1> DEFINE new == Handle(keyboard, code)
           begun == IF code = "backspace" THEN MoveLeft(screen) ELSE screen
           at == IF code = "backspace" THEN new.cursor ELSE keyboard.cursor
           len == Len(keyboard.line)
           end == Place(screen) + (len - keyboard.cursor)
           p == Place(screen)
           f == Prompted(keyboard.line)
<1>1. Formed(new) /\ Drawable(keyboard, code, new)
  BY HandleFormed, HandleDrawable
<1>2. len \in Nat /\ keyboard.cursor \in 0..len /\ Len(new.line) \in Nat
      /\ new.cursor \in 0..Len(new.line)
  BY <1>1, LineFacts
<1>3. /\ Shown(screen, len - keyboard.cursor, f, len + 2) /\ Bare(View(screen), end)
      /\ screen \in ScreenType /\ InPane(screen) /\ end \in Places
      /\ Spells(View(screen), end, f, len + 2)
  BY DEF Prompting, Shown
<1>4. Redraws(keyboard, code) => at + Ahead(new, rendered) = rendered
  BY DEF KeySkews
<1>5. KeyDrawn(code) = IF Redraws(keyboard, code) THEN Redraw(new, begun, rendered)
                       ELSE IF Ends(keyboard, code)
                       THEN NewLine(Follow(screen, keyboard.cursor, new.cursor))
                       ELSE Follow(screen, keyboard.cursor, new.cursor)
  BY Zenon DEF KeyDrawn, new, begun
<1>6. p \in Nat /\ len + 2 <= end /\ end = p + (len - keyboard.cursor)
  BY <1>3, PlaceType, RoomFacts DEF Spells
<1> HIDE DEF new, len, end, p
<1>7. CASE Redraws(keyboard, code)
  <2>1. ~new.ready /\ (code = "backspace" => new.cursor = keyboard.cursor - 1)
    <3>1. ~Ends(keyboard, code)
      BY <1>7, LetterAssumption DEF Redraws, Ends
    <3> QED
      BY <1>1, <1>7, <3>1 DEF Drawable
  <2>2. code = "backspace" => keyboard.cursor # 0
    BY <1>7, LetterAssumption DEF Redraws
  <2>3. /\ begun \in ScreenType /\ InPane(begun) /\ View(begun) = View(screen)
        /\ Place(begun) + keyboard.cursor = p + at
    <3>1. CASE code = "backspace"
      <4>1. Place(screen) > 0
        BY <1>2, <1>6 DEF p
      <4>2. Stands(MoveLeft(screen), p - 1, View(screen))
        BY <1>3, <4>1, MoveLeftStands DEF p
      <4>3. begun = MoveLeft(screen) /\ at = keyboard.cursor - 1
        BY <2>1, <3>1
      <4>4. Place(begun) = p - 1
        BY <4>2, <4>3 DEF Stands
      <4> HIDE DEF begun, at
      <4>5. Place(begun) + keyboard.cursor = p + at
        <5>1. keyboard.cursor \in Nat /\ p \in Nat
          BY <1>2, <1>6
        <5> QED
          BY <4>3, <4>4, <5>1
      <4> QED
        BY <4>2, <4>3, <4>5 DEF Stands
    <3>2. CASE code # "backspace"
      BY <1>2, <1>3, <1>6, <3>2 DEF p
    <3> QED
      BY <3>1, <3>2
  <2>4. Ahead(new, rendered) \in Nat /\ at + Ahead(new, rendered) = len
        /\ rendered = len /\ rendered \in Nat
    <3>1. rendered = len
      BY DEF len
    <3>2. new.cursor \in Nat
      BY <1>2
    <3>3. Ahead(new, rendered) \in Nat
      BY <1>2, <3>1, <3>2, LessType DEF Ahead
    <3> QED
      BY <1>2, <1>4, <1>7, <3>1, <3>3
  <2>5. at \in Nat
    BY <1>2
  <2> HIDE DEF begun, at
  <2>6. Place(begun) \in Nat
    BY <2>3, PlaceType, RoomFacts
  <2>7. Place(begun) + Ahead(new, rendered) = end
    <3>1. /\ Place(begun) \in Nat /\ Ahead(new, rendered) \in Nat /\ keyboard.cursor \in Nat
          /\ p \in Nat /\ at \in Nat /\ len \in Nat
      BY <1>2, <1>6, <2>4, <2>5, <2>6
    <3>2. /\ Place(begun) + keyboard.cursor = p + at /\ at + Ahead(new, rendered) = len
          /\ end = p + (len - keyboard.cursor)
      BY <1>6, <2>3, <2>4
    <3> QED
      BY <3>1, <3>2, Z3
  <2>8. Spells(View(screen), end - Len(keyboard.line), Prompted(new.line), 2)
    BY <1>2, <1>3, PromptPart DEF len, f
  <2>9. Spells(View(begun), end - rendered, Prompted(new.line), 2) /\ Bare(View(begun), end)
        /\ rendered + 2 <= end
    BY <1>3, <1>6, <2>3, <2>4, <2>8 DEF len
  <2>10. Prompting(new, Redraw(new, begun, rendered))
    BY <1>1, <1>3, <2>3, <2>4, <2>7, <2>9, PromptRedrawn
  <2> QED
    BY <1>5, <1>7, <2>1, <2>10 DEF new
<1>8. CASE ~Redraws(keyboard, code)
  <2>1. new.line = keyboard.line
    BY <1>1, <1>8 DEF Drawable
  <2>2. new.cursor \in 0..len
    BY <1>2, <2>1 DEF len
  <2> DEFINE m == Follow(screen, keyboard.cursor, new.cursor)
  <2>3. /\ Shown(m, len - new.cursor, f, len + 2) /\ View(m) = View(screen)
        /\ Place(m) + (len - new.cursor) = end
    <3>1. len <= len + 2 /\ len + 2 \in Nat
      BY <1>2
    <3> HIDE DEF f
    <3> QED
      BY <1>2, <1>3, <2>2, <3>1, FollowShown DEF end, p
  <2> HIDE DEF m
  <2>4. CASE Ends(keyboard, code)
    <3>1. new.ready /\ new.cursor = len
      BY <1>1, <2>4 DEF Drawable, len
    <3>2. m \in ScreenType /\ InPane(m) /\ Place(m) = end
      <4>1. m \in ScreenType /\ InPane(m)
        BY <2>3 DEF Shown
      <4>2. Place(m) \in Nat
        BY <4>1, PlaceType, RoomFacts
      <4> QED
        BY <1>2, <2>3, <3>1, <4>1, <4>2
    <3>3. Blanks(m)
      BY <1>3, <2>3, <3>2 DEF Blanks
    <3>4. "newline" \in Glyphs
      BY DisplayAssumption
    <3>5. Blanks(Put(m, "newline"))
      BY <3>3, <3>4, PutBlanks
    <3>6. Put(m, "newline") = NewLine(m)
      BY DEF Put
    <3> QED
      BY <1>5, <1>8, <2>4, <3>1, <3>5, <3>6 DEF new, m
  <2>5. CASE ~Ends(keyboard, code)
    <3>1. ~new.ready
      BY <1>1, <2>5 DEF Drawable
    <3>2. KeyDrawn(code) = m
      BY <1>5, <1>8, <2>5 DEF m
    <3>3. Bare(View(m), Place(m) + (len - new.cursor))
      BY <1>3, <2>3
    <3>4. Prompting(new, m)
      BY <2>1, <2>3, <3>3 DEF Prompting, len, f
    <3> QED
      BY <3>1, <3>2, <3>4 DEF new
  <2> QED
    BY <2>4, <2>5
<1> QED
  BY <1>7, <1>8

(***************************************************************************)
(* What is shown at the prompt, as an invariant.                           *)
(***************************************************************************)
Readied == pc = "run" => keyboard.ready
Measured == Editing => rendered = Len(keyboard.line)
LineShown ==
  Editing => Shown(screen, Len(keyboard.line) - keyboard.cursor, keyboard.line,
                   Len(keyboard.line))
PromptShown == Editing => Prompting(keyboard, screen)

\* The screen once the main thread has stored its copy, and what is already the same.
Stored(s, c) == [x |-> c.x, y |-> c.y, window |-> c.window, cells |-> s.cells]
Agreed ==
  pc \in Steps \cup {"char"} =>
    /\ "x" \notin dirty => screen.x = reg.x
    /\ "y" \notin dirty => screen.y = reg.y
    /\ "window" \notin dirty => screen.window = reg.window

\* Between lines the pane is bare from the cursor on, or will be when the main thread
\* has done what it is in.
Coming ==
  /\ Agreed
  /\ pc = "border" => Blanks(EnterPane(DrawBorder(screen)))
  /\ pc \in {"char", "column", "row", "write", "line"} => Blanks(Stored(screen, reg))
  /\ pc = "step" => Blanks(MoveRight(Stored(screen, reg)))
  /\ pc = "wrap" => Blanks(KeepInConsole(Wrap(Stored(screen, reg))))
  /\ pc \in {"margin", "bottom"} => Blanks(KeepInConsole(Stored(screen, reg)))
  /\ pc \in {"prompt", "run"} => Blanks(screen)
  /\ pc = "wait" /\ keyboard.ready => Blanks(screen)

Later ==
  Readied /\ Measured /\ LineShown /\ (skewed \/ (Coming /\ PromptShown))
ShownInvariant == DisplayInvariant /\ Later

\* Outside the loop's waiting and running only what the thread draws matters.
LEMMA LaterOutside ==
  ASSUME pc' \notin {"wait", "run"}, skewed' \/ Coming'
  PROVE  Later'
<1>1. ~Editing' /\ pc' # "run"
  BY DEF Editing
<1> QED
  BY <1>1, Zenon DEF Later, Readied, Measured, LineShown, PromptShown

\* A window just drawn.
LEMMA WindowBlanks == Blanks(DrawWindow)
<1> DEFINE b == DrawBorder(ClearScreen)
<1>1. /\ ClearScreen \in ScreenType
      /\ \A cell \in Cells : ClearScreen.cells[cell] = Blank
  BY BlankFacts DEF ClearScreen
<1>2. b \in ScreenType
  BY <1>1, FrameFacts
<1>3. b.cells = [cell \in Cells |-> IF cell \in Border THEN "frame" ELSE ClearScreen.cells[cell]]
  BY <1>1 DEF DrawBorder, ScreenType
<1> HIDE DEF b
<1>4. DrawWindow = EnterPane(b)
  BY DEF DrawWindow, b
<1>5. DrawWindow \in ScreenType /\ InPane(DrawWindow) /\ DrawWindow.cells = b.cells
  BY <1>2, <1>4, FrameFacts
<1>6. \A place \in Places : DrawWindow.cells[Cell(place)] = Blank
  <2> TAKE place \in Places
  <2>1. Cell(place) \in Cells /\ Cell(place) \notin Border
    BY CellBelow DEF Border
  <2> QED
    BY <1>1, <1>3, <1>5, <2>1
<1>7. Bare(View(DrawWindow), Place(DrawWindow))
  BY <1>6 DEF Bare, View
<1> QED
  BY <1>5, <1>7 DEF Blanks

LEMMA ClearedBlanks ==
  ASSUME NEW s \in ScreenType, InPane(s)
  PROVE  Blanks(ClearPane(s))
<1>1. /\ ClearPane(s) \in ScreenType /\ InPane(ClearPane(s))
      /\ \A cell \in Pane \cap Cells : ClearPane(s).cells[cell] = Blank
  BY Cleared
<1>2. \A place \in Places : ClearPane(s).cells[Cell(place)] = Blank
  BY <1>1, CellBelow
<1>3. Bare(View(ClearPane(s)), Place(ClearPane(s)))
  BY <1>2 DEF Bare, View
<1> QED
  BY <1>1, <1>3 DEF Blanks

LEMMA ShownInitially == Init => ShownInvariant
<1> SUFFICES ASSUME Init PROVE ShownInvariant
  OBVIOUS
<1>1. pc = "clear"
  BY DEF Init
<1>2. Later
  BY <1>1 DEF Later, Readied, Measured, LineShown, PromptShown, Coming, Editing, Agreed, Steps
<1> QED
  BY <1>2, DisplayInitially DEF ShownInvariant

\* A screen is its cursor, its mode and its cells.
LEMMA StoredIs ==
  ASSUME NEW s \in ScreenType, NEW c \in CursorType
  PROVE  /\ Stored(s, c) \in ScreenType
         /\ Stored(s, c).x = c.x /\ Stored(s, c).y = c.y /\ Stored(s, c).window = c.window
         /\ Stored(s, c).cells = s.cells
BY DEF Stored, ScreenType, CursorType

LEMMA AllStored ==
  ASSUME NEW s \in ScreenType, NEW c, s.x = c.x, s.y = c.y, s.window = c.window
  PROVE  Stored(s, c) = s
<1>1. s = [x |-> s.x, y |-> s.y, window |-> s.window, cells |-> s.cells]
  BY DEF ScreenType
<1> QED
  BY <1>1 DEF Stored

LEMMA StoredSame ==
  ASSUME NEW s, NEW m, NEW c, m.cells = s.cells
  PROVE  Stored(m, c) = Stored(s, c)
BY DEF Stored

LEMMA EnteredIs ==
  ASSUME NEW s \in ScreenType
  PROVE  EnterPane(s) = [x |-> PaneLeft, y |-> PaneTop, window |-> TRUE, cells |-> s.cells]
<1> DEFINE m == EnterPane(s)
<1>1. m \in [x : {PaneLeft}, y : {PaneTop}, window : {TRUE}, cells : {s.cells}]
  BY DEF EnterPane, ScreenType
<1> HIDE DEF m
<1>2. m = [x |-> PaneLeft, y |-> PaneTop, window |-> TRUE, cells |-> s.cells]
  BY <1>1
<1> QED
  BY <1>2 DEF m

\* A move of the copy is the same move on the screen, stored later.
At(c, x, y) == [c EXCEPT !.x = x, !.y = y]
InRow(c, y) == [c EXCEPT !.y = y]
InColumn(c, x) == [c EXCEPT !.x = x]

LEMMA MoveStored ==
  ASSUME NEW s, NEW c \in CursorType, NEW x, NEW y
  PROVE  At(Stored(s, c), x, y) = Stored(s, At(c, x, y))
<1>1. At(c, x, y).x = x /\ At(c, x, y).y = y /\ At(c, x, y).window = c.window
  BY DEF CursorType, At
<1>2. At(Stored(s, c), x, y) \in [x : {x}, y : {y}, window : {c.window}, cells : {s.cells}]
  BY DEF Stored, At
<1>3. At(Stored(s, c), x, y) = [x |-> x, y |-> y, window |-> c.window, cells |-> s.cells]
  BY <1>2
<1> QED
  BY <1>1, <1>3 DEF Stored

LEMMA RowStored ==
  ASSUME NEW s, NEW c \in CursorType, NEW y
  PROVE  InRow(Stored(s, c), y) = Stored(s, InRow(c, y))
BY DEF Stored, CursorType, InRow

LEMMA ColumnStored ==
  ASSUME NEW s, NEW c \in CursorType, NEW x
  PROVE  InColumn(Stored(s, c), x) = Stored(s, InColumn(c, x))
BY DEF Stored, CursorType, InColumn

LEMMA StepsStored ==
  ASSUME NEW s \in ScreenType, NEW c \in CursorType
  PROVE  /\ Wrap(Stored(s, c)) = Stored(s, Wrap(c))
         /\ KeepTop(Stored(s, c)) = Stored(s, KeepTop(c))
<1> DEFINE w == Stored(s, c)
           y == c.y + 1
<1>1. w.x = c.x /\ w.y = c.y /\ w.window = c.window
  BY StoredIs
<1>2. \A x : At(w, x, y) = Stored(s, At(c, x, y))
  BY MoveStored
<1>3. InRow(w, PaneTop) = Stored(s, InRow(c, PaneTop))
  BY RowStored
<1> HIDE DEF w
<1>4. Wrap(w) = Stored(s, Wrap(c))
  <2>1. CASE c.window /\ c.x > PaneRight
    <3>1. /\ Wrap(w) = At(w, PaneLeft, y)
          /\ Wrap(c) = At(c, PaneLeft, y)
      BY <1>1, <2>1 DEF Wrap, At
    <3> HIDE DEF y
    <3>2. At(w, PaneLeft, y) = Stored(s, At(c, PaneLeft, y))
      BY <1>2
    <3> QED
      BY <3>1, <3>2, Zenon
  <2>2. CASE ~(c.window /\ c.x > PaneRight) /\ c.x >= Width
    <3>1. /\ Wrap(w) = At(w, 0, y)
          /\ Wrap(c) = At(c, 0, y)
      BY <1>1, <2>2 DEF Wrap, At
    <3> HIDE DEF y
    <3>2. At(w, 0, y) = Stored(s, At(c, 0, y))
      BY <1>2
    <3> QED
      BY <3>1, <3>2, Zenon
  <2>3. CASE ~(c.window /\ c.x > PaneRight) /\ ~(c.x >= Width)
    <3>1. Wrap(w) = w /\ Wrap(c) = c
      BY <1>1, <2>3 DEF Wrap
    <3> QED
      BY <3>1, Zenon DEF w
  <2> QED
    BY <2>1, <2>2, <2>3
<1>5. KeepTop(w) = Stored(s, KeepTop(c))
  <2>1. CASE c.y < PaneTop
    <3>1. KeepTop(w) = InRow(w, PaneTop) /\ KeepTop(c) = InRow(c, PaneTop)
      BY <1>1, <2>1 DEF KeepTop, InRow
    <3> QED
      BY <1>3, <3>1, Zenon
  <2>2. CASE ~(c.y < PaneTop)
    <3>1. KeepTop(w) = w /\ KeepTop(c) = c
      BY <1>1, <2>2 DEF KeepTop
    <3> QED
      BY <3>1, Zenon DEF w
  <2> QED
    BY <2>1, <2>2
<1> QED
  BY <1>4, <1>5 DEF w
\* The window around a cleared screen depends on its cells alone.
LEMMA FramedIs ==
  ASSUME NEW s \in ScreenType, NEW m \in ScreenType, m.cells = s.cells
  PROVE  EnterPane(DrawBorder(m)) = EnterPane(DrawBorder(s))
<1>1. DrawBorder(m) \in ScreenType /\ DrawBorder(s) \in ScreenType
  BY FrameFacts
<1>2. DrawBorder(m).cells = DrawBorder(s).cells
  BY DEF DrawBorder, ScreenType
<1> QED
  BY <1>1, <1>2, EnteredIs

\* What an unskewed step of the boot has to show.
LEMMA BootShown ==
  ASSUME ShownInvariant, skewed' = skewed, pc' \notin {"wait", "run"},
         Coming => Coming'
  PROVE  Later'
BY LaterOutside DEF ShownInvariant, Later

LEMMA DrawFrameShown ==
  ASSUME ShownInvariant, DrawFrame
  PROVE  Later'
<1>1. /\ skewed' = skewed /\ screen \in ScreenType
      /\ pc' \notin {"wait", "run"}
  BY InvariantParts DEF DrawFrame, Draws, Goes, ShownInvariant
<1>2. SUFFICES ASSUME Coming
               PROVE  Coming'
  BY <1>1, BootShown
<1>3. CASE Draws("clear", "border", ClearScreen.cells)
  <2>1. pc' = "border" /\ screen' = [screen EXCEPT !.cells = ClearScreen.cells]
    BY <1>3 DEF Draws, Goes
  <2>2. ClearScreen \in ScreenType
    BY BlankFacts DEF ClearScreen
  <2>3. screen' \in ScreenType /\ screen'.cells = ClearScreen.cells
    BY <1>1, <2>1, <2>2, ScreenCells, OtherCells
  <2>4. EnterPane(DrawBorder(screen')) = DrawWindow
    BY <2>2, <2>3, FramedIs DEF DrawWindow
  <2> QED
    BY <2>1, <2>4, WindowBlanks DEF Coming, Agreed, Steps
<1>4. CASE /\ Draws("border", "char", DrawBorder(screen).cells)
           /\ reg' = [x |-> PaneLeft, y |-> PaneTop, window |-> TRUE]
           /\ dirty' = {"x", "y", "window"}
  <2>1. /\ pc = "border" /\ pc' = "char"
        /\ screen' = [screen EXCEPT !.cells = DrawBorder(screen).cells]
    BY <1>4 DEF Draws, Goes
  <2>2. DrawBorder(screen) \in ScreenType
    BY <1>1, FrameFacts
  <2>3. screen'.cells = DrawBorder(screen).cells
    BY <1>1, <2>1, <2>2, ScreenCells, OtherCells
  <2>4. reg'.x = PaneLeft /\ reg'.y = PaneTop /\ reg'.window = TRUE
    BY <1>4
  <2>5. Stored(screen', reg') = EnterPane(DrawBorder(screen))
    BY <2>2, <2>3, <2>4, EnteredIs DEF Stored
  <2>6. Blanks(Stored(screen', reg'))
    BY <1>2, <2>1, <2>5 DEF Coming
  <2> QED
    BY <1>4, <2>1, <2>6 DEF Coming, Agreed, Steps
<1> QED
  BY <1>3, <1>4 DEF DrawFrame

LEMMA StoreShown ==
  ASSUME ShownInvariant, Store
  PROVE  Later'
<1>1. /\ skewed' = skewed /\ pc' = pc /\ reg' = reg /\ keyboard' = keyboard
      /\ screen \in ScreenType /\ reg \in CursorType
  BY InvariantParts DEF Store, ShownInvariant
<1>2. pc \in Steps \cup {"border", "char"}
  <2>1. dirty # {} /\ Modes /\ pc \in Controls
    BY DEF Store, ShownInvariant, DisplayInvariant, TypeOK, Controls
  <2> QED
    BY <2>1 DEF Modes, Controls, Steps
<1>3. SUFFICES ASSUME Coming
               PROVE  Coming'
  BY <1>1, <1>2, BootShown DEF Steps
<1>4. screen' \in ScreenType /\ screen'.cells = screen.cells
  BY StoreKeeps, InvariantParts DEF ShownInvariant, DisplayInvariant, TypeOK
<1>5. Agreed'
  <2> USE DEF Agreed
  <2>0. Agreed
    BY <1>3 DEF Coming
  <2>1. CASE "x" \in dirty /\ screen' = [screen EXCEPT !.x = reg.x] /\ dirty' = dirty \ {"x"}
    <3>1. screen'.x = reg.x /\ screen'.y = screen.y /\ screen'.window = screen.window
      BY <1>1, <2>1, StoredFacts
    <3> QED
      BY <1>1, <2>1, <2>0, <3>1
  <2>2. CASE "y" \in dirty /\ screen' = [screen EXCEPT !.y = reg.y] /\ dirty' = dirty \ {"y"}
    <3>1. screen'.x = screen.x /\ screen'.y = reg.y /\ screen'.window = screen.window
      BY <1>1, <2>2, StoredFacts
    <3> QED
      BY <1>1, <2>2, <2>0, <3>1
  <2>3. CASE /\ "window" \in dirty /\ screen' = [screen EXCEPT !.window = reg.window]
             /\ dirty' = dirty \ {"window"}
    <3>1. screen'.x = screen.x /\ screen'.y = screen.y /\ screen'.window = reg.window
      BY <1>1, <2>3, StoredFacts
    <3> QED
      BY <1>1, <2>3, <2>0, <3>1
  <2> QED
    BY <2>1, <2>2, <2>3 DEF Store
<1>6. Stored(screen', reg') = Stored(screen, reg)
  BY <1>1, <1>4, StoredSame
<1>7. EnterPane(DrawBorder(screen')) = EnterPane(DrawBorder(screen))
  BY <1>1, <1>4, FramedIs
<1> QED
  BY <1>1, <1>2, <1>3, <1>5, <1>6, <1>7 DEF Coming, Steps

\* What the main thread has not assigned it finds as it left it.
LEMMA ReloadShown ==
  ASSUME ShownInvariant, Reload
  PROVE  Later'
<1>1. /\ UNCHANGED <<keyboard, screen, pc, dirty, skewed>> /\ pc \in Steps
      /\ screen \in ScreenType /\ reg \in CursorType
  BY InvariantParts DEF Reload, Steps, ShownInvariant
<1>2. SUFFICES ASSUME Coming
               PROVE  Coming'
  BY <1>1, BootShown DEF Steps
<1>3. /\ "x" \notin dirty => screen.x = reg.x
      /\ "y" \notin dirty => screen.y = reg.y
  <2>1. Agreed
    BY <1>2 DEF Coming
  <2> QED
    BY <1>1, <2>1 DEF Agreed
<1>4. [reg EXCEPT !.x = reg.x] = reg /\ [reg EXCEPT !.y = reg.y] = reg
  BY <1>1 DEF CursorType
<1>5. reg' = reg
  BY <1>3, <1>4 DEF Reload
<1>6. Agreed'
  BY <1>1, <1>2, <1>5 DEF Coming, Agreed
<1> QED
  BY <1>1, <1>2, <1>5, <1>6 DEF Coming

\* A step on the copy leaves what is stored and unassigned.
LEMMA ComputesAgreed ==
  ASSUME Agreed, NEW from \in Steps, NEW to, NEW new, Computes(from, to, new),
         new.window = reg.window
  PROVE  Agreed'
<1>1. /\ pc = from /\ reg' = new /\ dirty' = dirty \cup Moved(new) /\ screen' = screen
  BY DEF Computes, Assigns, Goes
<1>2. /\ "x" \notin dirty' => "x" \notin dirty /\ new.x = reg.x
      /\ "y" \notin dirty' => "y" \notin dirty /\ new.y = reg.y
  BY <1>1 DEF Moved
<1> QED
  BY <1>1, <1>2 DEF Agreed
\* keep_cursor_in_console with the column in the pane.
LEMMA KeepRowIs ==
  ASSUME NEW w \in ScreenType, w.window, w.x \in Columns
  PROVE  /\ w.y <= PaneBottom => KeepInConsole(w) = KeepTop(w)
         /\ w.y > PaneBottom => KeepInConsole(w) = ScrollPane(w)
<1>1. w.y \in Nat
  BY ScreenParts
<1>2. KeepColumn(w) = w
  BY ScreenFacts DEF KeepColumn, Columns
<1>3. KeepInConsole(w) = IF KeepTop(w).y > PaneBottom THEN ScrollPane(KeepTop(w))
                                                      ELSE KeepTop(w)
  BY <1>2 DEF KeepInConsole
<1>4. w.y < PaneTop => KeepTop(w).y = PaneTop
  BY DEF KeepTop, ScreenType
<1>5. ~(w.y < PaneTop) => KeepTop(w) = w
  BY DEF KeepTop
<1> QED
  BY <1>1, <1>3, <1>4, <1>5, ScreenFacts

\* With everything stored the screen is what the copy says.
LEMMA WhenStored ==
  ASSUME DisplayInvariant, Agreed, pc \in Steps \cup {"char"}, dirty = {}
  PROVE  /\ screen.x = reg.x /\ screen.y = reg.y /\ screen.window = reg.window
         /\ Stored(screen, reg) = screen
<1>1. screen.x = reg.x /\ screen.y = reg.y /\ screen.window = reg.window
  BY DEF Agreed
<1> QED
  BY <1>1, InvariantParts, AllStored

\* A bare pane has its cursor in it.
LEMMA BlanksPlace ==
  ASSUME DisplayInvariant, Blanks(Stored(screen, reg))
  PROVE  reg.x \in Columns /\ reg.y \in Rows /\ reg.window
<1>1. InPane(Stored(screen, reg))
  BY DEF Blanks
<1>2. /\ Stored(screen, reg).x = reg.x /\ Stored(screen, reg).y = reg.y
      /\ Stored(screen, reg).window = reg.window
  BY InvariantParts, StoredIs
<1> QED
  BY <1>1, <1>2 DEF InPane

LEMMA KeepsColumnShown ==
  ASSUME DisplayInvariant, Coming, NEW from, NEW to, KeepsColumn(from, to),
         <<from, to>> \in {<<"column", "row">>, <<"margin", "bottom">>}
  PROVE  Coming'
<1>1. Computes(from, to, KeepColumn(reg)) /\ from \in Steps /\ reg \in CursorType /\ Placed
  BY InvariantParts DEF KeepsColumn, Steps
<1>2. pc = from /\ pc' = to /\ reg' = KeepColumn(reg) /\ screen' = screen
  BY <1>1 DEF Computes, Assigns, Goes
<1>3. reg.x \in Columns
  <2>1. CASE from = "column"
    <3>1. Blanks(Stored(screen, reg))
      BY <1>2, <2>1 DEF Coming
    <3> QED
      BY <3>1, BlanksPlace
  <2>2. CASE from = "margin"
    BY <1>1, <1>2, <2>2 DEF Placed
  <2> QED
    BY <2>1, <2>2
<1>4. KeepColumn(reg) = reg
  BY <1>1, <1>3, CopyColumnFacts
<1>5. Agreed'
  BY <1>1, <1>4, ComputesAgreed DEF Coming
<1> QED
  BY <1>2, <1>4, <1>5 DEF Coming

LEMMA RowShown ==
  ASSUME DisplayInvariant, Coming, KeepsRow("row", "write")
  PROVE  Coming'
<1>1. pc = "row" /\ reg \in CursorType
  BY InvariantParts DEF KeepsRow, Computes, Assigns, Draws, Goes
<1>2. reg.y \in Rows
  BY <1>1, BlanksPlace DEF Coming
<1>3. ~(reg.y > PaneBottom) /\ KeepTop(reg) = reg
  BY <1>1, <1>2, CopyTopFacts, ScreenFacts DEF Rows
<1>4. Computes("row", "write", reg)
  BY <1>3 DEF KeepsRow
<1>5. pc' = "write" /\ reg' = reg /\ screen' = screen
  BY <1>4 DEF Computes, Assigns, Goes
<1>6. Agreed'
  BY <1>4, ComputesAgreed DEF Coming, Steps
<1> QED
  BY <1>1, <1>5, <1>6 DEF Coming

LEMMA BottomShown ==
  ASSUME DisplayInvariant, Coming, KeepsRow("bottom", "char")
  PROVE  Coming'
<1> DEFINE w == Stored(screen, reg)
<1>1. /\ pc = "bottom" /\ pc' = "char" /\ screen \in ScreenType /\ reg \in CursorType
      /\ Modes /\ Placed
  BY InvariantParts DEF KeepsRow, Computes, Assigns, Draws, Goes
<1>2. reg.window /\ reg.x \in Columns /\ Blanks(KeepInConsole(w))
  BY <1>1 DEF Modes, Placed, Steps, Coming
<1>3. /\ w \in ScreenType /\ w.x = reg.x /\ w.y = reg.y /\ w.window = reg.window
  BY <1>1, StoredIs
<1> HIDE DEF w
<1>4. CASE reg.y <= PaneBottom /\ Computes("bottom", "char", KeepTop(reg))
  <2>1. KeepInConsole(w) = KeepTop(w)
    BY <1>2, <1>3, <1>4, KeepRowIs
  <2>2. KeepTop(w) = Stored(screen, KeepTop(reg))
    BY <1>1, StepsStored DEF w
  <2>3. reg' = KeepTop(reg) /\ screen' = screen
    BY <1>4 DEF Computes, Assigns
  <2>4. KeepTop(reg).window = reg.window
    BY <1>1, CopyTopFacts
  <2>5. Agreed'
    BY <1>4, <2>4, ComputesAgreed DEF Coming, Steps
  <2>6. Blanks(Stored(screen', reg'))
    BY <1>2, <2>1, <2>2, <2>3
  <2> QED
    BY <1>1, <2>5, <2>6 DEF Coming
<1>5. CASE /\ reg.y > PaneBottom
           /\ Draws("bottom", "char", ScrollPane(screen).cells)
           /\ reg' = [reg EXCEPT !.x = PaneLeft, !.y = PaneBottom] /\ dirty' = {"x", "y"}
  <2> DEFINE m == ScrollPane(screen)
  <2>1. dirty = {} /\ screen' = [screen EXCEPT !.cells = m.cells]
    BY <1>5 DEF Draws
  <2>2. screen.window = reg.window /\ w = screen
    BY <1>1, <2>1, WhenStored DEF Coming, Steps, w
  <2>3. KeepInConsole(w) = m
    BY <1>2, <1>3, <1>5, <2>2, KeepRowIs
  <2>4. /\ m \in ScreenType /\ m.x = PaneLeft /\ m.y = PaneBottom
        /\ m.window = screen.window
    BY <1>1, ScrollPaneFacts
  <2> HIDE DEF m
  <2>5. screen'.cells = m.cells /\ screen'.window = screen.window
    BY <1>1, <2>1, <2>4, ScreenCells, OtherCells
  <2>6. reg' = At(reg, PaneLeft, PaneBottom)
    BY <1>5 DEF At
  <2>7. reg'.x = PaneLeft /\ reg'.y = PaneBottom /\ reg'.window = reg.window
    BY <1>1, <2>6 DEF At, CursorType
  <2>8. Stored(m, reg') = m
    BY <2>2, <2>4, <2>7, AllStored
  <2>9. Stored(screen', reg') = m
    BY <2>5, <2>8, StoredSame
  <2>10. Agreed'
    BY <1>5, <2>2, <2>5, <2>7 DEF Agreed
  <2> QED
    BY <1>1, <1>2, <2>3, <2>9, <2>10 DEF Coming
<1> QED
  BY <1>4, <1>5 DEF KeepsRow

LEMMA BeginsShown ==
  ASSUME DisplayInvariant, Coming, NEW to \in {"column", "line"}, Begins(to)
  PROVE  Coming'
<1>1. /\ pc = "char" /\ pc' = to /\ dirty = {} /\ screen' = screen /\ dirty' = {}
      /\ reg' = [x |-> screen.x, y |-> screen.y, window |-> screen.window]
  BY DEF Begins, Loads, Goes
<1>2. Blanks(Stored(screen, reg)) /\ Stored(screen, reg) = screen
  BY <1>1, WhenStored DEF Coming
<1>3. reg'.x = screen.x /\ reg'.y = screen.y /\ reg'.window = screen.window
  BY <1>1
<1>4. Stored(screen, reg') = screen
  BY <1>3, InvariantParts, AllStored
<1>5. Agreed'
  BY <1>1, <1>3 DEF Agreed
<1> QED
  BY <1>1, <1>2, <1>4, <1>5 DEF Coming

LEMMA WritesShown ==
  ASSUME DisplayInvariant, Coming, Loads, UNCHANGED dirty,
         Draws("write", "step", [screen.cells EXCEPT ![<<reg.x, reg.y>>] = Head(text)])
  PROVE  Coming'
<1> DEFINE m == Write(screen, Head(text))
<1>1. /\ pc = "write" /\ pc' = "step" /\ dirty = {} /\ screen \in ScreenType
      /\ screen' = [screen EXCEPT !.cells = [screen.cells EXCEPT ![<<reg.x, reg.y>>] = Head(text)]]
      /\ Printing
  BY InvariantParts DEF Draws, Goes
<1>2. /\ screen.x = reg.x /\ screen.y = reg.y /\ screen.window = reg.window
      /\ Stored(screen, reg) = screen
  BY <1>1, WhenStored DEF Coming, Steps
<1>3. Blanks(screen)
  BY <1>1, <1>2 DEF Coming
<1>4. Head(text) \in Glyphs /\ Head(text) # "newline"
  BY <1>1, TextFacts DEF Printing
<1>5. Blanks(Put(screen, Head(text)))
  BY <1>3, <1>4, PutBlanks
<1>6. Put(screen, Head(text)) = MoveRight(m)
  <2>1. KeepInConsole(screen) = screen
    BY <1>3, KeepFacts DEF Blanks
  <2> QED
    BY <1>4, <2>1 DEF Put, PrintGlyph, MoveRight
<1>7. /\ m \in ScreenType /\ m.x = screen.x /\ m.y = screen.y /\ m.window = screen.window
      /\ m.cells = [screen.cells EXCEPT ![<<screen.x, screen.y>>] = Head(text)]
  BY <1>1, <1>4, WriteFacts
<1> HIDE DEF m
<1>8. screen' = [screen EXCEPT !.cells = m.cells]
  BY <1>1, <1>2, <1>7
<1>9. /\ screen'.x = screen.x /\ screen'.y = screen.y /\ screen'.window = screen.window
      /\ screen'.cells = m.cells
  <2>1. m.cells \in [Cells -> Glyphs]
    BY <1>7, ScreenCells
  <2> DEFINE cells == m.cells
  <2>2. cells \in [Cells -> Glyphs] /\ screen' = [screen EXCEPT !.cells = cells]
    BY <1>8, <2>1
  <2>3. screen \in ScreenType
    BY <1>1
  <2> HIDE DEF cells
  <2>4. /\ screen'.x = screen.x /\ screen'.y = screen.y /\ screen'.window = screen.window
        /\ screen'.cells = cells
    BY <2>2, <2>3, OtherCells
  <2> QED
    BY <2>4 DEF cells
<1>10. reg'.x = screen.x /\ reg'.y = screen.y /\ reg'.window = screen.window
  BY DEF Loads
<1>11. Stored(screen', reg') = m
  <2>1. Stored(m, reg') = m
    BY <1>7, <1>10, AllStored
  <2> QED
    BY <1>9, <2>1, StoredSame
<1>12. Agreed'
  BY <1>9, <1>10 DEF Agreed
<1> QED
  BY <1>1, <1>5, <1>6, <1>11, <1>12 DEF Coming

LEMMA PrintCharShown ==
  ASSUME ShownInvariant, PrintChar
  PROVE  Later'
<1>1. skewed' = skewed /\ pc' \notin {"wait", "run"} /\ DisplayInvariant
  BY DEF PrintChar, Begins, KeepsColumn, KeepsRow, Computes, Assigns, Draws, Goes,
         ShownInvariant
<1>2. SUFFICES ASSUME Coming
               PROVE  Coming'
  BY <1>1, BootShown
<1>3. screen \in ScreenType /\ reg \in CursorType
  BY <1>1, InvariantParts
<1>4. CASE Begins("column")
  BY <1>1, <1>2, <1>4, BeginsShown
<1>5. CASE KeepsColumn("column", "row")
  BY <1>1, <1>2, <1>5, KeepsColumnShown
<1>6. CASE KeepsRow("row", "write")
  BY <1>1, <1>2, <1>6, RowShown
<1>7. CASE /\ Draws("write", "step", [screen.cells EXCEPT ![<<reg.x, reg.y>>] = Head(text)])
           /\ Loads /\ UNCHANGED dirty
  BY <1>1, <1>2, <1>7, WritesShown
<1>8. CASE Computes("step", "wrap", [reg EXCEPT !.x = @ + 1])
  <2> DEFINE w == Stored(screen, reg)
             x == reg.x + 1
             new == InColumn(reg, x)
  <2>1. Computes("step", "wrap", new)
    BY <1>8 DEF InColumn
  <2>2. w.x = reg.x
    BY <1>3, StoredIs
  <2>3. MoveRight(w) = KeepInConsole(Wrap(InColumn(w, x)))
    BY <2>2 DEF MoveRight, InColumn
  <2> HIDE DEF x, w
  <2>4. new.window = reg.window
    BY <1>3 DEF InColumn, CursorType
  <2>5. InColumn(w, x) = Stored(screen, new)
    BY <1>3, ColumnStored DEF w
  <2> HIDE DEF new
  <2>6. pc = "step" /\ pc' = "wrap" /\ reg' = new /\ screen' = screen
    BY <2>1 DEF Computes, Assigns, Goes
  <2>7. Agreed'
    BY <1>2, <2>1, <2>4, ComputesAgreed DEF Coming, Steps
  <2>8. Blanks(MoveRight(w))
    BY <1>2, <2>6 DEF Coming, w
  <2> QED
    BY <2>3, <2>5, <2>6, <2>7, <2>8 DEF Coming
<1>9. CASE Computes("wrap", "margin", Wrap(reg))
  <2>1. pc = "wrap" /\ pc' = "margin" /\ reg' = Wrap(reg) /\ screen' = screen
    BY <1>9 DEF Computes, Assigns, Goes
  <2>2. Wrap(reg).window = reg.window
    <3>1. reg.x \in PaneLeft..(PaneRight + 1) /\ reg.y \in Rows /\ reg.window
      BY <1>1, <2>1, InvariantParts DEF Placed, Modes, Steps
    <3>2. Wrap(reg) \in CursorType /\ Wrap(reg).window
      BY <1>3, <3>1, CopyWrapFacts
    <3>3. Wrap(reg).window \in BOOLEAN /\ reg.window \in BOOLEAN
      BY <1>3, <3>2, CursorParts
    <3> QED
      BY <3>1, <3>2, <3>3
  <2>3. Agreed'
    BY <1>2, <1>9, <2>2, ComputesAgreed DEF Coming, Steps
  <2>4. Wrap(Stored(screen, reg)) = Stored(screen', reg')
    BY <1>3, <2>1, StepsStored
  <2>5. Blanks(KeepInConsole(Wrap(Stored(screen, reg))))
    BY <1>2, <2>1 DEF Coming
  <2> QED
    BY <2>1, <2>3, <2>4, <2>5 DEF Coming
<1> QED
  BY <1>4, <1>5, <1>6, <1>7, <1>8, <1>9 DEF PrintChar

LEMMA PrintNewLineShown ==
  ASSUME ShownInvariant, PrintNewLine
  PROVE  Later'
<1>1. skewed' = skewed /\ pc' \notin {"wait", "run"} /\ DisplayInvariant
  BY DEF PrintNewLine, Begins, Goes, ShownInvariant
<1>2. SUFFICES ASSUME Coming
               PROVE  Coming'
  BY <1>1, BootShown
<1>3. CASE Begins("line")
  BY <1>1, <1>2, <1>3, BeginsShown
<1>4. CASE /\ Goes("line", "margin")
           /\ reg' = [reg EXCEPT !.x = PaneLeft, !.y = @ + 1] /\ dirty' = {"x", "y"}
           /\ screen' = screen
  <2> DEFINE w == Stored(screen, reg)
             y == reg.y + 1
  <2>1. pc = "line" /\ pc' = "margin" /\ screen \in ScreenType /\ reg \in CursorType
    BY <1>1, <1>4, InvariantParts DEF Goes
  <2>2. Blanks(w) /\ screen.window = reg.window
    <3>1. "window" \notin dirty /\ Agreed
      BY <1>1, <1>2, <2>1, InvariantParts DEF Modes, Steps, Coming
    <3> QED
      BY <1>2, <2>1, <3>1 DEF Coming, Agreed, Steps
  <2>3. w.window /\ w.y = reg.y
    BY <2>1, <2>2, StoredIs DEF Blanks, InPane
  <2>4. reg' = At(reg, PaneLeft, y)
    BY <1>4 DEF At
  <2>5. NewLine(w) = KeepInConsole(At(w, PaneLeft, y))
    BY <2>3 DEF NewLine, At
  <2> HIDE DEF w, y
  <2>6. At(w, PaneLeft, y) = Stored(screen, At(reg, PaneLeft, y))
    BY <2>1, MoveStored DEF w
  <2>7. Blanks(NewLine(w))
    <3>1. "newline" \in Glyphs
      BY DisplayAssumption
    <3>2. Blanks(Put(w, "newline"))
      BY <2>2, <3>1, PutBlanks
    <3> QED
      BY <3>2 DEF Put
  <2>8. Blanks(KeepInConsole(Stored(screen', reg')))
    BY <1>4, <2>4, <2>5, <2>6, <2>7
  <2>9. reg'.window = reg.window
    BY <2>1, <2>4 DEF At, CursorType
  <2>10. Agreed'
    BY <1>4, <2>2, <2>9 DEF Agreed
  <2> QED
    BY <2>1, <2>8, <2>10 DEF Coming
<1> QED
  BY <1>3, <1>4 DEF PrintNewLine

LEMMA EndsShown ==
  ASSUME ShownInvariant, EndChar \/ EndBanner
  PROVE  Later'
<1>1. skewed' = skewed /\ pc' \notin {"wait", "run"} /\ DisplayInvariant
  BY DEF EndChar, EndBanner, KeepsColumn, KeepsRow, Computes, Assigns, Draws, Goes,
         ShownInvariant
<1>2. SUFFICES ASSUME Coming
               PROVE  Coming'
  BY <1>1, BootShown
<1>3. CASE KeepsColumn("margin", "bottom")
  BY <1>1, <1>2, <1>3, KeepsColumnShown
<1>4. CASE KeepsRow("bottom", "char")
  BY <1>1, <1>2, <1>4, BottomShown
<1>5. CASE EndBanner
  <2>1. pc = "char" /\ pc' = "prompt" /\ dirty = {} /\ screen' = screen
    BY <1>5 DEF EndBanner, Goes
  <2>2. Blanks(screen)
    <3>1. Stored(screen, reg) = screen
      BY <1>1, <1>2, <2>1, WhenStored DEF Coming
    <3> QED
      BY <1>2, <2>1, <3>1 DEF Coming
  <2> QED
    BY <2>1, <2>2 DEF Coming, Agreed, Steps
<1> QED
  BY <1>3, <1>4, <1>5 DEF EndChar
LEMMA PromptGlyphs ==
  /\ <<Mark, Blank>> \in Seq(Glyphs) /\ Len(<<Mark, Blank>>) = 2
  /\ <<Mark, Blank>>[1] = Mark /\ <<Mark, Blank>>[2] = Blank
  /\ Mark # "newline" /\ Blank # "newline"
<1>1. Mark # "newline"
  BY Zenon DEF Mark
<1>2. Blank # "newline"
  BY Zenon DEF Blank
<1> QED
  BY <1>1, <1>2, PromptText

\* The prompt printed where nothing is left.
LEMMA PromptPrinted ==
  ASSUME NEW s, Blanks(s), NEW k, k.line = << >>, k.cursor = 0
  PROVE  /\ Prompting(k, PutAll(s, <<Mark, Blank>>))
         /\ Shown(PutAll(s, <<Mark, Blank>>), Len(k.line) - k.cursor, k.line, Len(k.line))
<1> DEFINE m == PutAll(s, <<Mark, Blank>>)
           f == Prompted(k.line)
<1>1. Len(k.line) = 0 /\ Len(k.line) - k.cursor = 0
  OBVIOUS
<1>2. f[1] = Mark /\ f[2] = Blank
  BY <1>1 DEF Prompted
<1>3. s \in ScreenType /\ InPane(s) /\ Place(s) \in Places /\ 0 <= Place(s)
  BY PlaceType, RoomFacts DEF Blanks
<1> HIDE DEF f
<1>4. Written(s, f, 0)
  BY <1>3 DEF Written, Spells
<1>5. 0 + Len(<<Mark, Blank>>) = 2 /\ 2 <= Room
  BY PromptGlyphs, RoomFacts
<1>6. \A j \in 1..Len(<<Mark, Blank>>) :
        <<Mark, Blank>>[j] # "newline" /\ f[0 + j] = <<Mark, Blank>>[j]
  BY <1>2, PromptGlyphs
<1>7. Written(m, f, 2)
  <2> DEFINE glyphs == <<Mark, Blank>>
  <2>1. /\ glyphs \in Seq(Glyphs) /\ 0 + Len(glyphs) <= Room /\ 0 + Len(glyphs) = 2
        /\ \A j \in 1..Len(glyphs) : glyphs[j] # "newline" /\ f[0 + j] = glyphs[j]
    BY <1>5, <1>6, PromptGlyphs
  <2> HIDE DEF glyphs
  <2>2. Written(PutAll(s, glyphs), f, 0 + Len(glyphs))
    BY <1>4, <2>1, PutAllWritten
  <2> QED
    BY <2>1, <2>2 DEF glyphs
<1>8. Blanks(m)
  BY PromptGlyphs, PutAllBlanks
<1> HIDE DEF m
<1>9. /\ m \in ScreenType /\ InPane(m) /\ Place(m) \in Places /\ Place(m) + 0 = Place(m)
      /\ Spells(View(m), Place(m), f, 2) /\ Bare(View(m), Place(m)) /\ 0 <= Place(m)
  BY <1>7, <1>8, RoomFacts DEF Written, Spells, Blanks
<1>10. Prompting(k, m)
  <2>1. Len(k.line) + 2 = 2
    BY <1>1
  <2> QED
    BY <1>1, <1>9, <2>1 DEF Prompting, Shown, f
<1>11. Shown(m, Len(k.line) - k.cursor, k.line, Len(k.line))
  BY <1>1, <1>9 DEF Shown, Spells
<1> QED
  BY <1>10, <1>11 DEF m

LEMMA ShowPromptShown ==
  ASSUME ShownInvariant, ShowPrompt
  PROVE  Later'
<1>1. /\ pc = "prompt" /\ pc' = "wait" /\ rendered' = 0 /\ skewed' = skewed
      /\ keyboard' = [keyboard EXCEPT !.line = << >>, !.cursor = 0, !.ready = FALSE,
                                      !.recall = 0]
      /\ screen' = PutAll(screen, <<Mark, Blank>>)
  BY DEF ShowPrompt, Goes
<1>2. screen \in ScreenType /\ InPane(screen) /\ keyboard \in KeyboardType
  BY <1>1, LoopInPane, InvariantParts DEF ShownInvariant
<1>3. keyboard'.line = << >> /\ keyboard'.cursor = 0 /\ ~keyboard'.ready
  BY <1>1, <1>2 DEF KeyboardType
<1>4. Len(keyboard'.line) = 0 /\ Len(keyboard'.line) - keyboard'.cursor = 0
  BY <1>3
<1>5. screen' \in ScreenType /\ InPane(screen')
  BY <1>1, <1>2, PromptGlyphs, PutAllStays, StaysInPane DEF Stays
<1>6. Shown(screen', Len(keyboard'.line) - keyboard'.cursor, keyboard'.line,
            Len(keyboard'.line))
  <2>1. Place(screen') \in Places /\ Place(screen') + 0 = Place(screen') /\ 0 <= Place(screen')
    BY <1>5, PlaceType, RoomFacts
  <2> QED
    BY <1>4, <1>5, <2>1 DEF Shown, Spells
<1>7. skewed \/ Prompting(keyboard', screen')
  <2>1. SUFFICES ASSUME ~skewed
                 PROVE  Prompting(keyboard', screen')
    OBVIOUS
  <2>2. Blanks(screen)
    BY <1>1, <2>1 DEF ShownInvariant, Later, Coming
  <2> QED
    BY <1>1, <1>3, <2>2, PromptPrinted
<1>8. LineShown' /\ (skewed \/ PromptShown')
  BY <1>6, <1>7 DEF LineShown, PromptShown
<1>9. Readied' /\ Measured'
  BY <1>1, <1>4 DEF Readied, Measured
<1>10. Coming'
  BY <1>1, <1>3 DEF Coming, Agreed, Steps
<1> QED
  BY <1>1, <1>8, <1>9, <1>10 DEF Later

LEMMA RunShown ==
  ASSUME ShownInvariant, Run
  PROVE  Later'
<1>1. /\ pc = "wait" /\ pc' = "run" /\ keyboard.ready /\ keyboard' = keyboard
      /\ screen' = screen /\ skewed' = skewed
  BY DEF Run, Goes
<1>2. skewed \/ Blanks(screen)
  BY <1>1 DEF ShownInvariant, Later, Coming
<1>3. Readied' /\ Measured' /\ LineShown' /\ PromptShown'
  BY <1>1 DEF Readied, Measured, LineShown, PromptShown, Editing
<1>4. skewed \/ Coming'
  BY <1>1, <1>2 DEF Coming, Agreed, Steps
<1> QED
  BY <1>1, <1>3, <1>4 DEF Later

LEMMA CommandShown ==
  ASSUME ShownInvariant, Output \/ Redisplay \/ Except
  PROVE  Later'
<1>1. pc = "run" /\ pc' \in {"prompt", "halted"}
  BY DEF Output, Redisplay, Except, Goes
<1>2. screen \in ScreenType /\ InPane(screen)
  BY <1>1, LoopInPane DEF ShownInvariant
<1>3. CASE Output
  <2>1. pc' = "prompt" /\ skewed' = skewed
    BY <1>3 DEF Output, Goes
  <2>2. SUFFICES ASSUME ~skewed
                 PROVE  Coming'
    BY <2>1, <2>2, LaterOutside
  <2>3. Blanks(screen)
    BY <1>1, <2>2 DEF ShownInvariant, Later, Coming
  <2>4. PICK output \in Outputs : screen' = PutAll(screen, output)
    BY <1>3 DEF Output
  <2>5. output \in Seq(Glyphs)
    BY DisplayAssumption
  <2>6. Blanks(screen')
    BY <2>3, <2>4, <2>5, PutAllBlanks
  <2> QED
    BY <2>1, <2>6 DEF Coming, Agreed, Steps
<1>4. CASE Redisplay
  <2>1. /\ pc' = "prompt"
        /\ \/ screen' = ClearPane(screen)
           \/ \E output \in Outputs : screen' = PutAll(DrawWindow, output)
    BY <1>4 DEF Redisplay, Goes
  <2>2. Blanks(ClearPane(screen))
    BY <1>2, ClearedBlanks
  <2>3. ASSUME NEW output \in Outputs
        PROVE  Blanks(PutAll(DrawWindow, output))
    <3>1. output \in Seq(Glyphs)
      BY DisplayAssumption
    <3> QED
      BY <3>1, WindowBlanks, PutAllBlanks
  <2>4. Blanks(screen')
    BY <2>1, <2>2, <2>3
  <2>5. Coming'
    BY <2>1, <2>4 DEF Coming, Agreed, Steps
  <2> QED
    BY <2>1, <2>5, LaterOutside
<1>5. CASE Except
  <2>1. pc' = "halted"
    BY <1>5 DEF Except, Goes
  <2>2. Coming'
    BY <2>1 DEF Coming, Agreed, Steps
  <2> QED
    BY <2>1, <2>2, LaterOutside
<1> QED
  BY <1>3, <1>4, <1>5

\* A key during the boot that draws nothing, or one that finds the line ready.
LEMMA KeyOutsideShown ==
  ASSUME ShownInvariant, Key, ~Editing
  PROVE  Later'
<1>1. PICK code \in Codes : KeyStep(code)
  BY KeySteps
<1>2. UNCHANGED <<pc, text, reg, dirty>> /\ pc \notin {"prompt", "halted"}
  BY KeySteps DEF Key
<1>3. Formed(keyboard) /\ screen \in ScreenType
  BY InvariantParts DEF ShownInvariant
<1>4. CASE Booting
  <2>1. pc' \notin {"wait", "run", "prompt"}
    BY <1>2, <1>4 DEF Booting
  <2>2. SUFFICES ASSUME ~skewed'
                 PROVE  Coming'
    BY <2>1, <2>2, LaterOutside
  <2>3. ~skewed /\ screen' = screen
    BY <1>1, <1>4, <2>2 DEF KeyStep
  <2>4. Coming
    BY <2>3 DEF ShownInvariant, Later
  <2> QED
    BY <1>2, <2>1, <2>3, <2>4 DEF Coming, Agreed, Booting, Steps
<1>5. CASE ~Booting
  <2>1. pc \in {"wait", "run"} /\ pc' = pc
    BY <1>2, <1>5 DEF Booting
  <2>2. keyboard.ready
    BY <2>1 DEF Editing, ShownInvariant, Later, Readied
  <2>3. screen' = screen /\ keyboard'.ready
    BY <1>1, <1>3, <2>2, ReadyDrawsNothing DEF KeyStep
  <2>4. Readied' /\ Measured' /\ LineShown' /\ PromptShown'
    BY <2>1, <2>3 DEF Readied, Measured, LineShown, PromptShown, Editing
  <2>5. skewed' \/ Coming'
    <3>1. SUFFICES ASSUME ~skewed'
                   PROVE  Coming'
      OBVIOUS
    <3>2. Coming
      BY <1>1, <3>1 DEF KeyStep, ShownInvariant, Later
    <3>3. Blanks(screen)
      BY <2>1, <2>2, <3>2 DEF Coming
    <3> QED
      BY <2>1, <2>3, <3>3 DEF Coming, Agreed, Steps
  <2> QED
    BY <2>4, <2>5 DEF Later
<1> QED
  BY <1>4, <1>5

LEMMA KeyEditingShown ==
  ASSUME ShownInvariant, Key, Editing
  PROVE  Later'
<1>1. PICK code \in Codes : KeyStep(code)
  BY KeySteps
<1>2. UNCHANGED <<pc, text, reg, dirty>> /\ pc = "wait" /\ pc' = "wait" /\ ~keyboard.ready
  BY KeySteps DEF Editing
<1>3. /\ Formed(keyboard) /\ rendered = Len(keyboard.line) /\ rendered \in Nat
      /\ Shown(screen, Len(keyboard.line) - keyboard.cursor, keyboard.line,
               Len(keyboard.line))
  <2>1. Formed(keyboard) /\ rendered = Len(keyboard.line)
    BY DEF ShownInvariant, DisplayInvariant, Later, Measured
  <2>2. rendered \in Nat
    BY <2>1, LineFacts
  <2> QED
    BY <2>1, <2>2 DEF ShownInvariant, Later, LineShown
<1>4. keyboard' = Handle(keyboard, code) /\ screen' = KeyDrawn(code)
  BY <1>1 DEF KeyStep
<1>5. LineShown'
  <2>1. SUFFICES ASSUME ~keyboard'.ready
                 PROVE  Shown(screen', Len(keyboard'.line) - keyboard'.cursor, keyboard'.line,
                              Len(keyboard'.line))
    BY DEF LineShown, Editing
  <2> QED
    BY <1>2, <1>3, <1>4, <2>1, LineAfterKey
<1>6. Readied'
  BY <1>2 DEF Readied
<1>7. Measured'
  <2>1. SUFFICES ASSUME ~keyboard'.ready
                 PROVE  rendered' = Len(keyboard'.line)
    BY DEF Measured, Editing
  <2>2. Drawable(keyboard, code, keyboard')
    BY <1>2, <1>3, <1>4, HandleDrawable
  <2>3. ~Ends(keyboard, code)
    BY <2>1, <2>2 DEF Drawable
  <2>4. ~Redraws(keyboard, code) => keyboard'.line = keyboard.line
    BY <2>2, <2>3 DEF Drawable
  <2> QED
    BY <1>1, <1>3, <1>4, <2>3, <2>4 DEF KeyStep
<1>8. skewed' \/ (Coming' /\ PromptShown')
  <2>1. SUFFICES ASSUME ~skewed'
                 PROVE  Coming' /\ PromptShown'
    OBVIOUS
  <2>2. ~skewed /\ ~KeySkews(code)
    BY <1>1, <2>1 DEF KeyStep
  <2>3. Prompting(keyboard, screen)
    BY <2>2 DEF ShownInvariant, Later, PromptShown
  <2>4. /\ ~keyboard'.ready => Prompting(keyboard', screen')
        /\ keyboard'.ready => Blanks(screen')
    BY <1>2, <1>3, <1>4, <2>2, <2>3, PromptAfterKey
  <2> QED
    BY <1>2, <2>4 DEF Coming, PromptShown, Editing, Agreed, Steps
<1> QED
  BY <1>5, <1>6, <1>7, <1>8 DEF Later

LEMMA ShownKept == ShownInvariant /\ [Next]_vars => ShownInvariant'
<1> SUFFICES ASSUME ShownInvariant, [Next]_vars
             PROVE  ShownInvariant'
  OBVIOUS
<1>1. DisplayInvariant'
  BY DisplayKept DEF ShownInvariant
<1>2. CASE Next
  <2>1. Later'
    BY <1>2, DrawFrameShown, PrintCharShown, PrintNewLineShown, EndsShown, StoreShown, ReloadShown,
       ShowPromptShown, RunShown, CommandShown, KeyOutsideShown, KeyEditingShown
       DEF Next
  <2> QED
    BY <1>1, <2>1 DEF ShownInvariant
<1>3. CASE UNCHANGED vars
  <2>1. Later'
    BY <1>3 DEF vars, ShownInvariant, Later, Readied, Measured, LineShown, PromptShown,
                Coming, Editing, Agreed, Stored
  <2> QED
    BY <1>1, <2>1 DEF ShownInvariant
<1> QED
  BY <1>2, <1>3

\* While a line is edited it stands around the cursor and, as long as redraws began at its
\* end, behind its prompt; between lines the pane is bare from the cursor on.
THEOREM ShownInvariantHolds == Spec => []ShownInvariant
<1> QED
  BY ShownInitially, ShownKept, PTL DEF Spec

\* The place where the line should begin, and what is seen at a place.
LEMMA StartFacts ==
  ASSUME screen \in ScreenType, InPane(screen), keyboard.cursor \in Nat
  PROVE  /\ Start = Place(screen) - keyboard.cursor
         /\ \A place \in Places : Glyph(place) = View(screen)[place]
<1>1. Start = RowStart(screen.y) + screen.x - PaneLeft - keyboard.cursor
  BY Zenon DEF Start, RowStart
<1>2. RowStart(screen.y) \in Nat
  <2>1. screen.y \in PaneTop..(PaneBottom + 1)
    BY ScreenFacts DEF InPane, Rows
  <2> QED
    BY <2>1, RowFacts
<1>3. screen.x \in Nat /\ PaneLeft \in Nat
  BY ScreenParts, ScreenFacts
<1>4. Start = Place(screen) - keyboard.cursor
  BY <1>1, <1>2, <1>3 DEF Place
<1>5. \A place \in Places : Glyph(place) = View(screen)[place]
  BY DEF Glyph, View, Cell
<1> QED
  BY <1>4, <1>5

\* Places counted from the line's end.
LEMMA EndPlaces ==
  ASSUME NEW p \in Nat, NEW len \in Nat, NEW cursor \in 0..len, NEW n \in Nat,
         p + (len - cursor) \in Places, n <= p + (len - cursor), NEW index \in 1..n
  PROVE  /\ (p + (len - cursor)) - n + index - 1 = (p - cursor) + (len - n) + index - 1
         /\ (p + (len - cursor)) - n + index - 1 \in Places
BY RoomFacts

\* The cursor stands in the line shown where it stands in the line edited, whatever was
\* moved, recalled, scrolled or left on the screen.
THEOREM LineAlwaysShown == Spec => []LineIsShown
<1>1. ShownInvariant => LineIsShown
  <2> SUFFICES ASSUME ShownInvariant, Editing, NEW index \in 1..Len(keyboard.line)
               PROVE  /\ Start + index - 1 \in Places
                      /\ Glyph(Start + index - 1) = keyboard.line[index]
    BY DEF LineIsShown
  <2> DEFINE len == Len(keyboard.line)
             p == Place(screen)
             end == p + (len - keyboard.cursor)
  <2>1. len \in Nat /\ keyboard.cursor \in 0..len
    BY LineFacts DEF ShownInvariant, DisplayInvariant
  <2>2. /\ screen \in ScreenType /\ InPane(screen) /\ end \in Places /\ len <= end
        /\ \A j \in 1..len : View(screen)[end - len + j - 1] = keyboard.line[j]
    BY DEF ShownInvariant, Later, LineShown, Shown, Spells
  <2>3. p \in Nat
    BY <2>2, PlaceType, RoomFacts
  <2>4. Start = p - keyboard.cursor /\ \A place \in Places : Glyph(place) = View(screen)[place]
    BY <2>1, <2>2, StartFacts
  <2>5. index \in 1..len
    OBVIOUS
  <2> HIDE DEF p, len
  <2>6. /\ end - len + index - 1 = (p - keyboard.cursor) + (len - len) + index - 1
        /\ end - len + index - 1 \in Places
    BY <2>1, <2>2, <2>3, <2>5, EndPlaces
  <2>7. end - len + index - 1 = Start + index - 1 /\ Start + index - 1 \in Places
    <3>1. Start \in Int /\ len - len = 0 /\ index \in Int
      BY <2>1, <2>3, <2>4, <2>5
    <3>2. Start + (len - len) + index - 1 = Start + index - 1
      BY <3>1
    <3> QED
      BY <2>4, <2>6, <3>2
  <2>8. View(screen)[Start + index - 1] = keyboard.line[index]
    BY <2>2, <2>5, <2>7
  <2> QED
    BY <2>4, <2>7, <2>8
<1> QED
  BY <1>1, ShownInvariantHolds, PTL

\* The line stands behind its prompt, and nothing behind the line, for as long as
\* each redraw_line found the end of the line it had drawn.
THEOREM PromptAlwaysShown == Spec => []PromptIsShown
<1>1. ShownInvariant => PromptIsShown
  <2> SUFFICES ASSUME ShownInvariant, Editing, ~skewed
               PROVE  /\ {Start - 1, Start - 2} \subseteq Places
                      /\ Glyph(Start - 2) = Mark /\ Glyph(Start - 1) = Blank
                      /\ \A place \in Places : place >= Start + Len(keyboard.line)
                                                 => Glyph(place) = Blank
    BY DEF PromptIsShown
  <2> DEFINE len == Len(keyboard.line)
             p == Place(screen)
             end == p + (len - keyboard.cursor)
             f == Prompted(keyboard.line)
  <2>1. len \in Nat /\ keyboard.cursor \in 0..len
    BY LineFacts DEF ShownInvariant, DisplayInvariant
  <2>2. Prompting(keyboard, screen)
    BY DEF ShownInvariant, Later, PromptShown
  <2>3. /\ screen \in ScreenType /\ InPane(screen) /\ end \in Places /\ len + 2 <= end
        /\ \A j \in 1..(len + 2) : View(screen)[end - (len + 2) + j - 1] = f[j]
        /\ \A place \in Places : place >= end => View(screen)[place] = Blank
    BY <2>2 DEF Prompting, Shown, Spells, Bare
  <2>4. f[1] = Mark /\ f[2] = Blank
    BY <2>1 DEF Prompted
  <2>5. p \in Nat
    BY <2>3, PlaceType, RoomFacts
  <2>6. Start = p - keyboard.cursor /\ \A place \in Places : Glyph(place) = View(screen)[place]
    BY <2>1, <2>3, StartFacts
  <2> HIDE DEF p, f, len
  <2>7. 1 \in 1..(len + 2) /\ 2 \in 1..(len + 2) /\ Start + len = end /\ Start \in Int
    BY <2>1, <2>5, <2>6
  <2>8. /\ end - (len + 2) + 1 - 1 = Start - 2 /\ end - (len + 2) + 2 - 1 = Start - 1
        /\ Start - 1 \in Places /\ Start - 2 \in Places
    <3>1. end - (len + 2) + 1 - 1 = Start - 2 /\ end - (len + 2) + 2 - 1 = Start - 1
      BY <2>1, <2>5, <2>6
    <3>2. /\ end - (len + 2) + 1 - 1 \in Places /\ end - (len + 2) + 2 - 1 \in Places
      <4>1. len + 2 \in Nat
        BY <2>1
      <4> DEFINE n == len + 2
      <4>2. n \in Nat /\ n <= end /\ 1 \in 1..n /\ 2 \in 1..n
        BY <2>3, <2>7, <4>1
      <4> HIDE DEF n
      <4>3. end - n + 1 - 1 \in Places /\ end - n + 2 - 1 \in Places
        BY <2>1, <2>3, <2>5, <4>2, EndPlaces
      <4> QED
        BY <4>3 DEF n
    <3> QED
      BY <3>1, <3>2
  <2>9. View(screen)[Start - 2] = Mark /\ View(screen)[Start - 1] = Blank
    BY <2>3, <2>4, <2>7, <2>8
  <2>10. \A place \in Places : place >= Start + len => View(screen)[place] = Blank
    BY <2>3, <2>7
  <2> QED
    BY <2>6, <2>8, <2>9, <2>10 DEF len
<1> QED
  BY <1>1, ShownInvariantHolds, PTL
====
