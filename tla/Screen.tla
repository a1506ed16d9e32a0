------------------------------- MODULE Screen -------------------------------
(***************************************************************************)
(* The text screen, src/kernel/vga.c.  A screen is a record of the file's  *)
(* variables and of the characters in video memory; colours, the hardware  *)
(* cursor and the mirrors of print_char (debug port, serial line) are left *)
(* out.  In window mode text goes to a pane inside a frame.                *)
(***************************************************************************)
EXTENDS Naturals, Sequences

CONSTANTS
  Width, Height,                   \* VGA_WIDTH and VGA_HEIGHT: 80 and 25
  PaneLeft, PaneRight,             \* CONSOLE_LEFT and CONSOLE_RIGHT: 2 and 77
  PaneTop, PaneBottom,             \* CONSOLE_TOP and CONSOLE_BOTTOM: 3 and 21
  Glyphs                           \* the characters shown

Blank == " "

ASSUME ScreenAssumption ==
  /\ {Width, Height, PaneLeft, PaneRight, PaneTop, PaneBottom} \subseteq Nat
  /\ 0 < PaneLeft /\ PaneLeft <= PaneRight /\ PaneRight < Width - 1
  /\ 0 < PaneTop /\ PaneTop <= PaneBottom /\ PaneBottom < Height - 1
  /\ {Blank, "frame"} \subseteq Glyphs

Cells == (0..(Width - 1)) \X (0..(Height - 1))

\* What scrolls in window mode, and the rest, which vga_draw_window draws.
Pane == (1..(Width - 2)) \X (PaneTop..PaneBottom)
Border == Cells \ Pane

\* A row below the screen, where a cursor can stand before it is taken back, has no
\* cells: what is written there is not seen.
ScreenType == [x : 0..(Width - 1), y : Nat,    \* cursor_x, cursor_y
               window : BOOLEAN,               \* window_mode
               cells : [Cells -> Glyphs]]      \* video_memory

BlankScreen == [x |-> 0, y |-> 0, window |-> FALSE, cells |-> [cell \in Cells |-> Blank]]

Write(s, glyph) == [s EXCEPT !.cells[<<s.x, s.y>>] = glyph]

\* scroll_screen and scroll_window_content.
ScrollScreen(s) ==
  [s EXCEPT !.y = Height - 1,
            !.cells = [cell \in Cells |->
                         IF cell[2] = Height - 1 THEN Blank ELSE @[<<cell[1], cell[2] + 1>>]]]
ScrollPane(s) ==
  [s EXCEPT !.x = PaneLeft, !.y = PaneBottom,
            !.cells = [cell \in Cells |->
                         IF cell \in Border THEN @[cell]
                         ELSE IF cell[2] = PaneBottom THEN Blank
                         ELSE @[<<cell[1], cell[2] + 1>>]]]

\* keep_cursor_in_console in window mode: its tests of the column, then of the row.
KeepColumn(s) ==
  IF s.x < PaneLeft THEN [s EXCEPT !.x = PaneLeft]
  ELSE IF s.x > PaneRight THEN [s EXCEPT !.x = PaneLeft, !.y = @ + 1] ELSE s
KeepTop(s) == IF s.y < PaneTop THEN [s EXCEPT !.y = PaneTop] ELSE s

\* Seeded fault: the row below the pane counts as the pane's.
KeepInConsoleLate(s) ==
  LET moved == KeepTop(KeepColumn(s))
  IN  IF ~s.window THEN (IF s.y >= Height THEN ScrollScreen(s) ELSE s)
      ELSE IF moved.y > PaneBottom + 1 THEN ScrollPane(moved) ELSE moved

\* keep_cursor_in_console.
KeepInConsole(s) ==
  LET moved == KeepTop(KeepColumn(s))
  IN  IF ~s.window THEN (IF s.y >= Height THEN ScrollScreen(s) ELSE s)
      ELSE IF moved.y > PaneBottom THEN ScrollPane(moved) ELSE moved

\* Seeded fault: the cursor moves left out of the pane's first row.
MoveLeftOut(s) ==
  IF s.window /\ s.x = PaneLeft /\ s.y > 0 THEN [s EXCEPT !.x = PaneRight, !.y = @ - 1]
  ELSE IF s.x > 0 THEN [s EXCEPT !.x = @ - 1] ELSE s

\* vga_move_cursor_left; it stops at the first cell.
MoveLeft(s) ==
  LET left == IF s.window THEN PaneLeft ELSE 0
      top == IF s.window THEN PaneTop ELSE 0
  IN  IF s.x > left THEN [s EXCEPT !.x = @ - 1]
      ELSE IF s.y > top
      THEN [s EXCEPT !.x = IF s.window THEN PaneRight ELSE Width - 1, !.y = @ - 1]
      ELSE s

\* The end of a line of the screen, in either mode.
Wrap(s) ==
  IF s.window /\ s.x > PaneRight THEN [s EXCEPT !.x = PaneLeft, !.y = @ + 1]
  ELSE IF s.x >= Width THEN [s EXCEPT !.x = 0, !.y = @ + 1] ELSE s

\* vga_move_cursor_right.
MoveRight(s) == KeepInConsole(Wrap([s EXCEPT !.x = @ + 1]))

\* vga_backspace.
Erase(s) == IF s.x = 0 /\ s.y = 0 THEN s ELSE Write(MoveLeft(s), Blank)

\* print_char for a character and for the end of a line.
PrintGlyph(s, glyph) ==
  LET kept == KeepInConsole(s)
  IN  KeepInConsole(Wrap([Write(kept, glyph) EXCEPT !.x = @ + 1]))

NewLine(s) ==
  KeepInConsole([s EXCEPT !.x = IF s.window THEN PaneLeft ELSE 0, !.y = @ + 1])

\* Several of these in a row.
LeftBy(s, n) ==
  LET after[i \in 0..n] == IF i = 0 THEN s ELSE MoveLeft(after[i - 1])
  IN  after[n]
RightBy(s, n) ==
  LET after[i \in 0..n] == IF i = 0 THEN s ELSE MoveRight(after[i - 1])
  IN  after[n]
EraseBy(s, n) ==
  LET after[i \in 0..n] == IF i = 0 THEN s ELSE Erase(after[i - 1])
  IN  after[n]

\* clear_screen and vga_clear_window_content.
ClearScreen == BlankScreen
ClearPane(s) ==
  IF ~s.window THEN ClearScreen
  ELSE [s EXCEPT !.x = PaneLeft, !.y = PaneTop,
                 !.cells = [cell \in Cells |-> IF cell \in Pane THEN Blank ELSE @[cell]]]

\* vga_draw_window: the frame is drawn in screen mode, then the mode changes.  The
\* blanks beside the titles count as drawn.
DrawBorder(s) ==
  [s EXCEPT !.cells = [cell \in Cells |-> IF cell \in Border THEN "frame" ELSE @[cell]]]
EnterPane(s) == [s EXCEPT !.x = PaneLeft, !.y = PaneTop, !.window = TRUE]
DrawWindow == EnterPane(DrawBorder(ClearScreen))
=============================================================================
