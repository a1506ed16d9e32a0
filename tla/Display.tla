------------------------------ MODULE Display ------------------------------
(***************************************************************************)
(* What the user sees: the screen (Screen.tla) written by the main thread  *)
(* and by the keyboard handler (Keyboard.tla), which redraws the line it   *)
(* edits.  init_idt enables interrupts before the window is drawn          *)
(* (main.c:378-386), so that the two meet during the boot; later the       *)
(* handler draws only between the prompt and Enter, while the main thread  *)
(* halts.                                                                  *)
(*                                                                         *)
(* cursor_x, cursor_y and window_mode are not volatile: during the boot    *)
(* the main thread computes on its own copy of them, reg.  Each field it   *)
(* has assigned is stored at any time and in any order, one by one (Store, *)
(* with -O2 the wrap's cursor_y++ before its cursor_x = CONSOLE_LEFT); one *)
(* it has not assigned may be read again (Reload).  Before a cell is       *)
(* written, through a pointer to bytes that may point to the cursor, and   *)
(* before print_char's call of serial_write_char all is stored, and after  *)
(* it all is read again.  A key may come at every step, and the handler    *)
(* sees the screen as stored.  A loop over cells is one step, and so is a  *)
(* handler.                                                                *)
(***************************************************************************)
EXTENDS Keyboard, Screen

CONSTANTS
  Codes,         \* the scancodes pressed
  Banner,        \* what is printed when the window has been drawn
  Outputs,       \* what commands print
  BootKeys,      \* bound: scancodes received during the boot
  MaxKeys        \* bound: scancodes received

\* What a prompt begins with.
Mark == ">"

ASSUME DisplayAssumption ==
  /\ Codes \subseteq Scancodes
  /\ Characters \cup {Mark, "newline"} \subseteq Glyphs
  /\ "newline" \notin Characters
  /\ {Banner} \cup Outputs \subseteq Seq(Glyphs)

\* The banner, "GlassOS Shell v2.0 ..." (main.c:386), begins with a character.
ASSUME BannerAssumption == Banner # << >> /\ Head(Banner) # "newline"

PaneWidth == PaneRight - PaneLeft + 1

\* A prompt and a full line scroll by a row without leaving the pane: 129 characters
\* and 18 rows of 76 in the kernel.
ASSUME RoomAssumption == LineCap + 1 <= PaneWidth * (PaneBottom - PaneTop)

VARIABLES
  keyboard, screen,
  rendered,      \* rendered_length
  pc,            \* the next step of the main thread
  text,          \* what it still has to print
  reg,           \* its copy of cursor_x, cursor_y and window_mode during the boot
  dirty,         \* what it has assigned to the copy and not stored
  keys,
  skewed         \* ghost: since the pane was cleared, a redraw began off the old line's end

vars == <<keyboard, screen, rendered, pc, text, reg, dirty, keys, skewed>>

Booting == pc \notin {"prompt", "wait", "run", "halted"}

TypeOK ==
  /\ keyboard \in KeyboardType
  /\ screen \in ScreenType /\ (~screen.window => screen.y < Height)
  /\ rendered \in 0..(LineCap - 1)
  /\ pc \in {"clear", "border", "char", "column", "row", "write", "step", "wrap", "line",
             "margin", "bottom", "prompt", "wait", "run", "halted"}
  /\ reg \in [x : 0..(Width - 1), y : Nat, window : BOOLEAN]
  /\ dirty \subseteq {"x", "y", "window"}
  /\ screen.window /\ ~Booting =>
       screen.x \in PaneLeft..PaneRight /\ screen.y \in PaneTop..PaneBottom

Init ==
  /\ keyboard = ZeroKeyboard /\ screen = BlankScreen /\ rendered = 0
  /\ pc = "clear" /\ text = Banner /\ keys = 0 /\ skewed = FALSE
  /\ reg = [x |-> 0, y |-> 0, window |-> FALSE] /\ dirty = {}

(***************************************************************************)
(* The boot: vga_draw_window and the banner's print_char, step by step.    *)
(***************************************************************************)
Goes(from, to) == pc = from /\ pc' = to

\* The main thread draws cells, everything stored before.
Draws(from, to, cells) ==
  /\ Goes(from, to)
  /\ dirty = {}
  /\ screen' = [screen EXCEPT !.cells = cells]
  /\ UNCHANGED <<keyboard, rendered, keys, skewed>>

\* It assigns to its copy.
Assigns(from, to, new, fields) ==
  /\ Goes(from, to)
  /\ reg' = new /\ dirty' = dirty \cup fields
  /\ UNCHANGED <<keyboard, screen, rendered, text, keys, skewed>>

Moved(new) ==
  (IF new.x # reg.x THEN {"x"} ELSE {}) \cup (IF new.y # reg.y THEN {"y"} ELSE {})
Computes(from, to, new) == Assigns(from, to, new, Moved(new))

Store ==
  /\ \/ "x" \in dirty /\ screen' = [screen EXCEPT !.x = reg.x] /\ dirty' = dirty \ {"x"}
     \/ "y" \in dirty /\ screen' = [screen EXCEPT !.y = reg.y] /\ dirty' = dirty \ {"y"}
     \/ /\ "window" \in dirty /\ screen' = [screen EXCEPT !.window = reg.window]
        /\ dirty' = dirty \ {"window"}
  /\ UNCHANGED <<keyboard, rendered, pc, text, reg, keys, skewed>>

Reload ==
  /\ pc \in {"column", "row", "write", "step", "wrap", "line", "margin", "bottom"}
  /\ \/ "x" \notin dirty /\ reg' = [reg EXCEPT !.x = screen.x]
     \/ "y" \notin dirty /\ reg' = [reg EXCEPT !.y = screen.y]
  /\ UNCHANGED <<keyboard, screen, rendered, pc, text, dirty, keys, skewed>>

DrawFrame ==
  \/ /\ Draws("clear", "border", ClearScreen.cells)
     /\ reg' = [x |-> 0, y |-> 0, window |-> FALSE] /\ dirty' = {"x", "y"}
     /\ UNCHANGED text
  \/ /\ Draws("border", "char", DrawBorder(screen).cells)
     /\ reg' = [x |-> PaneLeft, y |-> PaneTop, window |-> TRUE]
     /\ dirty' = {"x", "y", "window"}
     /\ UNCHANGED text

\* keep_cursor_in_console on the copy, its two tests and the scrolling.
KeepsColumn(from, to) == Computes(from, to, KeepColumn(reg))
KeepsRow(from, to) ==
  \/ reg.y <= PaneBottom /\ Computes(from, to, KeepTop(reg))
  \/ /\ reg.y > PaneBottom
     /\ Draws(from, to, ScrollPane(screen).cells)
     /\ reg' = [reg EXCEPT !.x = PaneLeft, !.y = PaneBottom] /\ dirty' = {"x", "y"}
     /\ UNCHANGED text

Loads == reg' = [x |-> screen.x, y |-> screen.y, window |-> screen.window]

Begins(to) ==
  /\ Goes("char", to)
  /\ dirty = {}
  /\ Loads
  /\ UNCHANGED <<keyboard, screen, rendered, text, dirty, keys, skewed>>

PrintChar ==
  \/ text # << >> /\ Head(text) # "newline" /\ Begins("column")
  \/ KeepsColumn("column", "row")
  \/ KeepsRow("row", "write")
  \/ /\ Draws("write", "step", [screen.cells EXCEPT ![<<reg.x, reg.y>>] = Head(text)])
     /\ text' = Tail(text)
     /\ Loads
     /\ UNCHANGED dirty
  \/ Computes("step", "wrap", [reg EXCEPT !.x = @ + 1])
  \/ Computes("wrap", "margin", Wrap(reg))

PrintNewLine ==
  \/ text # << >> /\ Head(text) = "newline" /\ Begins("line")
  \/ /\ Goes("line", "margin")
     /\ reg' = [reg EXCEPT !.x = PaneLeft, !.y = @ + 1] /\ dirty' = {"x", "y"}
     /\ text' = Tail(text)
     /\ UNCHANGED <<keyboard, screen, rendered, keys, skewed>>

EndChar == KeepsColumn("margin", "bottom") \/ KeepsRow("bottom", "char")

EndBanner ==
  /\ Goes("char", "prompt")
  /\ text = << >> /\ dirty = {}
  /\ UNCHANGED <<keyboard, screen, rendered, text, reg, dirty, keys, skewed>>

(***************************************************************************)
(* The loop.                                                               *)
(***************************************************************************)
Put(s, glyph) == IF glyph = "newline" THEN NewLine(s) ELSE PrintGlyph(s, glyph)
PutAll(s, glyphs) ==
  LET after[i \in 0..Len(glyphs)] ==
        IF i = 0 THEN s ELSE Put(after[i - 1], glyphs[i])
  IN  after[Len(glyphs)]

\* Interrupts are masked: Prompt.tla has the stores of keyboard_begin_line one by one.
ShowPrompt ==
  /\ Goes("prompt", "wait")
  /\ keyboard' = [keyboard EXCEPT !.line = << >>, !.cursor = 0, !.ready = FALSE,
                                  !.recall = 0]
  /\ screen' = PutAll(screen, <<Mark, Blank>>)
  /\ rendered' = 0
  /\ UNCHANGED <<text, reg, dirty, keys, skewed>>

Run ==
  /\ Goes("wait", "run")
  /\ keyboard.ready
  /\ UNCHANGED <<keyboard, screen, rendered, text, reg, dirty, keys, skewed>>

Output ==
  /\ Goes("run", "prompt")
  /\ \E output \in Outputs : screen' = PutAll(screen, output)
  /\ UNCHANGED <<keyboard, rendered, text, reg, dirty, keys, skewed>>

\* The commands clear and window.
Redisplay ==
  /\ Goes("run", "prompt")
  /\ screen' \in {ClearPane(screen)} \cup {PutAll(DrawWindow, output) : output \in Outputs}
  /\ skewed' = FALSE
  /\ UNCHANGED <<keyboard, rendered, text, reg, dirty, keys>>

\* exception_handler prints on a cleared screen, outside the window, and halts with
\* interrupts disabled.
Except ==
  /\ Goes("run", "halted")
  /\ \E output \in Outputs : screen' = PutAll(ClearScreen, output)
  /\ UNCHANGED <<keyboard, rendered, text, reg, dirty, keys, skewed>>

(***************************************************************************)
(* The keyboard handler's drawing.                                         *)
(***************************************************************************)
Less(a, b) == IF a > b THEN a - b ELSE 0

\* How far redraw_line goes right before it erases; k is the line's new state.
Ahead(k, r) == Less(r, k.cursor)

\* Seeded fault: the cursor stays behind the line redrawn.
RedrawEnd(k, s, r) == PutAll(EraseBy(RightBy(s, Ahead(k, r)), r), k.line)

\* Seeded fault: what was drawn is erased from the cursor's place.
RedrawHere(k, s, r) ==
  LeftBy(PutAll(EraseBy(s, r), k.line), Len(k.line) - k.cursor)

\* redraw_line
Redraw(k, s, r) ==
  LeftBy(PutAll(EraseBy(RightBy(s, Ahead(k, r)), r), k.line), Len(k.line) - k.cursor)

\* The keys that end in redraw_line, and Enter.
Redraws(k, code) ==
  /\ ~k.ready
  /\ \/ k.extended /\ code = "up" /\ k.count # 0
     \/ k.extended /\ code = "down" /\ k.recall # 0
     \/ k.extended /\ code = "delete" /\ k.cursor < Len(k.line)
     \/ ~k.extended /\ code = "backspace" /\ k.cursor # 0
     \/ ~k.extended /\ code \in Letters /\ Len(k.line) < LineCap - 1

Ends(k, code) == ~k.ready /\ ~k.extended /\ code = "enter"

\* The other keys move the cursor on the screen as they move it in the line.
Follow(s, from, to) == RightBy(LeftBy(s, Less(from, to)), Less(to, from))

Key ==
  /\ pc \notin {"prompt", "halted"}
  /\ keys < IF Booting THEN BootKeys ELSE MaxKeys
  /\ keys' = keys + 1
  /\ \E code \in Codes :
       LET new == Handle(keyboard, code)
           begun == IF code = "backspace" THEN MoveLeft(screen) ELSE screen
           at == IF code = "backspace" THEN new.cursor ELSE keyboard.cursor
           followed == Follow(screen, keyboard.cursor, new.cursor)
           redraws == Redraws(keyboard, code)
           ends == Ends(keyboard, code)
       IN  /\ keyboard' = new
           /\ screen' = IF redraws THEN Redraw(new, begun, rendered)
                        ELSE IF ends THEN NewLine(followed) ELSE followed
           /\ rendered' = IF redraws THEN Len(new.line) ELSE IF ends THEN 0 ELSE rendered
           /\ skewed' = \/ skewed
                        \/ redraws /\ at + Ahead(new, rendered) # rendered
                        \/ Booting /\ screen' # screen
  /\ UNCHANGED <<pc, text, reg, dirty>>

Next == \/ DrawFrame \/ PrintChar \/ PrintNewLine \/ EndChar \/ EndBanner \/ Store \/ Reload
        \/ ShowPrompt \/ Run \/ Output \/ Redisplay \/ Except \/ Key

Spec == Init /\ [][Next]_vars

(***************************************************************************)
(* Properties.                                                             *)
(***************************************************************************)
Editing == pc = "wait" /\ ~keyboard.ready

\* Places of the pane in reading order, and the cell at a place.
Places == 0..(PaneWidth * (PaneBottom - PaneTop + 1) - 1)
Glyph(place) ==
  screen.cells[<<PaneLeft + (place % PaneWidth), PaneTop + (place \div PaneWidth)>>]

\* Where the line should begin, and how far it is drawn.
Start == (screen.y - PaneTop) * PaneWidth + screen.x - PaneLeft - keyboard.cursor

\* The cursor stands in the line shown where it stands in the line edited, whatever
\* was moved, recalled, scrolled or left on the screen: the key that "removes the
\* character immediately left of the cursor" removes the one seen there
\* (keyboard.c:81-97, 240).
LineIsShown ==
  Editing => \A index \in 1..Len(keyboard.line) :
               /\ Start + index - 1 \in Places
               /\ Glyph(Start + index - 1) = keyboard.line[index]

\* The line stands behind its prompt, and nothing behind the line, for as long as
\* each redraw_line found the end of the line it had drawn (keyboard.c:82-87).
PromptIsShown ==
  Editing /\ ~skewed =>
    /\ {Start - 1, Start - 2} \subseteq Places
    /\ Glyph(Start - 2) = Mark /\ Glyph(Start - 1) = Blank
    /\ \A place \in Places : place >= Start + Len(keyboard.line) => Glyph(place) = Blank

\* The cursor is at most a step past the pane's edge.
AtPane ==
  \/ /\ screen.x \in PaneLeft..(PaneRight + 1)
     /\ screen.y \in PaneTop..PaneBottom
  \/ screen.x = PaneLeft /\ screen.y = PaneBottom + 1

\* Nothing printed or scrolled in the window writes on its frame, whatever the handler
\* did to the cursor meanwhile, and nothing typed, except a key of the boot that finds
\* the cursor off the pane: before the first character has been printed, or between the
\* two stores of a wrap or newline on the pane's last row, or after them when a key was
\* drawn between (vga.c:85-106, 124-143, 178-195).
FrameStays ==
  [][ screen.window /\ screen'.window /\ (Booting /\ keys' # keys => AtPane) =>
        \A cell \in Border : screen'.cells[cell] \in {screen.cells[cell], "frame"} ]_vars
=============================================================================
