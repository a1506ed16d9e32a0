------------------------------ MODULE Keyboard ------------------------------
(***************************************************************************)
(* The keyboard handler and its line editor, src/kernel/keyboard.c: the    *)
(* handler turns one scancode into a change of the line being edited, and  *)
(* Enter marks the line ready for the shell.  A keyboard is a record of    *)
(* the file's variables; what is drawn on the screen (rendered_length and  *)
(* the calls of vga.c) is left out.                                        *)
(***************************************************************************)
EXTENDS Naturals, Sequences, SequencesExt

CONSTANTS
  LineCap,       \* LINE_CAPACITY, 128 in the kernel: the line and its final zero
  HistoryCap,    \* HISTORY_CAPACITY, 8 in the kernel
  Letters,       \* the keys that spell a character, and the character each spells
  Shifted(_)     \* shifted_key

ASSUME KeyboardAssumption == LineCap \in Nat \ {0} /\ HistoryCap \in Nat \ {0}

\* Enter and Backspace are no letters.
ASSUME LetterAssumption == Letters \cap {"enter", "backspace"} = {}

Characters == Letters \cup {Shifted(letter) : letter \in Letters}
TypedLines == UNION {[1..length -> Characters] : length \in 0..(LineCap - 1)}

\* The scancodes told apart; "release" is any key going up but for a shift.
Moves == {"left", "right", "home", "end", "up", "down", "delete"}
Scancodes == {"extend", "shift", "unshift", "release", "enter", "backspace"}
             \cup Moves \cup Letters

KeyboardType ==
  [line : TypedLines,                              \* kbd_buffer up to buffer_idx
   cursor : 0..(LineCap - 1), ready : BOOLEAN,     \* edit_cursor, command_ready
   history : [0..(HistoryCap - 1) -> TypedLines],  \* command_history
   count : 0..HistoryCap, next : 0..(HistoryCap - 1),
   recall : 0..HistoryCap,                         \* history_cursor + 1
   saved : TypedLines, extended : BOOLEAN, shift : BOOLEAN]

ZeroKeyboard ==
  [line |-> << >>, cursor |-> 0, ready |-> FALSE,
   history |-> [slot \in 0..(HistoryCap - 1) |-> << >>], count |-> 0, next |-> 0,
   recall |-> 0, saved |-> << >>, extended |-> FALSE, shift |-> FALSE]

\* Seeded fault: the oldest entry is looked for one slot too far.
HistorySlotLate(k, index) == (k.next + HistoryCap - k.count + index) % HistoryCap

\* history_slot, for the entry index of 1..count, oldest first.
HistorySlot(k, index) == (k.next + HistoryCap - k.count + index - 1) % HistoryCap

Recalled(k) == k.history[HistorySlot(k, k.recall)]

\* replace_line leaves the cursor at the end.
Replace(k, line) == [k EXCEPT !.line = line, !.cursor = Len(line)]

\* remember_command
Remember(k) ==
  IF k.line = << >> THEN k
  ELSE [k EXCEPT !.history[k.next] = k.line,
                 !.next = (@ + 1) % HistoryCap,
                 !.count = IF @ < HistoryCap THEN @ + 1 ELSE @]

\* Seeded fault: every entry browsed is put aside in the place of the draft.
HistoryUpSaving(k) ==
  LET kept == [k EXCEPT !.saved = k.line]
      older == IF k.recall = 0 THEN [kept EXCEPT !.recall = k.count]
               ELSE IF k.recall > 1 THEN [kept EXCEPT !.recall = @ - 1] ELSE k
  IN  IF k.count = 0 THEN k ELSE Replace(older, Recalled(older))

\* history_up and history_down
HistoryUp(k) ==
  LET older == IF k.recall = 0 THEN [k EXCEPT !.saved = k.line, !.recall = k.count]
               ELSE IF k.recall > 1 THEN [k EXCEPT !.recall = @ - 1] ELSE k
  IN  IF k.count = 0 THEN k ELSE Replace(older, Recalled(older))

HistoryDown(k) ==
  LET newer == [k EXCEPT !.recall = @ + 1]
  IN  IF k.recall = 0 THEN k
      ELSE IF k.recall < k.count THEN Replace(newer, Recalled(newer))
      ELSE Replace([k EXCEPT !.recall = 0], k.saved)

\* Seeded fault: a full line takes one more character, over its final zero.
InsertOver(k, character) ==
  IF Len(k.line) >= LineCap THEN k
  ELSE [k EXCEPT !.line = InsertAt(@, k.cursor + 1, character),
                 !.cursor = @ + 1, !.recall = 0]

\* insert_character
Insert(k, character) ==
  IF Len(k.line) >= LineCap - 1 THEN k
  ELSE [k EXCEPT !.line = InsertAt(@, k.cursor + 1, character),
                 !.cursor = @ + 1, !.recall = 0]

\* Seeded fault: a deletion does not leave the history.
DeleteBrowsing(k) ==
  IF k.cursor >= Len(k.line) THEN k
  ELSE [k EXCEPT !.line = RemoveAt(@, k.cursor + 1)]

\* delete_character and backspace_character
Delete(k) ==
  IF k.cursor >= Len(k.line) THEN k
  ELSE [k EXCEPT !.line = RemoveAt(@, k.cursor + 1), !.recall = 0]

Backspace(k) == IF k.cursor = 0 THEN k ELSE Delete([k EXCEPT !.cursor = @ - 1])

Enter(k) ==
  [Remember([k EXCEPT !.cursor = Len(k.line)]) EXCEPT !.ready = TRUE]

\* A key pressed after the prefix 0xE0; an extended Enter or letter does nothing.
PressExtended(k, code) ==
  CASE code = "left"   -> [k EXCEPT !.cursor = IF @ > 0 THEN @ - 1 ELSE 0]
    [] code = "right"  -> [k EXCEPT !.cursor = IF @ < Len(k.line) THEN @ + 1 ELSE @]
    [] code = "home"   -> [k EXCEPT !.cursor = 0]
    [] code = "end"    -> [k EXCEPT !.cursor = Len(k.line)]
    [] code = "up"     -> HistoryUp(k)
    [] code = "down"   -> HistoryDown(k)
    [] code = "delete" -> Delete(k)
    [] OTHER -> k

\* A key pressed without it; the codes of the moves spell no character.
Press(k, code) ==
  CASE code = "enter"     -> Enter(k)
    [] code = "backspace" -> Backspace(k)
    [] code \in Letters   -> Insert(k, IF k.shift THEN Shifted(code) ELSE code)
    [] OTHER -> k

\* Seeded fault: keys edit the line while the shell is running it.
HandleAlways(k, code) ==
  [(IF k.extended THEN PressExtended(k, code) ELSE Press(k, code))
     EXCEPT !.extended = code = "extend"]

\* keyboard_handler: the prefix and the shifts only set their flags; while a line
\* is ready every other key is dropped.
Handle(k, code) ==
  IF code = "extend" THEN [k EXCEPT !.extended = TRUE]
  ELSE IF code \in {"shift", "unshift"} THEN [k EXCEPT !.shift = code = "shift"]
  ELSE IF code = "release" \/ k.ready THEN [k EXCEPT !.extended = FALSE]
  ELSE [(IF k.extended THEN PressExtended(k, code) ELSE Press(k, code))
          EXCEPT !.extended = FALSE]
=============================================================================
