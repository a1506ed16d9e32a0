----------------------------- MODULE LineEditor -----------------------------
(***************************************************************************)
(* What the keyboard promises who sits before it: a line editor.  A line   *)
(* is edited at its cursor; the newest lines ended can be recalled in its  *)
(* place, from the newest to the oldest and back to the draft that was put *)
(* aside for them; a line that is ended is not edited until the next one   *)
(* is begun, and beginning a line is one step.                             *)
(*                                                                         *)
(* Prompt.tla is shown to implement this specification.                    *)
(***************************************************************************)
EXTENDS Naturals, Sequences, SequencesExt

CONSTANTS
  Characters,
  MaxLength,      \* how many characters a line has at most
  MaxLines        \* how many lines are kept

VARIABLES
  line, cursor,
  ended,          \* the line is the shell's
  lines,          \* the newest lines ended, oldest first
  place,          \* the line recalled, or 0 when the draft is edited
  draft           \* the line put aside while another is recalled

vars == <<line, cursor, ended, lines, place, draft>>

Init ==
  /\ line = << >> /\ cursor = 0 /\ ended = FALSE
  /\ lines = << >> /\ place = 0 /\ draft = << >>

\* An edited line is a draft, recalled or not.
Edit(text, at) ==
  /\ ~ended
  /\ line' = text /\ cursor' = at
  /\ place' = 0 /\ draft' = << >>
  /\ UNCHANGED <<ended, lines>>

Type ==
  /\ Len(line) < MaxLength
  /\ \E character \in Characters :
       Edit(InsertAt(line, cursor + 1, character), cursor + 1)

\* The character under the cursor, or the one before it.
Erase ==
  \E at \in 0..(Len(line) - 1) :
    /\ at = cursor \/ at + 1 = cursor
    /\ Edit(RemoveAt(line, at + 1), at)

Move ==
  /\ ~ended
  /\ cursor' \in 0..Len(line)
  /\ UNCHANGED <<line, ended, lines, place, draft>>

Show(text) == line' = text /\ cursor' = Len(text)

Recall(index) ==
  /\ ~ended
  /\ Show(lines[index])
  /\ place' = index
  /\ draft' = IF place = 0 THEN line ELSE draft
  /\ UNCHANGED <<ended, lines>>

Older ==
  /\ lines # << >>
  /\ Recall(IF place = 0 THEN Len(lines) ELSE IF place = 1 THEN 1 ELSE place - 1)

Newer == place \in 1..(Len(lines) - 1) /\ Recall(place + 1)

BackToDraft ==
  /\ ~ended
  /\ place # 0 /\ place = Len(lines)
  /\ Show(draft)
  /\ place' = 0 /\ draft' = << >>
  /\ UNCHANGED <<ended, lines>>

Newest(list) == IF Len(list) > MaxLines THEN Tail(list) ELSE list

End ==
  /\ ~ended
  /\ ended' = TRUE
  /\ cursor' = Len(line)
  /\ lines' = IF line = << >> THEN lines ELSE Newest(Append(lines, line))
  /\ place' = 0 /\ draft' = << >>
  /\ UNCHANGED line

Begin ==
  /\ Show(<< >>)
  /\ ended' = FALSE /\ place' = 0 /\ draft' = << >>
  /\ UNCHANGED lines

Next == Type \/ Erase \/ Move \/ Older \/ Newer \/ BackToDraft \/ End \/ Begin

Spec == Init /\ [][Next]_vars
=============================================================================
