------------------------------- MODULE Prompt -------------------------------
(***************************************************************************)
(* The prompt of the shell (kernel_main of src/kernel/main.c, lines 389 to *)
(* 399) against the interrupts that feed it: the keyboard handler edits    *)
(* and ends the line (Keyboard.tla), and the timer wakes the processor.    *)
(* What a command does between Take and Return is TruthShell.tla; here it  *)
(* only uses the line buffer, by the pointers it holds into it.            *)
(*                                                                         *)
(* The machine has one processor: a handler runs to its end, between two   *)
(* steps of the main thread, when interrupts are enabled.                  *)
(***************************************************************************)
EXTENDS Keyboard

VARIABLES
  keyboard,
  pc,            \* the next step of the main thread
  interrupts,    \* the interrupt flag
  taken,         \* ghost: the line the command running was started with
  entered        \* ghost: the newest lines ended with Enter, as many as history keeps

vars == <<keyboard, pc, interrupts, taken, entered>>

TypeOK ==
  /\ keyboard \in KeyboardType /\ keyboard.cursor <= Len(keyboard.line)
  /\ keyboard.recall <= keyboard.count
  /\ pc \in {"boot", "begin", "empty", "reopen", "forget", "enable", "test", "sleep",
             "take", "run"}
  /\ interrupts \in BOOLEAN
  /\ taken \in TypedLines

\* init_idt has enabled interrupts; the rest of the boot follows.
Init ==
  /\ keyboard = ZeroKeyboard
  /\ pc = "boot" /\ interrupts = TRUE
  /\ taken = << >> /\ entered = << >>

(***************************************************************************)
(* The main thread.                                                        *)
(***************************************************************************)
Goes(from, to) == pc = from /\ pc' = to

BootEnds ==
  /\ Goes("boot", "begin")
  /\ UNCHANGED <<keyboard, interrupts, taken, entered>>

\* Seeded fault: the line is begun with interrupts enabled.
FlagAtBegin == TRUE

Flag == FALSE

Cli ==
  /\ Goes("begin", "empty")
  /\ interrupts' = Flag
  /\ UNCHANGED <<keyboard, taken, entered>>

\* keyboard_begin_line, one store after another.
EmptyLine ==
  /\ Goes("empty", "reopen")
  /\ keyboard' = [keyboard EXCEPT !.line = << >>, !.cursor = 0]
  /\ UNCHANGED <<interrupts, taken, entered>>

Reopen ==
  /\ Goes("reopen", "forget")
  /\ keyboard' = [keyboard EXCEPT !.ready = FALSE]
  /\ UNCHANGED <<interrupts, taken, entered>>

ForgetRecall ==
  /\ Goes("forget", "enable")
  /\ keyboard' = [keyboard EXCEPT !.recall = 0]
  /\ UNCHANGED <<interrupts, taken, entered>>

Sti ==
  /\ Goes("enable", "test")
  /\ interrupts' = TRUE
  /\ UNCHANGED <<keyboard, taken, entered>>

\* The test of command_ready and the hlt are two instructions.
Test ==
  /\ pc = "test"
  /\ pc' = IF keyboard.ready THEN "take" ELSE "sleep"
  /\ UNCHANGED <<keyboard, interrupts, taken, entered>>

\* split_command cuts the line at its first blank, in place; buffer_idx and the
\* words stay.
Take ==
  /\ Goes("take", "run")
  /\ taken' = keyboard.line
  /\ UNCHANGED <<keyboard, interrupts, entered>>

Return ==
  /\ Goes("run", "begin")
  /\ UNCHANGED <<keyboard, interrupts, taken, entered>>

Main == \/ BootEnds \/ Cli \/ EmptyLine \/ Reopen \/ ForgetRecall \/ Sti \/ Test
        \/ Take \/ Return

(***************************************************************************)
(* The interrupts.  Each ends a hlt.                                       *)
(***************************************************************************)
\* Seeded fault: an interrupt does not end a hlt.
WokenNever == pc

Woken == IF pc = "sleep" THEN "test" ELSE pc

\* timer_handler; system_ticks is left out.
Timer ==
  /\ interrupts
  /\ pc' = Woken
  /\ UNCHANGED <<keyboard, interrupts, taken, entered>>

Newest(lines) == IF Len(lines) > HistoryCap THEN Tail(lines) ELSE lines

Key ==
  /\ interrupts
  /\ \E code \in Scancodes :
       LET line == keyboard.line
           ends == /\ code = "enter" /\ ~keyboard.extended /\ ~keyboard.ready
                   /\ line # << >>
       IN  /\ keyboard' = Handle(keyboard, code)
           /\ entered' = IF ends THEN Newest(Append(entered, line)) ELSE entered
  /\ pc' = Woken
  /\ UNCHANGED <<interrupts, taken>>

Next == Main \/ Timer \/ Key

\* The main thread runs unless it halts; the timer, programmed by init_idt, fires
\* for ever.  Nobody is obliged to type.
Spec == Init /\ [][Next]_vars /\ WF_vars(Main) /\ WF_vars(Timer)

(***************************************************************************)
(* Properties.                                                             *)
(***************************************************************************)
\* The line a command was started with stays under its pointers until it returns,
\* whatever is typed meanwhile (main.c:399-549, keyboard.c:211).
LineIsStable == pc = "run" => keyboard.line = taken

\* Interrupts are enabled on a line that is empty, not ready, and out of history:
\* nothing typed before the prompt is shown is taken for an answer to it
\* (main.c:390-393, keyboard.c:183-190).
PromptBeginsEmpty ==
  pc = "enable" => keyboard.line = << >> /\ ~keyboard.ready /\ keyboard.recall = 0

\* While the history is browsed the line is the entry browsed, unedited
\* (keyboard.c:122-172).
BrowsingShowsHistory ==
  interrupts /\ ~keyboard.ready /\ keyboard.recall # 0 =>
    keyboard.line = Recalled(keyboard)

\* The entries of the history, oldest first.
HistoryLines(k) == [index \in 1..k.count |-> k.history[HistorySlot(k, index)]]

\* The ring of the history holds the newest lines entered, in order
\* (keyboard.c:77-79, 110-120).
HistoryIsRecent == entered = HistoryLines(keyboard)

\* Every key and every prompt is a step of the line editor of LineEditor.tla: the
\* three stores that begin a line are one step to who types, the draft survives any
\* browsing, and only a line that is not ended is edited (keyboard.c:110-190, 211).
Beginning == pc \in {"reopen", "forget"}
Place == IF Beginning \/ keyboard.ready THEN 0 ELSE keyboard.recall

Editor == INSTANCE LineEditor WITH
  MaxLength <- LineCap - 1,
  MaxLines <- HistoryCap,
  line <- keyboard.line,
  cursor <- keyboard.cursor,
  ended <- keyboard.ready /\ pc # "reopen",
  lines <- HistoryLines(keyboard),
  place <- Place,
  draft <- IF Place = 0 THEN << >> ELSE keyboard.saved

ImplementsEditor == Editor!Spec

\* A line ended at the prompt is run, also when Enter came between the test of
\* command_ready and the hlt (main.c:395-397).
EnteredLineRuns == keyboard.ready /\ pc \in {"test", "sleep"} ~> pc = "run"
=============================================================================
