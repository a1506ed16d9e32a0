---------------------------- MODULE PromptProofs ----------------------------
(***************************************************************************)
(* Proofs about Prompt.tla, for every capacity of the line and of the      *)
(* history and every set of letters.                                       *)
(*                                                                         *)
(* The inductive invariant is PromptInvariant: the types, which say that   *)
(* neither the line nor a slot leaves its array, and Control, which says   *)
(* what each step of the main thread has made of the line so far.  What a  *)
(* key does to a keyboard is shown in KeyboardProofs.                      *)
(*                                                                         *)
(* The refinement of LineEditor.tla needs EditorInvariant, which adds that *)
(* the ring of the history, read from its newest slot backwards, is the    *)
(* newest of the lines entered.                                            *)
(***************************************************************************)
EXTENDS Prompt, KeyboardProofs

\* What the steps from cli to sti have stored, and what the test has found.
Control ==
  /\ interrupts = (pc \notin {"empty", "reopen", "forget", "enable"})
  /\ pc \in {"reopen", "forget", "enable"} => keyboard.line = << >>
  /\ pc \in {"forget", "enable"} => ~keyboard.ready
  /\ pc = "enable" => keyboard.recall = 0
  /\ pc \in {"take", "run"} => keyboard.ready
  /\ pc = "run" => keyboard.line = taken

PromptInvariant == TypeOK /\ Control

(***************************************************************************)
(* The prompt.                                                             *)
(***************************************************************************)
\* The keyboard part of the type.
LEMMA TypeHasFormed == TypeOK => Formed(keyboard)
BY DEF TypeOK, Formed

LEMMA InvariantInitially == Init => PromptInvariant
<1> SUFFICES ASSUME Init PROVE PromptInvariant
  OBVIOUS
<1>1. TypeOK
  BY ZeroFormed, EmptyLineTyped DEF Init, TypeOK, Formed
<1>2. Control
  BY DEF Init, Control
<1> QED
  BY <1>1, <1>2 DEF PromptInvariant

LEMMA InvariantKept == PromptInvariant /\ [Next]_vars => PromptInvariant'
<1> SUFFICES ASSUME PromptInvariant, [Next]_vars
             PROVE  PromptInvariant'
  OBVIOUS
<1> USE DEF PromptInvariant
<1>1. TypeOK /\ Control /\ Formed(keyboard)
  BY TypeHasFormed
<1>2. << >> \in TypedLines /\ 0 \in 0..Len(<< >>) /\ 0 \in 0..keyboard.count
  BY <1>1, EmptyLineTyped, FormedParts
<1>3. CASE BootEnds \/ Test \/ Return
  BY <1>1, <1>3 DEF BootEnds, Test, Return, Goes, TypeOK, Control
<1>4. CASE Cli
  BY <1>1, <1>4 DEF Cli, Goes, Flag, TypeOK, Control
<1>5. CASE Sti
  BY <1>1, <1>5 DEF Sti, Goes, TypeOK, Control
<1>6. CASE EmptyLine
  <2>1. Formed([keyboard EXCEPT !.line = << >>, !.cursor = 0, !.recall = keyboard.recall])
    BY <1>1, <1>2, LineChanged, FormedParts, Zenon
  <2>2. /\ Formed(keyboard') /\ keyboard'.line = << >>
    BY <1>1, <1>6, <2>1 DEF EmptyLine, Formed, KeyboardType
  <2> QED
    BY <1>1, <1>6, <2>2 DEF EmptyLine, Goes, TypeOK, Control, Formed
<1>7. CASE Reopen
  <2>1. /\ Formed(keyboard') /\ keyboard'.line = keyboard.line /\ ~keyboard'.ready
    BY <1>1, <1>7 DEF Reopen, Formed, KeyboardType
  <2> QED
    BY <1>1, <1>7, <2>1 DEF Reopen, Goes, TypeOK, Control, Formed
<1>8. CASE ForgetRecall
  <2>1. /\ Formed(keyboard') /\ keyboard'.line = keyboard.line
        /\ keyboard'.ready = keyboard.ready /\ keyboard'.recall = 0
    BY <1>1, <1>2, <1>8, FormedParts, KeyboardAssumption DEF ForgetRecall, Formed, KeyboardType
  <2> QED
    BY <1>1, <1>8, <2>1 DEF ForgetRecall, Goes, TypeOK, Control, Formed
<1>9. CASE Take
  <2>1. keyboard.line \in TypedLines
    BY <1>1, FormedParts
  <2> QED
    BY <1>1, <1>9, <2>1 DEF Take, Goes, TypeOK, Control
<1>10. CASE Timer
  BY <1>1, <1>10 DEF Timer, Woken, TypeOK, Control
<1>11. CASE Key
  <2>1. PICK code \in Scancodes : keyboard' = Handle(keyboard, code)
    BY <1>11 DEF Key
  <2>2. /\ Formed(keyboard')
        /\ keyboard.ready => keyboard'.line = keyboard.line /\ keyboard'.ready
    BY <1>1, <2>1, HandleFormed, Zenon
  <2>3. interrupts /\ interrupts' = interrupts /\ taken' = taken
    BY <1>11 DEF Key
  <2>4. pc' = IF pc = "sleep" THEN "test" ELSE pc
    BY <1>11 DEF Key, Woken
  <2> QED
    BY <1>1, <2>2, <2>3, <2>4 DEF TypeOK, Control, Formed
<1>12. CASE UNCHANGED vars
  BY <1>1, <1>12 DEF vars, TypeOK, Control
<1> QED
  BY <1>3, <1>4, <1>5, <1>6, <1>7, <1>8, <1>9, <1>10, <1>11, <1>12 DEF Next, Main

\* PromptInvariant holds for ever.
THEOREM PromptInvariantHolds == Spec => []PromptInvariant
BY InvariantInitially, InvariantKept, PTL DEF Spec

\* Neither the line, with its final zero, nor the cursor, nor a slot of the history
\* ever leaves its array, whatever the capacities (keyboard.c:77-79, 148-181).
THEOREM PromptTypeCorrect == Spec => []TypeOK
<1>1. PromptInvariant => TypeOK
  BY DEF PromptInvariant
<1> QED
  BY <1>1, PromptInvariantHolds, PTL

\* The line a command runs on stays what it was when it was taken, whatever is typed
\* (main.c:399-549, keyboard.c:211).
THEOREM LineIsAlwaysStable == Spec => []LineIsStable
<1>1. PromptInvariant => LineIsStable
  BY DEF PromptInvariant, Control, LineIsStable
<1> QED
  BY <1>1, PromptInvariantHolds, PTL

\* Every prompt begins with an empty line, out of history, that is not ready
\* (main.c:390-393, keyboard.c:183-190).
THEOREM PromptAlwaysBeginsEmpty == Spec => []PromptBeginsEmpty
<1>1. PromptInvariant => PromptBeginsEmpty
  BY DEF PromptInvariant, Control, PromptBeginsEmpty
<1> QED
  BY <1>1, PromptInvariantHolds, PTL

(***************************************************************************)
(* Prompt.tla implements LineEditor.tla, for every capacity and alphabet:  *)
(* the ring of the history is the list of the newest lines, and each key   *)
(* does to the line, the list and the draft what one step of the editor    *)
(* does (KeyEffect).                                                       *)
(***************************************************************************)

(***************************************************************************)
(* The ring of the history.                                                *)
(***************************************************************************)
LEMMA SlotBelow ==
  ASSUME NEW n \in 0..(HistoryCap - 1)
  PROVE  n % HistoryCap = n
BY KeyboardAssumption, Z3

LEMMA SlotAbove ==
  ASSUME NEW n \in HistoryCap..(2 * HistoryCap - 1)
  PROVE  n % HistoryCap = n - HistoryCap
BY KeyboardAssumption, Z3

\* The slot of an entry, without the remainder.
LEMMA EntrySlot ==
  ASSUME NEW k, Formed(k), NEW index \in 1..k.count
  PROVE  /\ HistorySlot(k, index) \in 0..(HistoryCap - 1)
         /\ HistorySlot(k, index) = IF k.next + index - 1 < k.count
                                    THEN k.next + index - 1 - k.count + HistoryCap
                                    ELSE k.next + index - 1 - k.count
<1>1. /\ k.next \in 0..(HistoryCap - 1) /\ k.count \in 0..HistoryCap
      /\ HistoryCap \in Nat \ {0}
  BY FormedParts, KeyboardAssumption
<1> DEFINE place == k.next + HistoryCap - k.count + index - 1
<1>2. HistorySlot(k, index) = place % HistoryCap
  BY DEF HistorySlot
<1>3. CASE k.next + index - 1 < k.count
  <2>1. place \in 0..(HistoryCap - 1)
    BY <1>1, <1>3
  <2>2. place % HistoryCap = place
    BY <2>1, SlotBelow, Zenon
  <2> QED
    BY <1>1, <1>2, <1>3, <2>1, <2>2
<1>4. CASE ~ (k.next + index - 1 < k.count)
  <2>1. place \in HistoryCap..(2 * HistoryCap - 1)
    BY <1>1, <1>4
  <2>2. place % HistoryCap = place - HistoryCap
    BY <2>1, SlotAbove, Zenon
  <2> QED
    BY <1>1, <1>2, <1>4, <2>1, <2>2
<1> QED
  BY <1>3, <1>4

\* The lines remembered, as a sequence.
LEMMA LinesType ==
  ASSUME NEW k, Formed(k)
  PROVE  /\ HistoryLines(k) \in Seq(TypedLines) /\ Len(HistoryLines(k)) = k.count
         /\ \A index \in 1..k.count :
              HistoryLines(k)[index] = k.history[HistorySlot(k, index)]
<1>1. k.count \in Nat /\ k.history \in [0..(HistoryCap - 1) -> TypedLines]
  BY FormedParts, KeyboardAssumption
<1>2. \A index \in 1..k.count : HistorySlot(k, index) \in 0..(HistoryCap - 1)
  BY EntrySlot
<1>3. HistoryLines(k) \in [1..k.count -> TypedLines]
  BY <1>1, <1>2 DEF HistoryLines
<1>4. HistoryLines(k) \in Seq(TypedLines) /\ Len(HistoryLines(k)) = k.count
  BY <1>1, <1>3
<1>5. \A index \in 1..k.count : HistoryLines(k)[index] = k.history[HistorySlot(k, index)]
  BY DEF HistoryLines
<1> QED
  BY <1>4, <1>5

\* The variables of the history.
SameHistory(k, m) == m.history = k.history /\ m.count = k.count /\ m.next = k.next

LEMMA HistoryDeterminesLines ==
  ASSUME NEW k, NEW m, SameHistory(k, m)
  PROVE  HistoryLines(m) = HistoryLines(k)
BY DEF SameHistory, HistoryLines, HistorySlot

\* The place of an entry counted back from the slot the next line will have.
Back(next, count, index) ==
  IF next + index - 1 < count THEN next + index - 1 - count + HistoryCap
  ELSE next + index - 1 - count

LEMMA NewestPlace ==
  ASSUME NEW next \in 0..(HistoryCap - 1), NEW after \in 0..(HistoryCap - 1),
         after = IF next = HistoryCap - 1 THEN 0 ELSE next + 1,
         NEW count \in 1..HistoryCap
  PROVE  Back(after, count, count) = next
BY KeyboardAssumption DEF Back

\* What the slots hold after one more line, in order.
LEMMA RememberEntries ==
  ASSUME NEW k, Formed(k), k.line # << >>
  PROVE  LET m == Remember(k)
             full == k.count = HistoryCap
         IN  /\ m.count = IF full THEN k.count ELSE k.count + 1
             /\ \A index \in 1..m.count :
                  m.history[HistorySlot(m, index)] =
                    IF index = m.count THEN k.line
                    ELSE k.history[HistorySlot(k, IF full THEN index + 1 ELSE index)]
<1> DEFINE m == Remember(k)
           full == k.count = HistoryCap
<1>1. /\ k.next \in 0..(HistoryCap - 1) /\ k.count \in 0..HistoryCap
      /\ HistoryCap \in Nat \ {0} /\ k.history \in [0..(HistoryCap - 1) -> TypedLines]
  BY FormedParts, KeyboardAssumption
<1>2. /\ m.history = [k.history EXCEPT ![k.next] = k.line]
      /\ m.next = (k.next + 1) % HistoryCap
      /\ m.count = IF k.count < HistoryCap THEN k.count + 1 ELSE k.count
  BY DEF Remember, Formed, KeyboardType
<1>3. m.next = IF k.next = HistoryCap - 1 THEN 0 ELSE k.next + 1
  <2>1. CASE k.next = HistoryCap - 1
    <3>1. k.next + 1 \in HistoryCap..(2 * HistoryCap - 1)
      BY <1>1, <2>1
    <3> QED
      BY <1>1, <1>2, <2>1, <3>1, SlotAbove
  <2>2. CASE k.next # HistoryCap - 1
    <3>1. k.next + 1 \in 0..(HistoryCap - 1)
      BY <1>1, <2>2
    <3> QED
      BY <1>2, <2>2, <3>1, SlotBelow
  <2> QED
    BY <2>1, <2>2
<1>4. Formed(m)
  BY RememberFormed
<1> HIDE DEF m
<1>5. m.count = IF full THEN k.count ELSE k.count + 1
  BY <1>1, <1>2
<1>6. ASSUME NEW index \in 1..m.count
      PROVE  m.history[HistorySlot(m, index)] =
               IF index = m.count THEN k.line
               ELSE k.history[HistorySlot(k, IF full THEN index + 1 ELSE index)]
  <2>1. m.next \in 0..(HistoryCap - 1) /\ m.count \in 1..HistoryCap
    BY <1>1, <1>3, <1>5, <1>6
  <2>2. HistorySlot(m, index) = Back(m.next, m.count, index)
    BY <1>4, <1>6, EntrySlot, Zenon DEF Back
  <2>3. CASE index = m.count
    <3>1. HistorySlot(m, index) = k.next
      BY <1>1, <1>3, <2>1, <2>2, <2>3, NewestPlace, Zenon
    <3> QED
      BY <1>1, <1>2, <2>3, <3>1
  <2>4. CASE index # m.count
    <3> DEFINE old == IF full THEN index + 1 ELSE index
    <3>1. old \in 1..k.count /\ m.count - index = k.count - old + 1
      BY <1>1, <1>5, <1>6, <2>4
    <3>2. HistorySlot(k, old) = Back(k.next, k.count, old)
      BY <3>1, EntrySlot, Zenon DEF Back
    <3>3. HistorySlot(k, old) \in 0..(HistoryCap - 1)
      BY <3>1, EntrySlot, Zenon
    <3> HIDE DEF old
    <3>4. HistorySlot(m, index) = HistorySlot(k, old) /\ HistorySlot(k, old) # k.next
      <4> DEFINE place == Back(m.next, m.count, index)
                 before == Back(k.next, k.count, old)
      <4>1. place = before /\ before # k.next
        <5> DEFINE next == k.next  count == k.count  after == m.next  more == m.count
        <5>1. /\ next \in 0..(HistoryCap - 1) /\ after \in 0..(HistoryCap - 1)
              /\ after = IF next = HistoryCap - 1 THEN 0 ELSE next + 1
              /\ count \in 0..HistoryCap /\ old \in 1..count
              /\ more \in 1..HistoryCap /\ index \in 1..more
              /\ more - index = count - old + 1
          BY <1>1, <1>3, <1>6, <2>1, <3>1, Zenon
        <5> HIDE DEF next, count, after, more
        <5>2. /\ Back(after, more, index) = Back(next, count, old)
              /\ Back(next, count, old) # next
          BY <5>1, KeyboardAssumption DEF Back
        <5> QED
          BY <5>2, Zenon DEF next, count, after, more
      <4> HIDE DEF place, before
      <4>2. HistorySlot(m, index) = place /\ HistorySlot(k, old) = before
        BY <2>2, <3>2, Zenon DEF place, before
      <4> QED
        BY <4>1, <4>2, Zenon
    <3>5. m.history[HistorySlot(m, index)] = k.history[HistorySlot(k, old)]
      BY <1>1, <1>2, <3>3, <3>4
    <3> QED
      BY <2>4, <3>5 DEF old
  <2> QED
    BY <2>3, <2>4
<1> QED
  BY <1>5, <1>6 DEF m

\* remember_command appends the line to the lines remembered, the newest of which stay.
LEMMA RememberLines ==
  ASSUME NEW k, Formed(k), k.line # << >>
  PROVE  HistoryLines(Remember(k)) = Newest(Append(HistoryLines(k), k.line))
<1> DEFINE m == Remember(k)
           full == k.count = HistoryCap
           old == HistoryLines(k)
           new == HistoryLines(m)
           log == Append(old, k.line)
<1>1. /\ k.count \in 0..HistoryCap /\ HistoryCap \in Nat \ {0} /\ k.line \in TypedLines
      /\ Formed(m)
  BY FormedParts, KeyboardAssumption, RememberFormed
<1>2. /\ m.count = IF full THEN k.count ELSE k.count + 1
      /\ \A index \in 1..m.count :
           m.history[HistorySlot(m, index)] =
             IF index = m.count THEN k.line
             ELSE k.history[HistorySlot(k, IF full THEN index + 1 ELSE index)]
  BY RememberEntries
<1>3. /\ old \in Seq(TypedLines) /\ Len(old) = k.count
      /\ \A index \in 1..k.count : old[index] = k.history[HistorySlot(k, index)]
  BY LinesType
<1>4. /\ new \in Seq(TypedLines) /\ Len(new) = m.count
      /\ \A index \in 1..m.count : new[index] = m.history[HistorySlot(m, index)]
  BY <1>1, LinesType
<1> HIDE DEF m, old, new
<1>5. /\ log \in Seq(TypedLines) /\ Len(log) = k.count + 1
      /\ \A index \in 1..k.count : log[index] = old[index]
      /\ log[k.count + 1] = k.line
  BY <1>1, <1>3, AppendProperties
<1>6. log # << >>
  BY <1>1, <1>5
<1> HIDE DEF log
<1>7. CASE full
  <2>1. /\ Tail(log) \in Seq(TypedLines) /\ Len(Tail(log)) = k.count
        /\ \A index \in 1..k.count : Tail(log)[index] = log[index + 1]
    BY <1>1, <1>5, <1>6, HeadTailProperties
  <2>2. ASSUME NEW index \in 1..k.count
        PROVE  new[index] = Tail(log)[index]
    <3>1. index \in 1..m.count /\ m.count = k.count
      BY <1>2, <1>7
    <3>2. new[index] = IF index = m.count THEN k.line ELSE k.history[HistorySlot(k, index + 1)]
      BY <1>2, <1>4, <1>7, <3>1
    <3>3. CASE index = k.count
      BY <1>5, <2>1, <3>1, <3>2, <3>3
    <3>4. CASE index # k.count
      <4>1. index + 1 \in 1..k.count
        BY <1>1, <3>4
      <4> QED
        BY <1>3, <1>5, <2>1, <3>1, <3>2, <3>4, <4>1
    <3> QED
      BY <3>3, <3>4
  <2>3. new = Tail(log)
    BY <1>2, <1>4, <1>7, <2>1, <2>2, SeqEqual
  <2>4. Newest(log) = Tail(log)
    BY <1>1, <1>5, <1>7 DEF Newest
  <2> QED
    BY <2>3, <2>4 DEF new, m, log, old
<1>8. CASE ~full
  <2>1. ASSUME NEW index \in 1..m.count
        PROVE  new[index] = log[index]
    <3>1. new[index] = IF index = m.count THEN k.line ELSE k.history[HistorySlot(k, index)]
      BY <1>2, <1>4, <1>8
    <3>2. CASE index = m.count
      BY <1>2, <1>5, <1>8, <3>1, <3>2
    <3>3. CASE index # m.count
      <4>1. index \in 1..k.count
        BY <1>1, <1>2, <1>8, <3>3
      <4> QED
        BY <1>3, <1>5, <3>1, <3>3, <4>1
    <3> QED
      BY <3>2, <3>3
  <2>2. new = log
    BY <1>2, <1>4, <1>5, <1>8, <2>1, SeqEqual
  <2>3. Newest(log) = log
    BY <1>1, <1>5, <1>8 DEF Newest
  <2> QED
    BY <2>2, <2>3 DEF new, m, log, old
<1> QED
  BY <1>7, <1>8

(***************************************************************************)
(* What a key does, told as a line editor does.                            *)
(***************************************************************************)
\* The entry browsed, or 0; a line that is ready is not browsed any more.
Browsed(k) == IF k.ready THEN 0 ELSE k.recall

\* Nothing but the flags changes.
Stays(k, m) ==
  /\ SameHistory(k, m)
  /\ m.line = k.line /\ m.cursor = k.cursor /\ m.ready = k.ready
  /\ m.recall = k.recall /\ m.saved = k.saved

MovesCursor(k, m) ==
  /\ SameHistory(k, m) /\ ~k.ready /\ ~m.ready
  /\ m.line = k.line /\ m.cursor \in 0..Len(k.line)
  /\ m.recall = k.recall /\ m.saved = k.saved

Edits(k, m, line, cursor) ==
  /\ SameHistory(k, m) /\ ~k.ready /\ ~m.ready
  /\ m.line = line /\ m.cursor = cursor /\ m.recall = 0

Types(k, m) ==
  /\ Len(k.line) < LineCap - 1
  /\ \E character \in Characters :
       Edits(k, m, InsertAt(k.line, k.cursor + 1, character), k.cursor + 1)

Erases(k, m) ==
  \E at \in 0..(Len(k.line) - 1) :
    /\ at = k.cursor \/ at + 1 = k.cursor
    /\ Edits(k, m, RemoveAt(k.line, at + 1), at)

Recalls(k, m, index) ==
  /\ SameHistory(k, m) /\ ~k.ready /\ ~m.ready
  /\ index \in 1..k.count /\ m.recall = index
  /\ m.line = HistoryLines(k)[index] /\ m.cursor = Len(m.line)
  /\ m.saved = IF k.recall = 0 THEN k.line ELSE k.saved

GoesOlder(k, m) ==
  Recalls(k, m, IF k.recall = 0 THEN k.count ELSE IF k.recall = 1 THEN 1 ELSE k.recall - 1)

GoesNewer(k, m) == k.recall # 0 /\ k.recall < k.count /\ Recalls(k, m, k.recall + 1)

GoesBack(k, m) ==
  /\ SameHistory(k, m) /\ ~k.ready /\ ~m.ready
  /\ k.recall # 0 /\ k.recall = k.count
  /\ m.line = k.saved /\ m.cursor = Len(m.line) /\ m.recall = 0

Ends(k, m) ==
  /\ ~k.ready /\ m.ready
  /\ m.line = k.line /\ m.cursor = Len(k.line)
  /\ HistoryLines(m) = IF k.line = << >> THEN HistoryLines(k)
                       ELSE Newest(Append(HistoryLines(k), k.line))

KeyEffect(k, m) ==
  \/ Stays(k, m) \/ MovesCursor(k, m) \/ Types(k, m) \/ Erases(k, m)
  \/ GoesOlder(k, m) \/ GoesNewer(k, m) \/ GoesBack(k, m) \/ Ends(k, m)

LEMMA InsertEffect ==
  ASSUME NEW k, Formed(k), ~k.ready, NEW character \in Characters
  PROVE  KeyEffect(k, Insert(k, character)) /\ SameHistory(k, Insert(k, character))
<1>1. CASE Len(k.line) >= LineCap - 1
  BY <1>1, Zenon DEF Insert, KeyEffect, Stays, SameHistory
<1>2. CASE ~(Len(k.line) >= LineCap - 1)
  <2> DEFINE line == InsertAt(k.line, k.cursor + 1, character)
             m == Insert(k, character)
  <2>1. Len(k.line) < LineCap - 1
    BY <1>2, FormedParts, KeyboardAssumption
  <2>2. Edits(k, m, line, k.cursor + 1)
    <3> HIDE DEF line
    <3>1. m = [k EXCEPT !.line = line, !.cursor = k.cursor + 1, !.recall = 0]
      BY <1>2 DEF Insert, line
    <3> QED
      BY <3>1 DEF Edits, SameHistory, Formed, KeyboardType
  <2>3. Types(k, m)
    BY <2>1, <2>2, Zenon DEF Types
  <2> QED
    BY <2>2, <2>3, Zenon DEF KeyEffect, Edits
<1> QED
  BY <1>1, <1>2

\* Both keys that erase; at is where the cursor stands when delete_character is called.
LEMMA DeleteAtEffect ==
  ASSUME NEW k, Formed(k), ~k.ready, NEW at \in 0..Len(k.line),
         at = k.cursor \/ at + 1 = k.cursor
  PROVE  LET m == Delete([k EXCEPT !.cursor = at])
         IN  /\ SameHistory(k, m)
             /\ at < Len(k.line) \/ at = k.cursor => KeyEffect(k, m)
<1> DEFINE moved == [k EXCEPT !.cursor = at]
           m == Delete(moved)
           line == RemoveAt(k.line, at + 1)
<1>1. /\ moved.line = k.line /\ moved.cursor = at /\ moved.ready = k.ready
      /\ moved.recall = k.recall /\ moved.saved = k.saved /\ SameHistory(k, moved)
  BY DEF Formed, KeyboardType, SameHistory
<1>2. k.cursor \in 0..Len(k.line) /\ Len(k.line) \in Nat
  BY FormedParts
<1>3. CASE at >= Len(k.line)
  <2>1. m = moved
    BY <1>1, <1>3 DEF Delete
  <2>2. at = k.cursor => Stays(k, m)
    BY <1>1, <2>1 DEF Stays
  <2>3. ~(at < Len(k.line))
    BY <1>2, <1>3
  <2> QED
    BY <1>1, <2>1, <2>2, <2>3, Zenon DEF KeyEffect
<1>4. CASE ~(at >= Len(k.line))
  <2>1. at \in 0..(Len(k.line) - 1)
    BY <1>2, <1>4
  <2>2. m = [moved EXCEPT !.line = line, !.recall = 0]
    BY <1>1, <1>4 DEF Delete
  <2> HIDE DEF line
  <2>3. Edits(k, m, line, at)
    BY <2>2 DEF Edits, SameHistory, Formed, KeyboardType
  <2>4. Erases(k, m)
    BY <2>1, <2>3, Zenon DEF Erases, line
  <2> QED
    BY <2>3, <2>4, Zenon DEF KeyEffect, Edits
<1> QED
  BY <1>3, <1>4

LEMMA EraseEffect ==
  ASSUME NEW k, Formed(k), ~k.ready
  PROVE  /\ KeyEffect(k, Delete(k)) /\ SameHistory(k, Delete(k))
         /\ KeyEffect(k, Backspace(k)) /\ SameHistory(k, Backspace(k))
<1>1. k.cursor \in 0..Len(k.line) /\ Len(k.line) \in Nat
  BY FormedParts
<1>2. k = [k EXCEPT !.cursor = k.cursor]
  BY DEF Formed, KeyboardType
<1>3. KeyEffect(k, Delete(k)) /\ SameHistory(k, Delete(k))
  BY <1>1, <1>2, DeleteAtEffect, Zenon
<1>4. CASE k.cursor = 0
  BY <1>3, <1>4, Zenon DEF Backspace, KeyEffect, Stays, SameHistory
<1>5. CASE k.cursor # 0
  <2> DEFINE at == k.cursor - 1
  <2>1. at \in 0..Len(k.line) /\ at + 1 = k.cursor /\ at < Len(k.line)
    BY <1>1, <1>5
  <2>2. Backspace(k) = Delete([k EXCEPT !.cursor = at])
    BY <1>5 DEF Backspace
  <2> HIDE DEF at
  <2> QED
    BY <1>3, <2>1, <2>2, DeleteAtEffect, Zenon
<1> QED
  BY <1>3, <1>4, <1>5

\* replace_line with an entry of the history.
LEMMA RecallEffect ==
  ASSUME NEW k, Formed(k), ~k.ready, NEW m, m \in KeyboardType, SameHistory(k, m), ~m.ready,
         m.recall \in 1..k.count,
         m.saved = IF k.recall = 0 THEN k.line ELSE k.saved
  PROVE  Recalls(k, Replace(m, Recalled(m)), m.recall)
<1> DEFINE shown == Replace(m, Recalled(m))
<1>1. /\ shown.line = Recalled(m) /\ shown.cursor = Len(Recalled(m)) /\ shown.ready = m.ready
      /\ shown.recall = m.recall /\ shown.saved = m.saved /\ SameHistory(m, shown)
  BY DEF Replace, KeyboardType, SameHistory
<1>2. HistoryLines(k)[m.recall] = Recalled(m)
  BY LinesType DEF Recalled, HistorySlot, SameHistory
<1> HIDE DEF shown
<1>3. Recalls(k, shown, m.recall)
  BY <1>1, <1>2 DEF Recalls, SameHistory
<1> QED
  BY <1>3 DEF shown

LEMMA OlderEffect ==
  ASSUME NEW k, Formed(k), ~k.ready
  PROVE  KeyEffect(k, HistoryUp(k)) /\ SameHistory(k, HistoryUp(k))
<1>1. k \in KeyboardType /\ k.recall \in 0..k.count /\ k.count \in 0..HistoryCap /\ k.count \in Nat
  BY FormedParts, KeyboardAssumption DEF Formed
<1>2. CASE k.count = 0
  BY <1>2, Zenon DEF HistoryUp, KeyEffect, Stays, SameHistory
<1>3. CASE k.count # 0
  <2> DEFINE index == IF k.recall = 0 THEN k.count ELSE IF k.recall = 1 THEN 1 ELSE k.recall - 1
             saved == IF k.recall = 0 THEN k.line ELSE k.saved
             m == [k EXCEPT !.saved = saved, !.recall = index]
  <2>1. index \in 1..k.count /\ index \in 0..HistoryCap /\ saved \in TypedLines
    BY <1>1, <1>3, FormedParts, KeyboardAssumption
  <2> HIDE DEF index, saved
  <2>2. /\ m \in KeyboardType /\ SameHistory(k, m) /\ ~m.ready
        /\ m.recall = index /\ m.saved = saved
    BY <1>1, <2>1 DEF KeyboardType, SameHistory
  <2>3. HistoryUp(k) = Replace(m, Recalled(m))
    <3>1. m = IF k.recall = 0 THEN [k EXCEPT !.saved = k.line, !.recall = k.count]
              ELSE IF k.recall > 1 THEN [k EXCEPT !.recall = @ - 1] ELSE k
      <4>1. CASE k.recall = 0
        BY <4>1 DEF index, saved
      <4>2. CASE k.recall > 1
        <5>1. index = k.recall - 1 /\ saved = k.saved /\ k.recall # 0
          BY <1>1, <4>2 DEF index, saved
        <5>2. [k EXCEPT !.saved = k.saved, !.recall = k.recall - 1]
                = [k EXCEPT !.recall = k.recall - 1]
          BY <1>1 DEF KeyboardType
        <5> QED
          BY <4>2, <5>1, <5>2, Zenon
      <4>3. CASE k.recall = 1
        <5>1. index = k.recall /\ saved = k.saved /\ ~(k.recall > 1) /\ k.recall # 0
          BY <4>3 DEF index, saved
        <5>2. [k EXCEPT !.saved = k.saved, !.recall = k.recall] = k
          BY <1>1 DEF KeyboardType
        <5> QED
          BY <5>1, <5>2, Zenon
      <4> QED
        BY <1>1, <4>1, <4>2, <4>3
    <3> HIDE DEF m
    <3> QED
      BY <1>3, <3>1, Zenon DEF HistoryUp
  <2> HIDE DEF m
  <2>4. Recalls(k, HistoryUp(k), index)
    <3>1. m.recall \in 1..k.count /\ m.saved = IF k.recall = 0 THEN k.line ELSE k.saved
      BY <2>1, <2>2 DEF saved
    <3>2. Recalls(k, Replace(m, Recalled(m)), m.recall)
      BY <2>2, <3>1, RecallEffect, Zenon
    <3> QED
      BY <2>2, <2>3, <3>2, Zenon
  <2>5. GoesOlder(k, HistoryUp(k))
    BY <2>4, Zenon DEF GoesOlder, index
  <2> QED
    BY <2>4, <2>5, Zenon DEF KeyEffect, Recalls
<1> QED
  BY <1>2, <1>3

LEMMA NewerEffect ==
  ASSUME NEW k, Formed(k), ~k.ready
  PROVE  KeyEffect(k, HistoryDown(k)) /\ SameHistory(k, HistoryDown(k))
<1>1. k \in KeyboardType /\ k.recall \in 0..k.count /\ k.count \in 0..HistoryCap /\ k.count \in Nat
  BY FormedParts, KeyboardAssumption DEF Formed
<1>2. CASE k.recall = 0
  BY <1>2, Zenon DEF HistoryDown, KeyEffect, Stays, SameHistory
<1>3. CASE k.recall # 0 /\ k.recall < k.count
  <2> DEFINE m == [k EXCEPT !.recall = @ + 1]
  <2>1. /\ m \in KeyboardType /\ SameHistory(k, m) /\ ~m.ready
        /\ m.recall = k.recall + 1 /\ m.recall \in 1..k.count
        /\ m.saved = IF k.recall = 0 THEN k.line ELSE k.saved
    BY <1>1, <1>3, KeyboardAssumption DEF KeyboardType, SameHistory
  <2>2. HistoryDown(k) = Replace(m, Recalled(m))
    BY <1>3, Zenon DEF HistoryDown
  <2> HIDE DEF m
  <2>3. Recalls(k, Replace(m, Recalled(m)), m.recall)
    BY <2>1, RecallEffect, Zenon
  <2>4. Recalls(k, HistoryDown(k), k.recall + 1)
    BY <2>1, <2>2, <2>3, Zenon
  <2> QED
    BY <1>3, <2>4, Zenon DEF KeyEffect, GoesNewer, Recalls
<1>4. CASE k.recall # 0 /\ ~(k.recall < k.count)
  <2>1. k.recall = k.count
    BY <1>1, <1>4
  <2>2. HistoryDown(k) = Replace([k EXCEPT !.recall = 0], k.saved)
    BY <1>4, Zenon DEF HistoryDown
  <2>3. GoesBack(k, HistoryDown(k))
    BY <1>1, <1>4, <2>1, <2>2 DEF GoesBack, Replace, SameHistory, KeyboardType
  <2> QED
    BY <2>3, Zenon DEF KeyEffect, GoesBack
<1> QED
  BY <1>2, <1>3, <1>4

LEMMA EnterEffect ==
  ASSUME NEW k, Formed(k), ~k.ready
  PROVE  Ends(k, Enter(k))
<1> DEFINE ended == [k EXCEPT !.cursor = Len(k.line)]
           m == Remember(ended)
<1>1. Len(k.line) \in 0..Len(k.line)
  BY FormedParts
<1>2. Formed(ended)
  BY <1>1, MoveFormed, Zenon
<1>3. ended.line = k.line /\ ended.cursor = Len(k.line) /\ SameHistory(k, ended)
  BY DEF Formed, KeyboardType, SameHistory
<1> HIDE DEF ended
<1>4. Formed(m) /\ m.line = k.line /\ m.cursor = Len(k.line)
  <2>1. m.cursor = ended.cursor
    BY <1>2 DEF Remember, Formed, KeyboardType
  <2> QED
    BY <1>2, <1>3, <2>1, RememberFormed, Zenon
<1>5. HistoryLines(m) = IF k.line = << >> THEN HistoryLines(k)
                        ELSE Newest(Append(HistoryLines(k), k.line))
  <2>1. HistoryLines(ended) = HistoryLines(k)
    BY <1>3, HistoryDeterminesLines, Zenon
  <2>2. k.line = << >> => m = ended
    BY <1>3, Zenon DEF Remember
  <2> QED
    BY <1>2, <1>3, <2>1, <2>2, RememberLines, Zenon
<1>6. Enter(k) = [m EXCEPT !.ready = TRUE]
  BY Zenon DEF Enter, ended
<1> HIDE DEF m
<1>7. /\ Enter(k).line = k.line /\ Enter(k).cursor = Len(k.line) /\ Enter(k).ready
      /\ SameHistory(m, Enter(k))
  BY <1>4, <1>6 DEF Formed, KeyboardType, SameHistory
<1>8. HistoryLines(Enter(k)) = HistoryLines(m)
  BY <1>7, HistoryDeterminesLines, Zenon
<1> QED
  BY <1>5, <1>7, <1>8, Zenon DEF Ends

\* The cursor moves within the line.
LEMMA CursorEffect ==
  ASSUME NEW k, Formed(k), ~k.ready, NEW cursor \in 0..Len(k.line)
  PROVE  LET m == [k EXCEPT !.cursor = cursor]
         IN  KeyEffect(k, m) /\ SameHistory(k, m)
<1> DEFINE m == [k EXCEPT !.cursor = cursor]
<1>1. MovesCursor(k, m)
  BY DEF MovesCursor, SameHistory, Formed, KeyboardType
<1> HIDE DEF m
<1>2. KeyEffect(k, m) /\ SameHistory(k, m)
  BY <1>1, Zenon DEF KeyEffect, MovesCursor
<1> QED
  BY <1>2, Zenon DEF m

\* A key that is no Enter leaves the history as it is.
LEMMA PressEffect ==
  ASSUME NEW k, Formed(k), ~k.ready, NEW code
  PROVE  /\ KeyEffect(k, Press(k, code))
         /\ IF code = "enter" THEN Ends(k, Press(k, code)) ELSE SameHistory(k, Press(k, code))
<1> DEFINE character == IF k.shift THEN Shifted(code) ELSE code
<1>1. code \in Letters => character \in Characters
  BY Zenon DEF Characters
<1> HIDE DEF character
<1>2. code \in Letters => /\ KeyEffect(k, Insert(k, character))
                          /\ SameHistory(k, Insert(k, character))
  BY <1>1, InsertEffect, Zenon
<1>3. Ends(k, Enter(k)) /\ KeyEffect(k, Enter(k))
  BY EnterEffect, Zenon DEF KeyEffect
<1>4. /\ KeyEffect(k, Backspace(k)) /\ SameHistory(k, Backspace(k))
      /\ KeyEffect(k, k) /\ SameHistory(k, k)
  BY EraseEffect, Zenon DEF KeyEffect, Stays, SameHistory
<1>5. /\ code = "enter" => Press(k, code) = Enter(k)
      /\ code # "enter" => \/ Press(k, code) \in {Backspace(k), k}
                           \/ code \in Letters /\ Press(k, code) = Insert(k, character)
  BY LetterAssumption DEF Press, character
<1> QED
  BY <1>2, <1>3, <1>4, <1>5, Zenon

LEMMA PressExtendedEffect ==
  ASSUME NEW k, Formed(k), ~k.ready, NEW code
  PROVE  KeyEffect(k, PressExtended(k, code)) /\ SameHistory(k, PressExtended(k, code))
<1>1. k.cursor \in 0..Len(k.line) /\ Len(k.line) \in Nat
  BY FormedParts
<1> DEFINE left == IF k.cursor > 0 THEN k.cursor - 1 ELSE 0
           right == IF k.cursor < Len(k.line) THEN k.cursor + 1 ELSE k.cursor
           Like(m) == KeyEffect(k, m) /\ SameHistory(k, m)
<1>2. /\ left \in 0..Len(k.line) /\ right \in 0..Len(k.line)
      /\ 0 \in 0..Len(k.line) /\ Len(k.line) \in 0..Len(k.line)
  BY <1>1
<1> HIDE DEF left, right
<1>3. /\ Like([k EXCEPT !.cursor = left]) /\ Like([k EXCEPT !.cursor = right])
      /\ Like([k EXCEPT !.cursor = 0]) /\ Like([k EXCEPT !.cursor = Len(k.line)])
  BY <1>2, CursorEffect, Zenon
<1>4. Like(HistoryUp(k)) /\ Like(HistoryDown(k)) /\ Like(Delete(k))
  BY OlderEffect, NewerEffect, EraseEffect, Zenon
<1>5. Like(k)
  BY Zenon DEF KeyEffect, Stays, SameHistory
<1>6. PressExtended(k, code) \in
        {[k EXCEPT !.cursor = left], [k EXCEPT !.cursor = right], [k EXCEPT !.cursor = 0],
         [k EXCEPT !.cursor = Len(k.line)], HistoryUp(k), HistoryDown(k), Delete(k), k}
  BY DEF PressExtended, left, right
<1> QED
  BY <1>3, <1>4, <1>5, <1>6, Zenon

\* The flags are no part of the effect.
LEMMA FlagsEffect ==
  ASSUME NEW k, NEW p, NEW m, Stays(p, m)
  PROVE  /\ KeyEffect(k, p) => KeyEffect(k, m)
         /\ SameHistory(k, p) => SameHistory(k, m)
         /\ HistoryLines(m) = HistoryLines(p)
<1>1. HistoryLines(m) = HistoryLines(p)
  BY HistoryDeterminesLines, Zenon DEF Stays
<1>2. SameHistory(k, p) => SameHistory(k, m)
  BY Zenon DEF Stays, SameHistory
<1> SUFFICES ASSUME KeyEffect(k, p)
             PROVE  KeyEffect(k, m)
  BY <1>1, <1>2, Zenon
<1>3. ASSUME NEW line, NEW cursor, Edits(k, p, line, cursor)
      PROVE  Edits(k, m, line, cursor)
  BY <1>3, Zenon DEF Edits, Stays, SameHistory
<1>4. ASSUME NEW index, Recalls(k, p, index)
      PROVE  Recalls(k, m, index)
  BY <1>4, Zenon DEF Recalls, Stays, SameHistory
<1>5. CASE Stays(k, p)
  BY <1>5, Zenon DEF KeyEffect, Stays, SameHistory
<1>6. CASE MovesCursor(k, p)
  BY <1>6, Zenon DEF KeyEffect, MovesCursor, Stays, SameHistory
<1>7. CASE Types(k, p) \/ Erases(k, p)
  BY <1>3, <1>7, Zenon DEF KeyEffect, Types, Erases
<1>8. CASE GoesOlder(k, p) \/ GoesNewer(k, p)
  BY <1>4, <1>8, Zenon DEF KeyEffect, GoesOlder, GoesNewer
<1>9. CASE GoesBack(k, p)
  BY <1>9, Zenon DEF KeyEffect, GoesBack, Stays, SameHistory
<1>10. CASE Ends(k, p)
  BY <1>1, <1>10, Zenon DEF KeyEffect, Ends, Stays
<1> QED
  BY <1>5, <1>6, <1>7, <1>8, <1>9, <1>10, Zenon DEF KeyEffect

\* Enter reaches the line editor.
Entering(k, code) == code = "enter" /\ ~k.extended /\ ~k.ready

\* The handler as a whole.
LEMMA HandleEffect ==
  ASSUME NEW k, Formed(k), NEW code
  PROVE  LET m == Handle(k, code)
         IN  /\ KeyEffect(k, m)
             /\ HistoryLines(m) =
                  IF Entering(k, code) /\ k.line # << >>
                  THEN Newest(Append(HistoryLines(k), k.line))
                  ELSE HistoryLines(k)
<1> DEFINE pressed == IF k.extended THEN PressExtended(k, code) ELSE Press(k, code)
           handled == [pressed EXCEPT !.extended = FALSE]
           lines == IF Entering(k, code) /\ k.line # << >>
                    THEN Newest(Append(HistoryLines(k), k.line)) ELSE HistoryLines(k)
           m == Handle(k, code)
<1>1. CASE code \in {"extend", "shift", "unshift", "release"} \/ k.ready
  <2>1. m \in {[k EXCEPT !.extended = TRUE], [k EXCEPT !.shift = TRUE],
               [k EXCEPT !.shift = FALSE], [k EXCEPT !.extended = FALSE]}
    BY <1>1 DEF Handle
  <2>2. Stays(k, m)
    BY <2>1 DEF Stays, SameHistory, Formed, KeyboardType
  <2>3. HistoryLines(m) = HistoryLines(k)
    BY <2>2, HistoryDeterminesLines, Zenon DEF Stays
  <2>4. ~Entering(k, code)
    BY <1>1 DEF Entering
  <2> QED
    BY <2>2, <2>3, <2>4, Zenon DEF KeyEffect
<1>2. CASE ~(code \in {"extend", "shift", "unshift", "release"} \/ k.ready)
  <2>1. m = handled
    BY <1>2 DEF Handle
  <2>2. Formed(pressed)
    BY PressExtendedFormed, PressFormed, Zenon
  <2>3. KeyEffect(k, pressed)
    BY <1>2, PressEffect, PressExtendedEffect, Zenon
  <2>4. IF Entering(k, code) THEN Ends(k, pressed) ELSE SameHistory(k, pressed)
    BY <1>2, PressEffect, PressExtendedEffect, Zenon DEF Entering
  <2>5. HistoryLines(pressed) = lines
    BY <2>4, HistoryDeterminesLines, Zenon DEF Ends
  <2> HIDE DEF pressed
  <2>6. Stays(pressed, handled)
    BY <2>2 DEF Stays, SameHistory, Formed, KeyboardType
  <2> HIDE DEF handled
  <2>7. KeyEffect(k, handled) /\ HistoryLines(handled) = lines
    BY <2>3, <2>5, <2>6, FlagsEffect, Zenon
  <2> QED
    BY <2>1, <2>7, Zenon
<1> QED
  BY <1>1, <1>2

(***************************************************************************)
(* The prompt.                                                             *)
(***************************************************************************)
\* A line browsed is the entry it was recalled from.
Shown(k) == Browsed(k) # 0 => k.line = HistoryLines(k)[k.recall]

EditorInvariant ==
  /\ PromptInvariant
  /\ entered = HistoryLines(keyboard)
  /\ interrupts => Shown(keyboard)

LEMMA KeyKeepsShown ==
  ASSUME NEW k, NEW m, KeyEffect(k, m), Shown(k)
  PROVE  Shown(m)
<1>1. SameHistory(k, m) => HistoryLines(m) = HistoryLines(k)
  BY HistoryDeterminesLines, Zenon
<1>2. CASE Stays(k, m) \/ MovesCursor(k, m)
  BY <1>1, <1>2 DEF Stays, MovesCursor, Shown, Browsed
<1>3. CASE Types(k, m) \/ Erases(k, m) \/ GoesBack(k, m)
  BY <1>3 DEF Types, Erases, GoesBack, Edits, Shown, Browsed
<1>4. CASE GoesOlder(k, m) \/ GoesNewer(k, m)
  BY <1>1, <1>4 DEF GoesOlder, GoesNewer, Recalls, Shown, Browsed
<1>5. CASE Ends(k, m)
  BY <1>5 DEF Ends, Shown, Browsed
<1> QED
  BY <1>2, <1>3, <1>4, <1>5 DEF KeyEffect

\* What a key does to the prompt's variables.
LEMMA KeyStep ==
  ASSUME TypeOK, Key
  PROVE  /\ KeyEffect(keyboard, keyboard')
         /\ entered = HistoryLines(keyboard) => entered' = HistoryLines(keyboard')
         /\ interrupts /\ interrupts' /\ pc' = Woken
<1>1. PICK code \in Scancodes :
        LET line == keyboard.line
            ends == code = "enter" /\ ~keyboard.extended /\ ~keyboard.ready /\ line # << >>
        IN  /\ keyboard' = Handle(keyboard, code)
            /\ entered' = IF ends THEN Newest(Append(entered, line)) ELSE entered
  BY DEF Key
<1>2. Formed(keyboard)
  BY TypeHasFormed
<1>3. /\ KeyEffect(keyboard, keyboard')
      /\ HistoryLines(keyboard') =
           IF Entering(keyboard, code) /\ keyboard.line # << >>
           THEN Newest(Append(HistoryLines(keyboard), keyboard.line))
           ELSE HistoryLines(keyboard)
  BY <1>1, <1>2, HandleEffect, Zenon
<1>4. entered = HistoryLines(keyboard) => entered' = HistoryLines(keyboard')
  BY <1>1, <1>3, Zenon DEF Entering
<1>5. interrupts /\ interrupts' /\ pc' = Woken
  BY DEF Key
<1> QED
  BY <1>3, <1>4, <1>5

\* The main thread's stores leave the history alone.
LEMMA MainStep ==
  ASSUME TypeOK, Main \/ Timer
  PROVE  /\ SameHistory(keyboard, keyboard') /\ entered' = entered
         /\ keyboard' = keyboard \/ pc \in {"empty", "reopen", "forget"}
<1>1. keyboard \in KeyboardType
  BY DEF TypeOK
<1>2. CASE EmptyLine
  BY <1>1, <1>2 DEF EmptyLine, Goes, SameHistory, KeyboardType
<1>3. CASE Reopen
  BY <1>1, <1>3 DEF Reopen, Goes, SameHistory, KeyboardType
<1>4. CASE ForgetRecall
  BY <1>1, <1>4 DEF ForgetRecall, Goes, SameHistory, KeyboardType
<1>5. CASE BootEnds \/ Cli \/ Sti \/ Test \/ Take \/ Return \/ Timer
  BY <1>5 DEF BootEnds, Cli, Sti, Test, Take, Return, Timer, SameHistory
<1> QED
  BY <1>2, <1>3, <1>4, <1>5 DEF Main

LEMMA EmptyHistory == HistoryLines(ZeroKeyboard) = << >>
<1>1. Formed(ZeroKeyboard)
  BY ZeroFormed
<1>2. Len(HistoryLines(ZeroKeyboard)) = 0 /\ HistoryLines(ZeroKeyboard) \in Seq(TypedLines)
  BY <1>1, LinesType DEF ZeroKeyboard
<1> QED
  BY <1>2, EmptySeq

LEMMA EditorInitially == Init => EditorInvariant
<1>1. Init => Shown(keyboard)
  BY DEF Init, ZeroKeyboard, Shown, Browsed
<1> QED
  BY <1>1, InvariantInitially, EmptyHistory DEF Init, EditorInvariant

LEMMA EditorKept == EditorInvariant /\ [Next]_vars => EditorInvariant'
<1> SUFFICES ASSUME EditorInvariant, [Next]_vars
             PROVE  EditorInvariant'
  OBVIOUS
<1>1. TypeOK /\ Control /\ PromptInvariant'
  BY InvariantKept DEF EditorInvariant, PromptInvariant
<1>2. CASE Key
  BY <1>1, <1>2, KeyStep, KeyKeepsShown, Zenon DEF EditorInvariant
<1>3. CASE Main \/ Timer
  <2>1. entered' = HistoryLines(keyboard')
    BY <1>1, <1>3, MainStep, HistoryDeterminesLines, Zenon DEF EditorInvariant
  <2>2. CASE pc \in {"empty", "reopen", "forget"}
    <3>1. ~interrupts'
      BY <1>1, <1>3, <2>2 DEF Control, Main, BootEnds, Cli, EmptyLine, Reopen, ForgetRecall,
                              Sti, Test, Take, Return, Timer, Goes
    <3> QED
      BY <1>1, <2>1, <3>1 DEF EditorInvariant
  <2>3. CASE pc \notin {"empty", "reopen", "forget"}
    <3>1. keyboard' = keyboard
      BY <1>1, <1>3, <2>3, MainStep, Zenon
    <3>2. CASE interrupts
      BY <1>1, <2>1, <3>1, <3>2, Zenon DEF EditorInvariant
    <3>3. CASE ~interrupts
      <4>1. pc = "enable"
        BY <1>1, <2>3, <3>3 DEF Control, TypeOK
      <4>2. keyboard.recall = 0
        BY <1>1, <4>1 DEF Control
      <4> QED
        BY <1>1, <2>1, <3>1, <4>2, Zenon DEF EditorInvariant, Shown, Browsed
    <3> QED
      BY <3>2, <3>3
  <2> QED
    BY <2>2, <2>3
<1>4. CASE UNCHANGED vars
  BY <1>1, <1>4, Zenon DEF vars, EditorInvariant
<1> QED
  BY <1>2, <1>3, <1>4 DEF Next

\* The inductive invariant: the prompt's, and that the ring is the newest lines entered
\* and a line browsed the entry it came from.
THEOREM EditorInvariantHolds == Spec => []EditorInvariant
BY EditorInitially, EditorKept, PTL DEF Spec

\* The ring of the history holds the newest lines entered, in order, however often it
\* has wrapped (keyboard.c:77-79, 110-120).
THEOREM HistoryIsAlwaysRecent == Spec => []HistoryIsRecent
<1>1. EditorInvariant => HistoryIsRecent
  BY DEF EditorInvariant, HistoryIsRecent
<1> QED
  BY <1>1, EditorInvariantHolds, PTL

\* While the history is browsed the line is the entry browsed, unedited
\* (keyboard.c:122-172).
THEOREM BrowsingAlwaysShowsHistory == Spec => []BrowsingShowsHistory
<1>1. EditorInvariant => BrowsingShowsHistory
  <2> SUFFICES ASSUME EditorInvariant, interrupts, ~keyboard.ready, keyboard.recall # 0
               PROVE  keyboard.line = Recalled(keyboard)
    BY DEF BrowsingShowsHistory
  <2>1. keyboard.line = HistoryLines(keyboard)[keyboard.recall]
    BY DEF EditorInvariant, Shown, Browsed
  <2>2. Formed(keyboard)
    BY TypeHasFormed DEF EditorInvariant, PromptInvariant
  <2>3. keyboard.recall \in 1..keyboard.count
    BY <2>2, FormedParts, KeyboardAssumption
  <2> QED
    BY <2>1, <2>2, <2>3, LinesType, Zenon DEF Recalled
<1> QED
  BY <1>1, EditorInvariantHolds, PTL

(***************************************************************************)
(* The refinement.                                                         *)
(***************************************************************************)
\* Outside the stores that begin a line the editor's state is the keyboard's.
LEMMA KeyIsEditorStep ==
  ASSUME EditorInvariant, Key
  PROVE  Editor!Next \/ UNCHANGED Editor!vars
<1> DEFINE k == keyboard
           m == keyboard'
<1>1. TypeOK /\ Control
  BY DEF EditorInvariant, PromptInvariant
<1>2. KeyEffect(k, m) /\ interrupts /\ interrupts' /\ pc' = Woken
  BY <1>1, KeyStep, Zenon
<1>3. /\ pc \notin {"reopen", "forget"} /\ pc' \notin {"reopen", "forget"}
  BY <1>1, <1>2 DEF Control, Woken
<1>4. /\ Place = Browsed(k) /\ Place' = Browsed(m)
      /\ (keyboard.ready /\ pc # "reopen") = k.ready
      /\ (keyboard.ready /\ pc # "reopen")' = m.ready
  <2>1. k.ready \in BOOLEAN /\ m.ready \in BOOLEAN
    <3>1. TypeOK'
      BY InvariantKept DEF EditorInvariant, PromptInvariant, Next
    <3> QED
      BY <1>1, <3>1, TypeHasFormed, FormedParts DEF TypeOK, KeyboardType
  <2> QED
    BY <1>3, <2>1, Zenon DEF Place, Beginning, Browsed
<1>5. Formed(k)
  BY <1>1, TypeHasFormed
<1> DEFINE old == HistoryLines(k)
<1>6. SameHistory(k, m) => HistoryLines(m) = old
  BY HistoryDeterminesLines, Zenon
<1>7. old \in Seq(TypedLines) /\ Len(old) = k.count /\ k.count \in Nat /\ k.recall \in 0..k.count
  BY <1>5, LinesType, FormedParts, KeyboardAssumption
<1>8. ASSUME NEW line, NEW cursor, Edits(k, m, line, cursor)
      PROVE  Editor!Edit(line, cursor)
  BY <1>4, <1>6, <1>8, Zenon DEF Edits, Editor!Edit, Browsed
<1>9. ASSUME NEW index, Recalls(k, m, index)
      PROVE  Editor!Recall(index)
  BY <1>4, <1>6, <1>9 DEF Recalls, Editor!Recall, Editor!Show, Browsed
<1>10. CASE Stays(k, m)
  BY <1>4, <1>6, <1>10, Zenon DEF Stays, Editor!vars, Browsed
<1>11. CASE MovesCursor(k, m)
  <2>1. Editor!Move
    BY <1>4, <1>6, <1>11, Zenon DEF MovesCursor, Editor!Move, Browsed
  <2> QED
    BY <2>1, Zenon DEF Editor!Next
<1>12. CASE Types(k, m)
  <2>1. Editor!Type
    BY <1>8, <1>12, Zenon DEF Types, Editor!Type, Editor!InsertAt, InsertAt
  <2> QED
    BY <2>1, Zenon DEF Editor!Next
<1>13. CASE Erases(k, m)
  <2>1. Editor!Erase
    BY <1>8, <1>13, Zenon DEF Erases, Editor!Erase, Editor!RemoveAt, RemoveAt
  <2> QED
    BY <2>1, Zenon DEF Editor!Next
<1>14. CASE GoesOlder(k, m)
  <2>1. Place = k.recall /\ old # << >>
    BY <1>4, <1>7, <1>14 DEF GoesOlder, Recalls, Browsed
  <2>2. Editor!Older
    BY <1>7, <1>9, <1>14, <2>1, Zenon DEF GoesOlder, Editor!Older
  <2> QED
    BY <2>2, Zenon DEF Editor!Next
<1>15. CASE GoesNewer(k, m)
  <2>1. Place = k.recall /\ Place \in 1..(Len(old) - 1)
    BY <1>4, <1>7, <1>15 DEF GoesNewer, Recalls, Browsed
  <2>2. Editor!Newer
    BY <1>9, <1>15, <2>1, Zenon DEF GoesNewer, Editor!Newer
  <2> QED
    BY <2>2, Zenon DEF Editor!Next
<1>16. CASE GoesBack(k, m)
  <2>1. Editor!BackToDraft
    BY <1>4, <1>6, <1>7, <1>16 DEF GoesBack, Editor!BackToDraft, Editor!Show, Browsed
  <2> QED
    BY <2>1, Zenon DEF Editor!Next
<1>17. CASE Ends(k, m)
  <2>1. Editor!Newest(Append(old, k.line)) = Newest(Append(old, k.line))
    BY Zenon DEF Editor!Newest, Newest
  <2>2. Editor!End
    BY <1>4, <1>17, <2>1, Zenon DEF Ends, Editor!End, Browsed
  <2> QED
    BY <2>2, Zenon DEF Editor!Next
<1> QED
  BY <1>2, <1>10, <1>11, <1>12, <1>13, <1>14, <1>15, <1>16, <1>17, Zenon DEF KeyEffect

LEMMA MainIsEditorStep ==
  ASSUME EditorInvariant, Main \/ Timer
  PROVE  Editor!Next \/ UNCHANGED Editor!vars
<1>1. TypeOK /\ Control /\ keyboard \in KeyboardType
  BY DEF EditorInvariant, PromptInvariant, TypeOK
<1>2. HistoryLines(keyboard') = HistoryLines(keyboard)
  BY <1>1, MainStep, HistoryDeterminesLines, Zenon
<1>3. CASE EmptyLine
  <2>1. /\ keyboard'.line = << >> /\ keyboard'.cursor = 0 /\ keyboard'.ready = keyboard.ready
        /\ pc = "empty" /\ pc' = "reopen"
    BY <1>1, <1>3 DEF EmptyLine, Goes, KeyboardType
  <2>2. Len(<< >>) = 0
    BY EmptySeq
  <2>3. (keyboard.ready /\ pc # "reopen")' = FALSE /\ Place' = 0
    BY <2>1, Zenon DEF Place, Beginning
  <2>4. Editor!Begin
    BY <1>2, <2>1, <2>2, <2>3, Zenon DEF Editor!Begin, Editor!Show
  <2> QED
    BY <2>4, Zenon DEF Editor!Next
<1>4. CASE ~EmptyLine
  <2>1. /\ keyboard'.line = keyboard.line /\ keyboard'.cursor = keyboard.cursor
        /\ keyboard'.saved = keyboard.saved
    <3>1. CASE Reopen \/ ForgetRecall
      BY <1>1, <3>1 DEF Reopen, ForgetRecall, KeyboardType
    <3>2. CASE BootEnds \/ Cli \/ Sti \/ Test \/ Take \/ Return \/ Timer
      BY <3>2 DEF BootEnds, Cli, Sti, Test, Take, Return, Timer
    <3> QED
      BY <1>4, <3>1, <3>2 DEF Main
  <2>2. Place' = Place /\ (keyboard.ready /\ pc # "reopen")' = (keyboard.ready /\ pc # "reopen")
    <3>1. CASE Reopen
      <4>1. ~keyboard'.ready /\ pc = "reopen" /\ pc' = "forget"
        BY <1>1, <3>1 DEF Reopen, Goes, KeyboardType
      <4> QED
        BY <4>1, Zenon DEF Place, Beginning
    <3>2. CASE ForgetRecall
      <4>1. /\ keyboard'.ready = keyboard.ready /\ keyboard'.recall = 0 /\ ~keyboard.ready
            /\ pc = "forget" /\ pc' = "enable"
        BY <1>1, <3>2 DEF ForgetRecall, Goes, KeyboardType, Control
      <4> QED
        BY <4>1 DEF Place, Beginning
    <3>3. CASE BootEnds \/ Cli \/ Sti \/ Test \/ Take \/ Return \/ Timer
      <4>1. keyboard' = keyboard /\ pc \notin {"reopen", "forget"}
        BY <1>1, <3>3 DEF BootEnds, Cli, Sti, Test, Take, Return, Timer, Goes, Control
      <4>2. pc' \notin {"reopen", "forget"}
        BY <3>3, <4>1 DEF BootEnds, Cli, Sti, Test, Take, Return, Timer, Goes, Woken
      <4> QED
        BY <4>1, <4>2, Zenon DEF Place, Beginning
    <3> QED
      BY <1>4, <3>1, <3>2, <3>3 DEF Main
  <2> QED
    BY <1>2, <2>1, <2>2, Zenon DEF Editor!vars
<1> QED
  BY <1>3, <1>4

\* The prompt with its interrupts is a line editor: keys are never lost or applied to
\* the shell's line, what was typed before the history was browsed comes back, and
\* the stores that begin a line are one step to who types (keyboard.c:110-190, 211).
THEOREM PromptImplementsEditor == Spec => ImplementsEditor
<1>1. Init => Editor!Init
  <2> SUFFICES ASSUME Init PROVE Editor!Init
    OBVIOUS
  <2>1. keyboard = ZeroKeyboard /\ pc = "boot" /\ HistoryLines(keyboard) = << >>
    BY EmptyHistory DEF Init
  <2>2. /\ keyboard.line = << >> /\ keyboard.cursor = 0 /\ keyboard.ready = FALSE
        /\ keyboard.recall = 0
    BY <2>1 DEF ZeroKeyboard
  <2> QED
    BY <2>1, <2>2 DEF Editor!Init, Place, Beginning
<1>2. EditorInvariant /\ [Next]_vars => [Editor!Next]_(Editor!vars)
  <2> SUFFICES ASSUME EditorInvariant, [Next]_vars
               PROVE  Editor!Next \/ UNCHANGED Editor!vars
    OBVIOUS
  <2>1. CASE UNCHANGED vars
    BY <2>1 DEF vars, Editor!vars, HistoryLines, HistorySlot, Place, Beginning
  <2> QED
    BY <2>1, KeyIsEditorStep, MainIsEditorStep, Zenon DEF Next
<1> QED
  BY EditorInvariantHolds, <1>1, <1>2, PTL DEF Spec, ImplementsEditor, Editor!Spec
=============================================================================
