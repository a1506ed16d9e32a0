--------------------------- MODULE KeyboardProofs ---------------------------
(***************************************************************************)
(* Proofs about the keys of Keyboard.tla, for every capacity of the line   *)
(* and of the history and every set of letters: each scancode keeps a      *)
(* keyboard well formed (Formed), so neither the line nor a slot of the    *)
(* history leaves its array.                                               *)
(***************************************************************************)
EXTENDS Keyboard, SequenceTheorems, TLAPS

\* A keyboard with its cursor in its line, and its place in the history in the history.
Formed(k) == k \in KeyboardType /\ k.cursor <= Len(k.line) /\ k.recall <= k.count

(***************************************************************************)
(* Lines.                                                                  *)
(***************************************************************************)
\* The lines typed are the sequences of characters that leave room for the zero.
LEMMA LineType ==
  \A s : s \in TypedLines <=> s \in Seq(Characters) /\ Len(s) \in 0..(LineCap - 1)
<1>1. ASSUME NEW s \in TypedLines
      PROVE  s \in Seq(Characters) /\ Len(s) \in 0..(LineCap - 1)
  <2>1. PICK length \in 0..(LineCap - 1) : s \in [1..length -> Characters]
    BY <1>1 DEF TypedLines
  <2>2. length \in Nat
    BY KeyboardAssumption
  <2>3. s \in Seq(Characters)
    BY <2>1, <2>2, SeqDef, Zenon
  <2> QED
    BY <2>1, <2>2, <2>3, LenProperties
<1>2. ASSUME NEW s \in Seq(Characters), Len(s) \in 0..(LineCap - 1)
      PROVE  s \in TypedLines
  <2>1. s \in [1..Len(s) -> Characters]
    BY <1>2, LenProperties
  <2> QED
    BY <1>2, <2>1, Zenon DEF TypedLines
<1> QED
  BY <1>1, <1>2

\* Before and after a place a line has its characters and no others.
LEMMA PartOfLine ==
  ASSUME NEW line \in Seq(Characters), NEW m \in 1..(Len(line) + 2), NEW n \in 0..Len(line)
  PROVE  /\ SubSeq(line, m, n) \in Seq(Characters)
         /\ Len(SubSeq(line, m, n)) = IF m <= n THEN n - m + 1 ELSE 0
<1>1. Len(line) \in Nat /\ m \in Int /\ n \in Int
  BY LenProperties
<1>2. \A i \in m..n : line[i] \in Characters
  BY <1>1, ElementOfSeq
<1> QED
  BY <1>1, <1>2, SubSeqProperties, Zenon

\* A character inserted lengthens a line by one.
LEMMA InsertedLine ==
  ASSUME NEW line \in TypedLines, NEW at \in 0..Len(line), NEW character \in Characters,
         Len(line) < LineCap - 1
  PROVE  /\ InsertAt(line, at + 1, character) \in TypedLines
         /\ Len(InsertAt(line, at + 1, character)) = Len(line) + 1
<1> DEFINE before == SubSeq(line, 1, (at + 1) - 1)
           after == SubSeq(line, at + 1, Len(line))
<1>1. line \in Seq(Characters) /\ Len(line) \in Nat /\ LineCap \in Nat
  BY LineType, LenProperties, KeyboardAssumption
<1>2. before \in Seq(Characters) /\ Len(before) = at
  BY <1>1, PartOfLine
<1>3. after \in Seq(Characters) /\ Len(after) = Len(line) - at
  BY <1>1, PartOfLine
<1>4. <<character>> \in Seq(Characters) /\ Len(<<character>>) = 1
  BY Zenon, SMT
<1> HIDE DEF before, after
<1>5. before \o <<character>> \in Seq(Characters) /\ Len(before \o <<character>>) = at + 1
  BY <1>2, <1>4, ConcatProperties
<1>6. /\ (before \o <<character>>) \o after \in Seq(Characters)
      /\ Len((before \o <<character>>) \o after) = Len(line) + 1
  <2>1. /\ (before \o <<character>>) \o after \in Seq(Characters)
        /\ Len((before \o <<character>>) \o after) = Len(before \o <<character>>) + Len(after)
    BY <1>3, <1>5, ConcatProperties, Zenon
  <2>2. (at + 1) + (Len(line) - at) = Len(line) + 1
    BY <1>1
  <2> QED
    BY <1>3, <1>5, <2>1, <2>2, Zenon
<1>7. InsertAt(line, at + 1, character) = (before \o <<character>>) \o after
  BY Zenon DEF InsertAt, before, after
<1>8. Len(line) + 1 \in 0..(LineCap - 1)
  BY <1>1
<1> QED
  BY <1>6, <1>7, <1>8, LineType, Zenon

\* A character removed shortens it by one.
LEMMA RemovedLine ==
  ASSUME NEW line \in TypedLines, NEW at \in 0..Len(line), at < Len(line)
  PROVE  /\ RemoveAt(line, at + 1) \in TypedLines
         /\ Len(RemoveAt(line, at + 1)) = Len(line) - 1
<1> DEFINE before == SubSeq(line, 1, (at + 1) - 1)
           after == SubSeq(line, (at + 1) + 1, Len(line))
<1>1. line \in Seq(Characters) /\ Len(line) \in Nat /\ Len(line) < LineCap /\ LineCap \in Nat
  BY LineType, LenProperties, KeyboardAssumption
<1>2. before \in Seq(Characters) /\ Len(before) = at
  BY <1>1, PartOfLine
<1>3. after \in Seq(Characters) /\ Len(after) = Len(line) - at - 1
  BY <1>1, PartOfLine
<1> HIDE DEF before, after
<1>4. before \o after \in Seq(Characters) /\ Len(before \o after) = Len(line) - 1
  <2>1. before \o after \in Seq(Characters) /\ Len(before \o after) = Len(before) + Len(after)
    BY <1>2, <1>3, ConcatProperties, Zenon
  <2>2. at + (Len(line) - at - 1) = Len(line) - 1
    BY <1>1
  <2> QED
    BY <1>2, <1>3, <2>1, <2>2, Zenon
<1>5. RemoveAt(line, at + 1) = before \o after
  BY Zenon DEF RemoveAt, before, after
<1>6. Len(line) - 1 \in 0..(LineCap - 1)
  BY <1>1
<1> QED
  BY <1>4, <1>5, <1>6, LineType, Zenon

\* The empty line.
LEMMA EmptyLineTyped == << >> \in TypedLines /\ Len(<< >>) = 0
<1>1. << >> \in Seq(Characters) /\ Len(<< >>) = 0
  BY EmptySeq, Zenon
<1>2. 0 \in 0..(LineCap - 1)
  BY KeyboardAssumption
<1> QED
  BY <1>1, <1>2, LineType, Zenon

(***************************************************************************)
(* Keys.                                                                   *)
(***************************************************************************)
\* What the later proofs need to know of a well-formed keyboard.
LEMMA FormedParts ==
  ASSUME NEW k, Formed(k)
  PROVE  /\ k.line \in TypedLines /\ k.saved \in TypedLines
         /\ k.history \in [0..(HistoryCap - 1) -> TypedLines]
         /\ Len(k.line) \in 0..(LineCap - 1) /\ k.cursor \in 0..Len(k.line)
         /\ k.count \in 0..HistoryCap /\ k.next \in 0..(HistoryCap - 1)
         /\ k.recall \in 0..k.count
         /\ k.ready \in BOOLEAN /\ k.extended \in BOOLEAN /\ k.shift \in BOOLEAN
<1>1. k.line \in TypedLines
  BY DEF Formed, KeyboardType
<1>2. Len(k.line) \in 0..(LineCap - 1)
  BY <1>1, LineType, Zenon
<1> QED
  BY <1>1, <1>2, KeyboardAssumption DEF Formed, KeyboardType

\* A line put in the place of the line edited, with the cursor somewhere in it.
LEMMA LineChanged ==
  ASSUME NEW k, Formed(k), NEW line \in TypedLines, NEW cursor \in 0..Len(line),
         NEW recall \in 0..k.count
  PROVE  Formed([k EXCEPT !.line = line, !.cursor = cursor, !.recall = recall])
<1>1. Len(line) \in 0..(LineCap - 1)
  BY LineType, Zenon
<1>2. cursor \in 0..(LineCap - 1) /\ cursor <= Len(line)
  BY <1>1, KeyboardAssumption
<1>3. recall \in 0..HistoryCap /\ recall <= k.count
  BY FormedParts, KeyboardAssumption
<1>4. k \in KeyboardType
  BY DEF Formed
<1> DEFINE new == [k EXCEPT !.line = line, !.cursor = cursor, !.recall = recall]
<1>5. new \in KeyboardType
  BY <1>2, <1>3, <1>4 DEF KeyboardType
<1>6. new.line = line /\ new.cursor = cursor /\ new.recall = recall /\ new.count = k.count
  BY <1>4 DEF KeyboardType
<1> QED
  BY <1>2, <1>3, <1>5, <1>6 DEF Formed

\* The slot of an entry is in the array.
LEMMA RecalledType ==
  ASSUME NEW k, Formed(k), k.recall # 0
  PROVE  Recalled(k) \in TypedLines
<1>1. HistoryCap \in Nat \ {0} /\ k.next + HistoryCap - k.count + k.recall - 1 \in Nat
  BY FormedParts, KeyboardAssumption
<1>2. HistorySlot(k, k.recall) \in 0..(HistoryCap - 1)
  BY <1>1 DEF HistorySlot
<1> QED
  BY <1>2, FormedParts DEF Recalled

LEMMA ReplaceFormed ==
  ASSUME NEW k, Formed(k), NEW line \in TypedLines
  PROVE  Formed(Replace(k, line))
<1>1. Len(line) \in 0..Len(line)
  BY LineType
<1>2. Replace(k, line) = [k EXCEPT !.line = line, !.cursor = Len(line), !.recall = k.recall]
  BY DEF Replace, Formed, KeyboardType
<1>3. k.recall \in 0..k.count
  BY FormedParts
<1>4. Formed([k EXCEPT !.line = line, !.cursor = Len(line), !.recall = k.recall])
  BY <1>1, <1>3, LineChanged, Zenon
<1> QED
  BY <1>2, <1>4, Zenon

LEMMA RememberFormed ==
  ASSUME NEW k, Formed(k)
  PROVE  Formed(Remember(k)) /\ Remember(k).line = k.line
<1>1. k \in KeyboardType
  BY DEF Formed
<1>2. (k.next + 1) % HistoryCap \in 0..(HistoryCap - 1)
  BY FormedParts, KeyboardAssumption
<1>3. k.count < HistoryCap => k.count + 1 \in 0..HistoryCap
  BY FormedParts, KeyboardAssumption
<1> DEFINE new == [k EXCEPT !.history[k.next] = k.line,
                            !.next = (@ + 1) % HistoryCap,
                            !.count = IF @ < HistoryCap THEN @ + 1 ELSE @]
<1>4. [k.history EXCEPT ![k.next] = k.line] \in [0..(HistoryCap - 1) -> TypedLines]
  BY FormedParts, Zenon
<1>5. new \in KeyboardType
  BY <1>1, <1>2, <1>3, <1>4 DEF KeyboardType
<1>6. new.line = k.line /\ new.cursor = k.cursor /\ new.recall = k.recall /\ k.count <= new.count
  BY <1>1, FormedParts, KeyboardAssumption DEF KeyboardType
<1>7. k.cursor <= Len(k.line) /\ k.recall <= new.count
  BY <1>5, <1>6, FormedParts, KeyboardAssumption DEF KeyboardType
<1>8. Formed(new)
  BY <1>5, <1>6, <1>7 DEF Formed
<1> HIDE DEF new
<1>9. Remember(k) = IF k.line = << >> THEN k ELSE new
  BY Zenon DEF Remember, new
<1> QED
  BY <1>6, <1>8, <1>9, Zenon

\* Browsing the history, and the keys that edit.
LEMMA HistoryFormed ==
  ASSUME NEW k, Formed(k)
  PROVE  Formed(HistoryUp(k)) /\ Formed(HistoryDown(k))
<1>1. k \in KeyboardType /\ k.recall \in 0..k.count /\ k.count \in 0..HistoryCap
  BY FormedParts DEF Formed
<1> DEFINE kept == [k EXCEPT !.saved = k.line, !.recall = k.count]
           back == [k EXCEPT !.recall = @ - 1]
           on == [k EXCEPT !.recall = @ + 1]
           out == [k EXCEPT !.recall = 0]
<1>2. k.count # 0 => Formed(kept) /\ kept.recall # 0
  <2>1. k.line \in TypedLines /\ k.cursor <= Len(k.line) /\ k.count <= k.count
    BY FormedParts
  <2>2. kept \in KeyboardType
    BY <1>1, <2>1 DEF KeyboardType
  <2>3. kept.line = k.line /\ kept.cursor = k.cursor /\ kept.recall = k.count /\ kept.count = k.count
    BY <1>1 DEF KeyboardType
  <2> QED
    BY <2>1, <2>2, <2>3 DEF Formed
<1>3. k.recall > 1 => Formed(back) /\ back.recall # 0
  BY <1>1, FormedParts, KeyboardAssumption DEF Formed, KeyboardType
<1>4. k.recall < k.count => Formed(on) /\ on.recall # 0
  BY <1>1, FormedParts, KeyboardAssumption DEF Formed, KeyboardType
<1>5. Formed(out)
  BY <1>1, FormedParts, KeyboardAssumption DEF Formed, KeyboardType
<1> HIDE DEF kept, back, on, out
<1> DEFINE older == IF k.recall = 0 THEN kept ELSE IF k.recall > 1 THEN back ELSE k
<1>6. k.count # 0 => Formed(older) /\ older.recall # 0
  BY <1>2, <1>3
<1> HIDE DEF older
<1>7. HistoryUp(k) = IF k.count = 0 THEN k ELSE Replace(older, Recalled(older))
  BY Zenon DEF HistoryUp, older, kept, back
<1>8. Formed(HistoryUp(k))
  BY <1>6, <1>7, RecalledType, ReplaceFormed, Zenon
<1>9. HistoryDown(k) = IF k.recall = 0 THEN k
                       ELSE IF k.recall < k.count THEN Replace(on, Recalled(on))
                       ELSE Replace(out, k.saved)
  BY Zenon DEF HistoryDown, on, out
<1>10. Formed(HistoryDown(k))
  BY <1>4, <1>5, <1>9, RecalledType, ReplaceFormed, FormedParts, Zenon
<1> QED
  BY <1>8, <1>10

LEMMA InsertFormed ==
  ASSUME NEW k, Formed(k), NEW character \in Characters
  PROVE  Formed(Insert(k, character))
<1>1. CASE Len(k.line) >= LineCap - 1
  BY <1>1, Zenon DEF Insert
<1>2. CASE ~(Len(k.line) >= LineCap - 1)
  <2> DEFINE line == InsertAt(k.line, k.cursor + 1, character)
  <2>1. k.line \in TypedLines /\ k.cursor \in 0..Len(k.line) /\ Len(k.line) \in Nat
    BY FormedParts
  <2>2. Len(k.line) < LineCap - 1
    BY <1>2, <2>1, KeyboardAssumption
  <2>3. line \in TypedLines /\ Len(line) = Len(k.line) + 1
    BY <2>1, <2>2, InsertedLine, Zenon
  <2> HIDE DEF line
  <2>4. k.cursor + 1 \in 0..Len(line) /\ 0 \in 0..k.count
    BY <2>1, <2>3, FormedParts
  <2>5. Formed([k EXCEPT !.line = line, !.cursor = k.cursor + 1, !.recall = 0])
    BY <2>3, <2>4, LineChanged, Zenon
  <2>6. Insert(k, character) = [k EXCEPT !.line = line, !.cursor = k.cursor + 1, !.recall = 0]
    BY <1>2 DEF Insert, line, Formed, KeyboardType
  <2> QED
    BY <2>5, <2>6, Zenon
<1> QED
  BY <1>1, <1>2

LEMMA DeleteFormed ==
  ASSUME NEW k, Formed(k)
  PROVE  Formed(Delete(k))
<1>1. CASE k.cursor >= Len(k.line)
  BY <1>1, Zenon DEF Delete
<1>2. CASE ~(k.cursor >= Len(k.line))
  <2> DEFINE line == RemoveAt(k.line, k.cursor + 1)
  <2>1. k.line \in TypedLines /\ k.cursor \in 0..Len(k.line) /\ Len(k.line) \in Nat
    BY FormedParts
  <2>2. k.cursor < Len(k.line)
    BY <1>2, <2>1
  <2>3. line \in TypedLines /\ Len(line) = Len(k.line) - 1
    BY <2>1, <2>2, RemovedLine, Zenon
  <2> HIDE DEF line
  <2>4. k.cursor \in 0..Len(line) /\ 0 \in 0..k.count
    BY <2>1, <2>2, <2>3, FormedParts
  <2>5. Formed([k EXCEPT !.line = line, !.cursor = k.cursor, !.recall = 0])
    BY <2>3, <2>4, LineChanged, Zenon
  <2>6. Delete(k) = [k EXCEPT !.line = line, !.cursor = k.cursor, !.recall = 0]
    BY <1>2 DEF Delete, line, Formed, KeyboardType
  <2> QED
    BY <2>5, <2>6, Zenon
<1> QED
  BY <1>1, <1>2

\* The cursor moves within the line.
LEMMA MoveFormed ==
  ASSUME NEW k, Formed(k), NEW cursor \in 0..Len(k.line)
  PROVE  Formed([k EXCEPT !.cursor = cursor])
<1>1. k.line \in TypedLines /\ k.recall \in 0..k.count
  BY FormedParts
<1>2. Formed([k EXCEPT !.line = k.line, !.cursor = cursor, !.recall = k.recall])
  BY <1>1, LineChanged, Zenon
<1>3. [k EXCEPT !.cursor = cursor]
        = [k EXCEPT !.line = k.line, !.cursor = cursor, !.recall = k.recall]
  BY DEF Formed, KeyboardType
<1> QED
  BY <1>2, <1>3, Zenon

LEMMA BackspaceFormed ==
  ASSUME NEW k, Formed(k)
  PROVE  Formed(Backspace(k))
<1>1. k.cursor # 0 => k.cursor - 1 \in 0..Len(k.line)
  BY FormedParts
<1>2. k.cursor # 0 => Formed([k EXCEPT !.cursor = k.cursor - 1])
  BY <1>1, MoveFormed, Zenon
<1>3. [k EXCEPT !.cursor = @ - 1] = [k EXCEPT !.cursor = k.cursor - 1]
  OBVIOUS
<1> QED
  BY <1>2, <1>3, DeleteFormed, Zenon DEF Backspace

LEMMA EnterFormed ==
  ASSUME NEW k, Formed(k)
  PROVE  Formed(Enter(k)) /\ Enter(k).line = k.line
<1> DEFINE ended == [k EXCEPT !.cursor = Len(k.line)]
<1>1. Len(k.line) \in 0..Len(k.line)
  BY FormedParts
<1>2. Formed(ended)
  BY <1>1, MoveFormed, Zenon
<1>3. ended.line = k.line
  BY DEF Formed, KeyboardType
<1> HIDE DEF ended
<1>4. Formed(Remember(ended)) /\ Remember(ended).line = k.line
  BY <1>2, <1>3, RememberFormed, Zenon
<1>5. Enter(k) = [Remember(ended) EXCEPT !.ready = TRUE]
  BY Zenon DEF Enter, ended
<1> QED
  BY <1>4, <1>5 DEF Formed, KeyboardType

\* The flags are no part of what makes a keyboard well formed.
LEMMA FlagsFormed ==
  ASSUME NEW k, Formed(k), NEW flag \in BOOLEAN
  PROVE  /\ Formed([k EXCEPT !.extended = flag])
         /\ Formed([k EXCEPT !.shift = flag])
BY DEF Formed, KeyboardType

\* Each key.
LEMMA PressExtendedFormed ==
  ASSUME NEW k, Formed(k), NEW code
  PROVE  Formed(PressExtended(k, code))
<1>1. k.cursor \in 0..Len(k.line) /\ Len(k.line) \in Nat
  BY FormedParts
<1> DEFINE left == IF k.cursor > 0 THEN k.cursor - 1 ELSE 0
           right == IF k.cursor < Len(k.line) THEN k.cursor + 1 ELSE k.cursor
<1>2. /\ left \in 0..Len(k.line) /\ right \in 0..Len(k.line)
      /\ 0 \in 0..Len(k.line) /\ Len(k.line) \in 0..Len(k.line)
  BY <1>1
<1> HIDE DEF left, right
<1>3. /\ Formed([k EXCEPT !.cursor = left]) /\ Formed([k EXCEPT !.cursor = right])
      /\ Formed([k EXCEPT !.cursor = 0]) /\ Formed([k EXCEPT !.cursor = Len(k.line)])
  BY <1>2, MoveFormed, Zenon
<1>4. /\ Formed(HistoryUp(k)) /\ Formed(HistoryDown(k)) /\ Formed(Delete(k))
  BY HistoryFormed, DeleteFormed, Zenon
<1>5. PressExtended(k, code) \in
        {[k EXCEPT !.cursor = left], [k EXCEPT !.cursor = right], [k EXCEPT !.cursor = 0],
         [k EXCEPT !.cursor = Len(k.line)], HistoryUp(k), HistoryDown(k), Delete(k), k}
  BY DEF PressExtended, left, right
<1> QED
  BY <1>3, <1>4, <1>5, Zenon

LEMMA PressFormed ==
  ASSUME NEW k, Formed(k), NEW code
  PROVE  Formed(Press(k, code))
<1> DEFINE character == IF k.shift THEN Shifted(code) ELSE code
<1>1. code \in Letters => character \in Characters
  BY Zenon DEF Characters
<1> HIDE DEF character
<1>2. code \in Letters => Formed(Insert(k, character))
  BY <1>1, InsertFormed, Zenon
<1>3. Formed(Enter(k)) /\ Formed(Backspace(k))
  BY EnterFormed, BackspaceFormed, Zenon
<1>4. \/ Press(k, code) \in {Enter(k), Backspace(k), k}
      \/ code \in Letters /\ Press(k, code) = Insert(k, character)
  BY DEF Press, character
<1> QED
  BY <1>2, <1>3, <1>4, Zenon

\* What any scancode leaves of the keyboard, and that nothing it does moves a line
\* that is ready.
LEMMA HandleFormed ==
  ASSUME NEW k, Formed(k), NEW code
  PROVE  /\ Formed(Handle(k, code))
         /\ k.ready => Handle(k, code).line = k.line /\ Handle(k, code).ready
<1> DEFINE pressed == IF k.extended THEN PressExtended(k, code) ELSE Press(k, code)
           shifted == [k EXCEPT !.shift = code = "shift"]
           begun == [k EXCEPT !.extended = TRUE]
           ended == [k EXCEPT !.extended = FALSE]
           handled == [pressed EXCEPT !.extended = FALSE]
<1>1. Formed(pressed)
  BY PressExtendedFormed, PressFormed, Zenon
<1> HIDE DEF pressed
<1>2. Formed(handled) /\ Formed(begun) /\ Formed(ended) /\ Formed(shifted)
  BY <1>1, FlagsFormed, Zenon
<1>3. /\ begun.line = k.line /\ begun.ready = k.ready
      /\ ended.line = k.line /\ ended.ready = k.ready
      /\ shifted.line = k.line /\ shifted.ready = k.ready
  BY DEF Formed, KeyboardType
<1> HIDE DEF shifted, begun, ended, handled
<1>4. Handle(k, code) = IF code = "extend" THEN begun
                        ELSE IF code \in {"shift", "unshift"} THEN shifted
                        ELSE IF code = "release" \/ k.ready THEN ended ELSE handled
  BY Zenon DEF Handle, begun, shifted, ended, handled, pressed
<1> QED
  BY <1>2, <1>3, <1>4, Zenon

\* The keyboard there is at first.
LEMMA ZeroFormed == Formed(ZeroKeyboard)
<1>1. << >> \in TypedLines /\ Len(<< >>) = 0 /\ LineCap \in Nat \ {0} /\ HistoryCap \in Nat \ {0}
  BY EmptyLineTyped, KeyboardAssumption
<1>2. ZeroKeyboard.history \in [0..(HistoryCap - 1) -> TypedLines]
  BY <1>1 DEF ZeroKeyboard
<1> QED
  BY <1>1, <1>2 DEF Formed, KeyboardType, ZeroKeyboard
=============================================================================
