---------------------------- MODULE EventWindow ----------------------------
(***************************************************************************)
(* What the event ledger promises its readers (events, history, why): a    *)
(* window on an append-only log.  The window holds the newest events,      *)
(* oldest first and numbered without a gap; an event that is in the window *)
(* never changes, leaves it only from the old end and only when the window *)
(* is full; and an event names a cause recorded before it, or none (0).    *)
(*                                                                         *)
(* Ledger.tla is shown to implement this specification.                    *)
(***************************************************************************)
EXTENDS Naturals, Sequences

CONSTANT Capacity      \* how many events are retained

VARIABLES issued,      \* the number of the newest event ever recorded
          window       \* the retained events, oldest first

Init == issued = 0 /\ window = << >>

Newest(log) == IF Len(log) > Capacity THEN Tail(log) ELSE log

Note ==
  /\ issued' = issued + 1
  /\ window' # << >>
  /\ LET event == window'[Len(window')]
     IN  /\ event.seq = issued + 1
         /\ event.parent \in 0..issued
         /\ window' = Newest(Append(window, event))

Spec == Init /\ [][Note]_<<issued, window>>
=============================================================================
