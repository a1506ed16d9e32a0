------------------------------- MODULE Ledger -------------------------------
(***************************************************************************)
(* The ledger API of LedgerApi.tla called one operation at a time, in the  *)
(* orders the kernel's callers keep to: what event.c and object.c promise  *)
(* whoever calls them.                                                     *)
(***************************************************************************)
EXTENDS LedgerApi

CONSTANTS
  Span,          \* bound of the model: callers name one of the newest Span events
  Reports,       \* what callers say of an event, its cause left out
  Owners         \* who begins transactions, on what

ASSUME CallerAssumption ==
  /\ Span \in Nat
  /\ Reports \subseteq [actor : Labels, target : Labels, op : Operations,
                         result : Results, kind : Kinds]
  /\ Owners \subseteq [actor : Labels, target : Labels]

VARIABLE ledger

vars == <<ledger>>

InRange == ledger.next \in 2..MaxSeq

\* What a caller may name as a cause: an event recorded so far, 0 for none.
Causes == {0} \cup {event \in 1..(ledger.next - 1) : ledger.next - event <= Span}

IsOpen(id) == \E i \in DOMAIN ledger.txs : /\ ledger.txs[i].id = id
                                           /\ ledger.txs[i].status = "open"

\* Seeded fault: a caller goes on recording under the transaction it closed.
Unsettled == TRUE

\* Callers that close a transaction then call event_set_transaction(0) before
\* they record anything else (main.c, policy.c, user.c).
Settled == ledger.tx = 0 \/ IsOpen(ledger.tx)

Init == ledger = EmptyLedger

\* kernel_main records its entry before the registry exists; the first objects
\* are then created by that event (only the ledger's own is kept here).
BootReport == Report("boot", "kernel", "enter", "ok", 0, "action")

EnterKernel ==
  /\ ledger = EmptyLedger
  /\ ledger' = Register(SetCurrent(Record(ledger, BootReport), 1),
                        "events", 0, "recording", 1)

RecordEvent ==
  /\ InRange /\ Settled
  /\ \E said \in Reports, parent \in Causes :
       ledger' = Record(ledger, Report(said.actor, said.target, said.op,
                                       said.result, parent, said.kind))

RegisterObject ==
  /\ ledger # EmptyLedger
  /\ \E name \in Names, state \in States :
       ledger' = Register(ledger, name, ObjectId(ledger, "events"), state,
                          ledger.current)

UpdateObject ==
  /\ InRange /\ Settled
  /\ \E name \in Names, state \in States :
       ledger' = UpdateState(ledger, name, state)

BeginTransaction ==
  /\ InRange /\ Settled
  /\ \E owner \in Owners, parent \in Causes :
       ledger' = Begin(ledger, owner.actor, owner.target, parent)

CommitTransaction ==
  /\ InRange
  /\ \E id \in 1..MaxSeq : IsOpen(id) /\ ledger' = Commit(ledger, id)

AbortTransaction ==
  /\ InRange
  /\ \E id \in 1..MaxSeq : IsOpen(id) /\ ledger' = Abort(ledger, id)

SetCurrentEvent ==
  \E event \in Causes : ledger' = SetCurrent(ledger, event)

SetCurrentTransaction ==
  \E id \in 0..MaxSeq : (id = 0 \/ IsOpen(id)) /\ ledger' = SetTx(ledger, id)

Next == \/ EnterKernel
        \/ RecordEvent
        \/ RegisterObject
        \/ UpdateObject
        \/ BeginTransaction
        \/ CommitTransaction
        \/ AbortTransaction
        \/ SetCurrentEvent
        \/ SetCurrentTransaction

Spec == Init /\ [][Next]_vars

(***************************************************************************)
(* Properties.                                                             *)
(***************************************************************************)
\* The ledger keeps its types: indices inside the arrays, counters natural.
TypeOK == ledger \in LedgerType

\* The ring holds the newest events, oldest first, numbered without a gap:
\* what event_at, event_find and the queries built on them rely on
\* (event.c:126-128, 226).
RingIsWindow == Consecutive(ledger)

\* An event carries a transaction only between its begin and its end, the begin
\* event is the one that gave the transaction its id, and the end is the last
\* event carrying it, however calls interleave with restores of an outer
\* transaction (event.c:141-144, 154-181).
TransactionEnvelope == Enveloped(ledger)

\* The ring, the transaction table and the registry tell the same story of a
\* closed transaction (event.c:183-223).
ClosedTransactionsAgree == ClosedAgree(ledger)

\* The history of an object never runs backwards, whoever updates it
\* (event.c:135, object.c:76-93).
RevisionsInOrder == Ordered(ledger)

\* A closed transaction is never reopened, closed again or extended
\* (event.c:183-223).
ClosedIsFinal ==
  [][ \A k \in DOMAIN ledger.txs :
        ledger.txs[k].status # "open" => ledger'.txs[k] = ledger.txs[k] ]_vars

\* Objects are never dropped, renamed or given another id, and an object's
\* state changes only with its revision, by the newest event
\* (object.c:55-93).
RevisionsAccountForChanges ==
  [][ \A i \in DOMAIN ledger.objects :
        LET old == ledger.objects[i]
            new == ledger'.objects[i]
        IN  /\ new.id = old.id /\ new.name = old.name /\ new.created = old.created
            /\ new # old => /\ new.rev = old.rev + 1
                            /\ new.last = ledger'.next - 1
                            /\ ledger'.next = ledger.next + 1 ]_vars

\* The ring implements the append-only window of EventWindow.tla
\* (event.c:125-147).
Window == INSTANCE EventWindow WITH Capacity <- EventCap,
                                    issued <- ledger.next - 1,
                                    window <- Retained(ledger)
ImplementsWindow == Window!Spec
=============================================================================
