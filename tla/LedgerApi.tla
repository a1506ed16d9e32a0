----------------------------- MODULE LedgerApi -----------------------------
(***************************************************************************)
(* The truth ledger of GlassOS: the event ring and the transaction table   *)
(* of src/kernel/event.c and the object registry of src/kernel/object.c.   *)
(* The two files call each other on every operation (an event stamps the   *)
(* ids and the revision of the objects it names; a state update and a      *)
(* transaction record events), so they are one record, and an API call is  *)
(* an operator from a ledger to the ledger it leaves.                      *)
(*                                                                         *)
(* Ledger.tla calls the API in every order its callers keep to;            *)
(* TruthShell.tla composes the calls into the boot sequence and the        *)
(* commands of the shell.                                                  *)
(***************************************************************************)
EXTENDS Naturals, Sequences, SequencesExt

CONSTANTS
  EventCap,      \* EVENT_CAPACITY, 128 in the kernel
  TxCap,         \* TRANSACTION_CAPACITY, 32 in the kernel
  ObjCap,        \* OBJECT_CAPACITY, 128 in the kernel
  MaxSeq,        \* bound of the model: no event is recorded beyond this number
  Queries,       \* the actors and targets callers name: object names, ids, others
  Names,         \* the names callers register objects under
  Operations,    \* what the events say was done
  States,        \* the states callers give objects
  TxName(_),     \* transaction_name: "transaction/" and the decimal number
  ParseId(_)     \* parse_id: the number a query spells, 0 if it spells none

TxNames == {TxName(id) : id \in 1..MaxSeq}

ASSUME CapacityAssumption ==
  /\ EventCap \in Nat \ {0}
  /\ TxCap \in Nat
  /\ ObjCap \in Nat
  /\ MaxSeq \in Nat

ASSUME OperationAssumption ==
  {"enter", "begin", "commit", "abort", "state_update"} \subseteq Operations

ASSUME NameAssumption ==
  /\ "events" \in Names /\ "recording" \in States
  /\ {"boot", "kernel"} \subseteq Queries
  /\ Names \cap TxNames = {}
  /\ \A i, j \in 1..MaxSeq : TxName(i) = TxName(j) => i = j
  /\ \A query \in Queries \cup Names \cup TxNames : ParseId(query) \in Nat
  /\ \A name \in Names \cup TxNames : ParseId(name) = 0

(***************************************************************************)
(* Types.                                                                  *)
(***************************************************************************)
Results == {"ok", "denied", "fault"}
Kinds == {"", "action", "state", "query", "command", "policy", "transaction",
          "syscall", "fault"}
Statuses == {"open", "committed", "aborted"}
ObjectNames == Names \cup TxNames
ObjectStates == States \cup Statuses
Labels == Queries \cup ObjectNames \cup {"", "object"}

Event == [seq : Nat, parent : Nat, tx : Nat, actor : Labels, actorId : Nat,
          target : Labels, targetId : Nat, rev : Nat, op : Operations \cup {""},
          result : Results, kind : Kinds]

Transaction == [id : Nat, parent : Nat, begin : Nat, end : Nat,
                started : Nat, committed : Nat,
                actor : Labels, target : Labels, status : Statuses]

Object == [id : Nat, name : ObjectNames, parent : Nat, rev : Nat,
           state : ObjectStates, created : Nat, last : Nat]

LedgerType == [entries : [0..(EventCap - 1) -> Event],
               first : 0..(EventCap - 1),
               count : 0..EventCap,
               next : Nat \ {0},
               current : Nat,
               tx : Nat,
               txs : Seq(Transaction),
               objects : Seq(Object)]

(***************************************************************************)
(* The object registry (object.c).                                         *)
(***************************************************************************)
\* object_find: the position of the first object with that id or that name.
ObjectIndex(l, query) ==
  SelectInSeq(l.objects, LAMBDA object : \/ object.name = query
                                         \/ /\ ParseId(query) # 0
                                            /\ object.id = ParseId(query))

Known(l, query) == ObjectIndex(l, query) # 0

ObjectId(l, query) ==
  IF Known(l, query) THEN l.objects[ObjectIndex(l, query)].id ELSE 0

Revision(l, query) ==
  IF Known(l, query) THEN l.objects[ObjectIndex(l, query)].rev ELSE 0

\* Seeded fault: registering a known name makes the object afresh.
RegisterAfresh(l, name, parent, state, created) ==
  IF Known(l, name)
  THEN [l EXCEPT !.objects[ObjectIndex(l, name)] =
         [@ EXCEPT !.rev = 1, !.state = state, !.created = created, !.last = created]]
  ELSE [l EXCEPT !.objects =
         Append(@, [id |-> Len(@) + 1, name |-> name, parent |-> parent, rev |-> 1,
                    state |-> state, created |-> created, last |-> created])]

\* object_register: the capacity is tested before the name is looked up.
Register(l, name, parent, state, created) ==
  IF Len(l.objects) >= ObjCap \/ Known(l, name)
  THEN l
  ELSE [l EXCEPT !.objects =
         Append(@, [id |-> Len(@) + 1, name |-> name, parent |-> parent,
                    rev |-> 1, state |-> state,
                    created |-> created, last |-> created])]

\* Objects registered in turn under one parent, by the current event: each is a
\* name and a state.
RegisterAll(l, parent, objects) ==
  LET after[i \in 0..Len(objects)] ==
        IF i = 0 THEN l
        ELSE Register(after[i - 1], objects[i][1], parent, objects[i][2], l.current)
  IN  after[Len(objects)]

\* Seeded fault: the state changes and the revision does not.
SetStateUncounted(l, index, state) == [l EXCEPT !.objects[index].state = state]

SetState(l, index, state) ==
  [l EXCEPT !.objects[index].state = state, !.objects[index].rev = @ + 1]

SetLast(l, index, event) == [l EXCEPT !.objects[index].last = event]

\* object_set_state_direct: the caller has already recorded the event.
SetStateDirect(l, name, state, event) ==
  LET index == ObjectIndex(l, name)
  IN  IF index = 0 THEN l ELSE SetLast(SetState(l, index, state), index, event)

(***************************************************************************)
(* The event ring (event.c).                                               *)
(***************************************************************************)
Slot(l, i) == (l.first + i) % EventCap

\* event_at and event_find, as the sequence of the events still retained.
Retained(l) == [i \in 1..l.count |-> l.entries[Slot(l, i - 1)]]

\* What an event says, beside the data stamped on it when it is recorded.
Report(actor, target, op, result, parent, kind) ==
  [actor |-> actor, target |-> target, op |-> op, result |-> result,
   parent |-> parent, kind |-> kind]

Stamp(l, report) ==
  [seq |-> l.next, parent |-> report.parent, tx |-> l.tx,
   actor |-> report.actor, actorId |-> ObjectId(l, report.actor),
   target |-> report.target, targetId |-> ObjectId(l, report.target),
   rev |-> Revision(l, report.target),
   op |-> report.op, result |-> report.result, kind |-> report.kind]

\* Seeded fault: an event does not move the end of the transaction it carries.
ExtendNothing(txs, id, event) == txs

\* The transaction an event carries ends, so far, with that event.
Extend(txs, id, event) ==
  [i \in DOMAIN txs |->
     IF txs[i].id = id THEN [txs[i] EXCEPT !.end = event] ELSE txs[i]]

\* Seeded faults: the count grows on a full ring; a full ring does not move its
\* start; a full ring overwrites the entry after the oldest.
RecordUncapped(l, report) ==
  LET full == l.count >= EventCap
  IN  [l EXCEPT !.entries[IF full THEN l.first ELSE Slot(l, l.count)] = Stamp(l, report),
                !.first = IF full THEN Slot(l, 1) ELSE @,
                !.count = @ + 1,
                !.next = @ + 1,
                !.txs = Extend(@, l.tx, l.next)]
RecordInPlace(l, report) ==
  LET full == l.count = EventCap
  IN  [l EXCEPT !.entries[IF full THEN l.first ELSE Slot(l, l.count)] = Stamp(l, report),
                !.count = IF full THEN @ ELSE @ + 1,
                !.next = @ + 1,
                !.txs = Extend(@, l.tx, l.next)]
RecordLate(l, report) ==
  LET full == l.count = EventCap
  IN  [l EXCEPT !.entries[Slot(l, IF full THEN 1 ELSE l.count)] = Stamp(l, report),
                !.first = IF full THEN Slot(l, 1) ELSE @,
                !.count = IF full THEN @ ELSE @ + 1,
                !.next = @ + 1,
                !.txs = Extend(@, l.tx, l.next)]

\* event_record and event_record_kind.
Record(l, report) ==
  LET full == l.count = EventCap
      slot == IF full THEN l.first ELSE Slot(l, l.count)
  IN  [l EXCEPT !.entries[slot] = Stamp(l, report),
                !.first = IF full THEN Slot(l, 1) ELSE @,
                !.count = IF full THEN @ ELSE @ + 1,
                !.next = @ + 1,
                !.txs = Extend(@, l.tx, l.next)]

\* object_update_state: the event is stamped with the new revision.
UpdateState(l, name, state) ==
  LET index == ObjectIndex(l, name)
      report == Report("object", l.objects[index].name, "state_update", "ok",
                       l.current, "state")
  IN  IF index = 0
      THEN l
      ELSE SetLast(Record(SetState(l, index, state), report), index, l.next)

(***************************************************************************)
(* Transactions (event.c).                                                 *)
(***************************************************************************)
SetCurrent(l, event) == [l EXCEPT !.current = event]
SetTx(l, id) == [l EXCEPT !.tx = id]

\* transaction_begin returns the id of the new transaction, 0 if the table is full.
BeginResult(l) == IF Len(l.txs) < TxCap THEN l.next ELSE 0

Begin(l, actor, target, parent) ==
  LET named == Register(l, TxName(l.next), ObjectId(l, "events"), "open", parent)
      opened == [named EXCEPT
                  !.txs = Append(@, [id |-> l.next, parent |-> parent,
                                     begin |-> l.next, end |-> l.next,
                                     started |-> Revision(named, target),
                                     committed |-> Revision(named, target),
                                     actor |-> actor, target |-> target,
                                     status |-> "open"])]
      report == Report(actor, TxName(l.next), "begin", "ok", parent, "transaction")
  IN  IF BeginResult(l) = 0
      THEN l
      ELSE SetTx(Record(SetTx(opened, l.next), report), l.tx)

\* transaction_find: ids are begin events, so at most one transaction has each.
TxIndex(l, id) == SelectInSeq(l.txs, LAMBDA t : t.id = id)

Close(l, index, status, op, result) ==
  LET t == l.txs[index]
      closing == [l EXCEPT !.tx = t.id,
                           !.txs[index].committed = Revision(l, t.target),
                           !.txs[index].status = status]
      report == Report(t.actor, TxName(t.id), op, result, t.end, "transaction")
  IN  SetTx(SetStateDirect(Record(closing, report), TxName(t.id), status, l.next),
            l.tx)

\* transaction_commit and transaction_abort.
Commit(l, id) ==
  IF TxIndex(l, id) = 0 THEN l
  ELSE Close(l, TxIndex(l, id), "committed", "commit", "ok")
Abort(l, id) ==
  IF TxIndex(l, id) = 0 THEN l
  ELSE Close(l, TxIndex(l, id), "aborted", "abort", "denied")

\* event_init; the ring and the registry are zeroed with .bss.
BlankEvent == [seq |-> 0, parent |-> 0, tx |-> 0, actor |-> "", actorId |-> 0,
               target |-> "", targetId |-> 0, rev |-> 0, op |-> "",
               result |-> "ok", kind |-> ""]

EmptyLedger == [entries |-> [slot \in 0..(EventCap - 1) |-> BlankEvent],
                first |-> 0, count |-> 0, next |-> 1, current |-> 0, tx |-> 0,
                txs |-> << >>, objects |-> << >>]

(***************************************************************************)
(* What a ledger satisfies between two calls.                              *)
(***************************************************************************)
\* The retained events are the newest, oldest first, numbered without a gap.
Consecutive(l) ==
  /\ l.count < l.next
  /\ \A i \in 0..(l.count - 1) : l.entries[Slot(l, i)].seq = l.next - l.count + i

\* An event carries transaction t only between t's begin and t's end; t's id is
\* the number of its begin event; t's end is the last event carrying it.
Enveloped(l) ==
  \A i \in DOMAIN Retained(l) :
    LET event == Retained(l)[i]
    IN  /\ event.tx # 0 =>
             \E k \in DOMAIN l.txs :
               LET t == l.txs[k]
               IN  t.id = event.tx /\ event.seq \in t.begin..t.end
        /\ \A k \in DOMAIN l.txs :
             LET t == l.txs[k]
             IN  /\ event.seq = t.id =>
                      event.op = "begin" /\ event.target = TxName(t.id)
                 /\ event.seq = t.end => event.tx = t.id

\* A closed transaction ends with the event that closed it, and its object in
\* the registry says the same, one revision after "open".
ClosedAgree(l) ==
  \A k \in DOMAIN l.txs :
    LET t == l.txs[k]
    IN  /\ t.status # "open" =>
             \A i \in DOMAIN Retained(l) :
               LET event == Retained(l)[i]
               IN  event.seq = t.end =>
                     /\ event.op = IF t.status = "committed" THEN "commit" ELSE "abort"
                     /\ event.result = IF t.status = "committed" THEN "ok" ELSE "denied"
        /\ \A i \in DOMAIN l.objects :
             LET object == l.objects[i]
             IN  object.name = TxName(t.id) =>
                   /\ object.state = t.status
                   /\ object.rev = IF t.status = "open" THEN 1 ELSE 2
                   /\ t.status # "open" => object.last = t.end

\* Later events about an object carry revisions no smaller, and none beyond
\* the object's own.
Ordered(l) ==
  LET window == Retained(l)
  IN  \A i \in DOMAIN window :
        window[i].targetId # 0 =>
          /\ window[i].targetId \in DOMAIN l.objects
          /\ window[i].rev <= l.objects[window[i].targetId].rev
          /\ \A j \in i..Len(window) :
               window[j].targetId = window[i].targetId =>
                 window[i].rev <= window[j].rev
=============================================================================
