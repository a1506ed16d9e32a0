--------------------------- MODULE LedgerApiProofs ---------------------------
(***************************************************************************)
(* Proofs about the calls of LedgerApi.tla, for every capacity and every   *)
(* ledger, whoever makes them.                                             *)
(*                                                                         *)
(* First the types and the event ring: each call is shown once (the        *)
(* ...Kept lemmas) to keep the type, the gapless ring and that the numbers *)
(* the ledger keeps (the current event and the ends of transactions) name  *)
(* events already recorded, and to leave the window of events alone or to  *)
(* append one event to it.                                                 *)
(*                                                                         *)
(* Then the transaction table: the envelope of a transaction, and that a   *)
(* closed one is final.  They need that a transaction's id is its begin    *)
(* event, that no two share one, and that the transaction in force is in   *)
(* the table (Books).  A call that records an event keeps all of it        *)
(* through one lemma, RecordKeepsBooks, whose hypothesis (Ready) also      *)
(* covers the transaction transaction_begin has just entered, with the id  *)
(* of an event still to be recorded.                                       *)
(*                                                                         *)
(* Last the registry, and what the ring and the transaction table say of   *)
(* its objects, whatever call is made:                                     *)
(*   - an object changes only with its revision, by the newest event;      *)
(*   - the events about an object carry revisions in order, none beyond    *)
(*     the object's own;                                                   *)
(*   - a closed transaction, its last event and its object agree.          *)
(***************************************************************************)
EXTENDS LedgerApi, SequenceTheorems, FiniteSetTheorems, WellFoundedInduction, TLAPS

\* A set of naturals has its minimum in it, and no smaller number.
LEMMA MinOfNaturals ==
  ASSUME NEW S \in SUBSET Nat, S # {}
  PROVE  Min(S) \in S /\ \A n \in S : Min(S) =< n
<1>1. \E n \in S : \A m \in S : ~ (<<m, n>> \in OpToRel(<, Nat))
  BY NatLessThanWellFounded, WFMin, Zenon
<1>2. \A m, n \in Nat : m < n => <<m, n>> \in OpToRel(<, Nat)
  <2>1. SUFFICES ASSUME NEW m \in Nat, NEW n \in Nat, m < n
                 PROVE  <<m, n>> \in {ss \in Nat \X Nat : ss[1] < ss[2]}
    BY Zenon DEF OpToRel
  <2> QED
    BY <2>1, SMT
<1>3. \E n \in S : \A m \in S : n =< m
  <2>1. PICK n \in S : \A m \in S : ~ (<<m, n>> \in OpToRel(<, Nat))
    BY <1>1
  <2>2. \A m \in S : ~ (m < n)
    BY <1>2, <2>1, Zenon
  <2> QED
    BY <2>2, SMT
<1> QED
  BY <1>3, Zenon DEF Min

\* A position chosen as SelectInSeq chooses it is in the sequence, or 0.
LEMMA SelectInSeqType ==
  ASSUME NEW S, NEW seq \in Seq(S), NEW T \in SUBSET (1..Len(seq))
  PROVE  (IF T # {} THEN Min(T) ELSE 0) \in 0..Len(seq)
<1>1. Len(seq) \in Nat
  BY LenProperties
<1>2. CASE T = {}
  BY <1>1, <1>2
<1>3. CASE T # {}
  <2>1. T \in SUBSET Nat
    BY <1>1
  <2>2. Min(T) \in T
    BY <1>3, <2>1, MinOfNaturals, Zenon
  <2>3. \A n \in T : n \in 0..Len(seq)
    BY <1>1
  <2> QED
    BY <1>3, <2>2, <2>3, Zenon
<1> QED
  BY <1>2, <1>3, Zenon

\* object_find returns an object of the registry, or none.
LEMMA ObjectIndexType ==
  ASSUME NEW l, l.objects \in Seq(Object), NEW query
  PROVE  ObjectIndex(l, query) \in 0..Len(l.objects)
BY SelectInSeqType DEF ObjectIndex, SelectInSeq

\* transaction_find returns an entry of the table, or none.
LEMMA TxIndexType ==
  ASSUME NEW l, l.txs \in Seq(Transaction), NEW id
  PROVE  TxIndex(l, id) \in 0..Len(l.txs)
BY SelectInSeqType DEF TxIndex, SelectInSeq

\* What a caller says of an event.
ReportType == [actor : Labels, target : Labels, op : Operations, result : Results,
               parent : Nat, kind : Kinds]

\* A report put together from typed parts is typed.
LEMMA ReportIsTyped ==
  ASSUME NEW actor \in Labels, NEW target \in Labels, NEW op \in Operations,
         NEW result \in Results, NEW parent \in Nat, NEW kind \in Kinds
  PROVE  Report(actor, target, op, result, parent, kind) \in ReportType
BY DEF Report, ReportType

\* object_id returns a number, whatever is asked.
LEMMA ObjectIdType ==
  ASSUME NEW l, l.objects \in Seq(Object), NEW query
  PROVE  ObjectId(l, query) \in Nat
<1>1. CASE ObjectIndex(l, query) = 0
  BY <1>1 DEF ObjectId, Known
<1>2. CASE ObjectIndex(l, query) # 0
  <2>1. ObjectIndex(l, query) \in 1..Len(l.objects)
    BY <1>2, ObjectIndexType, LenProperties
  <2>2. l.objects[ObjectIndex(l, query)] \in Object
    BY <2>1, ElementOfSeq
  <2> QED
    BY <1>2, <2>2 DEF ObjectId, Known, Object
<1> QED
  BY <1>1, <1>2

\* object_revision returns a number, whatever is asked.
LEMMA RevisionType ==
  ASSUME NEW l, l.objects \in Seq(Object), NEW query
  PROVE  Revision(l, query) \in Nat
<1>1. CASE ObjectIndex(l, query) = 0
  BY <1>1 DEF Revision, Known
<1>2. CASE ObjectIndex(l, query) # 0
  <2>1. ObjectIndex(l, query) \in 1..Len(l.objects)
    BY <1>2, ObjectIndexType, LenProperties
  <2>2. l.objects[ObjectIndex(l, query)] \in Object
    BY <2>1, ElementOfSeq
  <2> QED
    BY <1>2, <2>2 DEF Revision, Known, Object
<1> QED
  BY <1>1, <1>2

\* What event_record_kind writes into the ring is an event.
LEMMA StampType ==
  ASSUME NEW l \in LedgerType, NEW report \in ReportType
  PROVE  Stamp(l, report) \in Event
<1>1. /\ l.objects \in Seq(Object)
      /\ l.next \in Nat
      /\ l.tx \in Nat
  BY DEF LedgerType
<1>2. /\ ObjectId(l, report.actor) \in Nat
      /\ ObjectId(l, report.target) \in Nat
      /\ Revision(l, report.target) \in Nat
  BY <1>1, ObjectIdType, RevisionType
<1> QED
  BY <1>1, <1>2 DEF Stamp, Event, ReportType

\* Moving the end of a transaction keeps the table's type and length.
LEMMA ExtendType ==
  ASSUME NEW txs \in Seq(Transaction), NEW id, NEW event \in Nat
  PROVE  /\ Extend(txs, id, event) \in Seq(Transaction)
         /\ Len(Extend(txs, id, event)) = Len(txs)
<1>1. /\ Len(txs) \in Nat
      /\ DOMAIN txs = 1..Len(txs)
      /\ \A i \in 1..Len(txs) : txs[i] \in Transaction
  BY LenProperties, ElementOfSeq
<1>2. \A i \in 1..Len(txs) :
        (IF txs[i].id = id THEN [txs[i] EXCEPT !.end = event] ELSE txs[i])
          \in Transaction
  BY <1>1 DEF Transaction
<1>3. Extend(txs, id, event) \in [1..Len(txs) -> Transaction]
  BY <1>1, <1>2 DEF Extend
<1> QED
  BY <1>1, <1>3

\* Where the ring index lands: the remainder of a number below twice the capacity.
LEMMA RemainderBelow ==
  ASSUME NEW k \in 0..(EventCap - 1)
  PROVE  k % EventCap = k
BY CapacityAssumption, Z3

\* The same, above the capacity.
LEMMA RemainderAbove ==
  ASSUME NEW k \in EventCap..(2 * EventCap - 1)
  PROVE  k % EventCap = k - EventCap
BY CapacityAssumption, Z3

\* The slot of the i-th retained event, without the remainder.
LEMMA SlotPosition ==
  ASSUME NEW l, l.first \in 0..(EventCap - 1), NEW i \in 0..EventCap
  PROVE  /\ Slot(l, i) \in 0..(EventCap - 1)
         /\ Slot(l, i) = IF l.first + i < EventCap
                         THEN l.first + i
                         ELSE l.first + i - EventCap
<1>1. CASE l.first + i < EventCap
  BY <1>1, RemainderBelow, CapacityAssumption DEF Slot
<1>2. CASE ~ (l.first + i < EventCap)
  BY <1>2, RemainderAbove, CapacityAssumption DEF Slot
<1> QED
  BY <1>1, <1>2

\* event_record_kind keeps the ledger's type.
LEMMA RecordType ==
  ASSUME NEW l \in LedgerType, NEW report \in ReportType
  PROVE  Record(l, report) \in LedgerType
<1> DEFINE full == l.count = EventCap
           slot == IF full THEN l.first ELSE Slot(l, l.count)
<1>1. /\ l.entries \in [0..(EventCap - 1) -> Event]
      /\ l.first \in 0..(EventCap - 1)
      /\ l.count \in 0..EventCap
      /\ l.next \in Nat \ {0}
      /\ l.tx \in Nat
      /\ l.txs \in Seq(Transaction)
  BY DEF LedgerType
<1>2. slot \in 0..(EventCap - 1)
  BY <1>1, SlotPosition
<1>3. [l.entries EXCEPT ![slot] = Stamp(l, report)]
        \in [0..(EventCap - 1) -> Event]
  BY <1>1, <1>2, StampType
<1>4. (IF full THEN Slot(l, 1) ELSE l.first) \in 0..(EventCap - 1)
  <2>1. 1 \in 0..EventCap
    BY CapacityAssumption
  <2>2. Slot(l, 1) \in 0..(EventCap - 1)
    BY <1>1, <2>1, SlotPosition
  <2> QED
    BY <1>1, <2>2
<1>5. (IF full THEN l.count ELSE l.count + 1) \in 0..EventCap
  BY <1>1, CapacityAssumption
<1>6. Extend(l.txs, l.tx, l.next) \in Seq(Transaction)
  BY <1>1, ExtendType
<1>7. l.next + 1 \in Nat \ {0}
  BY <1>1
<1> HIDE DEF full, slot
<1> QED
  BY <1>3, <1>4, <1>5, <1>6, <1>7 DEF Record, LedgerType, full, slot

\* A new state and a revision more make an object of an object.
LEMMA ObjectChangeType ==
  ASSUME NEW o \in Object, NEW state \in ObjectStates
  PROVE  [o EXCEPT !.state = state, !.rev = o.rev + 1] \in Object
<1>1. [o EXCEPT !.state = state] \in Object
  BY DEF Object
<1>2. o.rev + 1 \in Nat
  BY DEF Object
<1>3. \A p \in Object : [p EXCEPT !.rev = o.rev + 1] \in Object
  BY <1>2 DEF Object
<1>4. [o EXCEPT !.state = state, !.rev = o.rev + 1]
        = [[o EXCEPT !.state = state] EXCEPT !.rev = o.rev + 1]
  OBVIOUS
<1> QED
  BY <1>1, <1>3, <1>4, Zenon

\* So does a new last event.
LEMMA ObjectLastType ==
  ASSUME NEW o \in Object, NEW event \in Nat
  PROVE  [o EXCEPT !.last = event] \in Object
BY DEF Object

\* Changing the state of an object keeps the type and the number of objects.
LEMMA SetStateType ==
  ASSUME NEW l \in LedgerType, NEW index \in 1..Len(l.objects),
         NEW state \in ObjectStates
  PROVE  /\ SetState(l, index, state) \in LedgerType
         /\ Len(SetState(l, index, state).objects) = Len(l.objects)
<1>1. l.objects \in Seq(Object)
  BY DEF LedgerType
<1>2. l.objects[index] \in Object
  BY <1>1, ElementOfSeq
<1> DEFINE object == [l.objects[index] EXCEPT !.state = state, !.rev = @ + 1]
<1>3. object \in Object
  BY <1>2, ObjectChangeType
<1>4. SetState(l, index, state) =
        [l EXCEPT !.objects = [l.objects EXCEPT ![index] = object]]
  BY <1>1, <1>2, LenProperties DEF SetState, LedgerType, Object
<1>5. /\ [l.objects EXCEPT ![index] = object] \in Seq(Object)
      /\ Len([l.objects EXCEPT ![index] = object]) = Len(l.objects)
  BY <1>1, <1>3, ExceptSeq
<1> QED
  BY <1>4, <1>5 DEF LedgerType

\* Naming the last event of an object keeps the ledger's type.
LEMMA SetLastType ==
  ASSUME NEW l \in LedgerType, NEW index \in 1..Len(l.objects), NEW event \in Nat
  PROVE  SetLast(l, index, event) \in LedgerType
<1>1. l.objects \in Seq(Object)
  BY DEF LedgerType
<1>2. [l.objects[index] EXCEPT !.last = event] \in Object
  BY <1>1, ElementOfSeq, ObjectLastType
<1>3. [l.objects EXCEPT ![index] = [l.objects[index] EXCEPT !.last = event]]
        \in Seq(Object)
  BY <1>1, <1>2, ExceptSeq
<1> QED
  BY <1>3 DEF SetLast, LedgerType

\* object_register keeps the ledger's type, full registry or not.
LEMMA RegisterType ==
  ASSUME NEW l \in LedgerType, NEW name \in ObjectNames, NEW parent \in Nat,
         NEW state \in ObjectStates, NEW created \in Nat
  PROVE  Register(l, name, parent, state, created) \in LedgerType
<1> DEFINE object == [id |-> Len(l.objects) + 1, name |-> name, parent |-> parent,
                      rev |-> 1, state |-> state,
                      created |-> created, last |-> created]
<1>1. l.objects \in Seq(Object) /\ Len(l.objects) \in Nat
  BY LenProperties DEF LedgerType
<1>2. object \in Object
  BY <1>1 DEF Object
<1>3. Append(l.objects, object) \in Seq(Object)
  BY <1>1, <1>2, AppendProperties
<1> HIDE DEF object
<1>4. [l EXCEPT !.objects = Append(l.objects, object)] \in LedgerType
  BY <1>3 DEF LedgerType
<1> QED
  BY <1>4 DEF Register, object

\* The two setters of event.c keep the ledger's type.
LEMMA SetTxType ==
  ASSUME NEW l \in LedgerType, NEW id \in Nat
  PROVE  /\ SetTx(l, id) \in LedgerType
         /\ SetCurrent(l, id) \in LedgerType
BY DEF SetTx, SetCurrent, LedgerType

\* object_set_state_direct keeps the ledger's type, known name or not.
LEMMA SetStateDirectType ==
  ASSUME NEW l \in LedgerType, NEW name, NEW state \in ObjectStates, NEW event \in Nat
  PROVE  SetStateDirect(l, name, state, event) \in LedgerType
<1> DEFINE index == ObjectIndex(l, name)
<1>1. index \in 0..Len(l.objects) /\ Len(l.objects) \in Nat
  BY ObjectIndexType, LenProperties DEF LedgerType
<1>2. CASE index = 0
  BY <1>2 DEF SetStateDirect
<1>3. CASE index # 0
  <2>1. index \in 1..Len(l.objects)
    BY <1>1, <1>3
  <2>2. SetLast(SetState(l, index, state), index, event) \in LedgerType
    BY <2>1, SetStateType, SetLastType
  <2> QED
    BY <1>3, <2>2 DEF SetStateDirect
<1> QED
  BY <1>2, <1>3

\* Recording an event leaves the registry and both setters' values alone.
LEMMA RecordFrame ==
  ASSUME NEW l \in LedgerType, NEW report
  PROVE  /\ Record(l, report).objects = l.objects
         /\ Record(l, report).next = l.next + 1
         /\ Record(l, report).tx = l.tx
         /\ Record(l, report).current = l.current
BY DEF Record, LedgerType

\* The transaction found has the id that was asked for.
LEMMA TxIndexMatches ==
  ASSUME NEW l \in LedgerType, NEW id, TxIndex(l, id) # 0
  PROVE  /\ TxIndex(l, id) \in 1..Len(l.txs)
         /\ l.txs[TxIndex(l, id)].id = id
<1> DEFINE T == {i \in 1..Len(l.txs) : l.txs[i].id = id}
<1>1. TxIndex(l, id) = IF T # {} THEN Min(T) ELSE 0
  BY DEF TxIndex, SelectInSeq
<1>2. T # {}
  BY <1>1
<1>3. T \in SUBSET Nat
  OBVIOUS
<1>4. Min(T) \in T
  BY <1>2, <1>3, MinOfNaturals, Zenon
<1> QED
  BY <1>1, <1>2, <1>4, Zenon

\* The parts of a ledger the window is made of.
SameRing(l, m) ==
  /\ m.entries = l.entries
  /\ m.first = l.first
  /\ m.count = l.count
  /\ m.next = l.next

\* The parts of a ledger the registry does not touch.
SameLog(l, m) ==
  /\ SameRing(l, m)
  /\ m.txs = l.txs
  /\ m.current = l.current

\* No call of the registry but object_update_state touches the ring.
LEMMA RegistryKeepsLog ==
  ASSUME NEW l \in LedgerType
  PROVE  /\ \A name, parent, state, created :
              SameLog(l, Register(l, name, parent, state, created))
         /\ \A index, state : SameLog(l, SetState(l, index, state))
         /\ \A index, event : SameLog(l, SetLast(l, index, event))
         /\ \A name, state, event : SameLog(l, SetStateDirect(l, name, state, event))
         /\ \A id : SameLog(l, SetTx(l, id))
<1>1. \A name, parent, state, created :
        SameLog(l, Register(l, name, parent, state, created))
  BY DEF SameLog, SameRing, Register, LedgerType
<1>2. \A index, state : SameLog(l, SetState(l, index, state))
  BY DEF SameLog, SameRing, SetState, LedgerType
<1>3. \A index, event : SameLog(l, SetLast(l, index, event))
  BY DEF SameLog, SameRing, SetLast, LedgerType
<1>4. \A name, state, event : SameLog(l, SetStateDirect(l, name, state, event))
  BY DEF SameLog, SameRing, SetStateDirect, SetState, SetLast, LedgerType
<1>5. \A id : SameLog(l, SetTx(l, id))
  BY DEF SameLog, SameRing, SetTx, LedgerType
<1> QED
  BY <1>1, <1>2, <1>3, <1>4, <1>5

\* The numbers a ledger keeps of events name events already recorded.
Recorded(l) ==
  /\ l.current < l.next
  /\ \A i \in DOMAIN l.txs : l.txs[i].end < l.next

\* The same, while a transaction is begun with the event about to be recorded.
Pending(l) ==
  /\ l.current < l.next
  /\ \A i \in DOMAIN l.txs : l.txs[i].end =< l.next

\* Ledgers with the same ring retain the same events.
LEMMA RingDeterminesWindow ==
  ASSUME NEW l, NEW m, SameRing(l, m)
  PROVE  /\ Retained(m) = Retained(l)
         /\ Consecutive(l) => Consecutive(m)
BY DEF SameRing, Retained, Consecutive, Slot

\* Ledgers with the same log name the same events as recorded.
LEMMA LogDeterminesRecorded ==
  ASSUME NEW l, NEW m, SameLog(l, m)
  PROVE  /\ Recorded(l) => Recorded(m)
         /\ Pending(l) => Pending(m)
BY DEF SameLog, SameRing, Recorded, Pending

\* What names recorded events does so while one more is pending.
LEMMA RecordedIsPending ==
  ASSUME NEW l \in LedgerType, Recorded(l)
  PROVE  Pending(l)
<1>1. /\ DOMAIN l.txs = 1..Len(l.txs)
      /\ \A i \in DOMAIN l.txs : l.txs[i] \in Transaction
  BY LenProperties, ElementOfSeq DEF LedgerType
<1>2. \A i \in DOMAIN l.txs : l.txs[i].end \in Nat
  BY <1>1 DEF Transaction
<1>3. l.next \in Nat
  BY DEF LedgerType
<1> QED
  BY <1>2, <1>3 DEF Recorded, Pending

\* What a full ring retains of a log.
Newest(log) == IF Len(log) > EventCap THEN Tail(log) ELSE log

\* An event appended to the window of l gives the window of m.
Notes(l, m) ==
  /\ m.next = l.next + 1
  /\ \E event \in Event : /\ event.seq = l.next
                         /\ event.parent \in 0..(l.next - 1)
                         /\ Retained(m) = Newest(Append(Retained(l), event))

\* The retained events are a sequence of events, as long as the count.
LEMMA RetainedType ==
  ASSUME NEW l \in LedgerType
  PROVE  /\ Retained(l) \in Seq(Event)
         /\ Len(Retained(l)) = l.count
         /\ \A i \in 1..l.count : Retained(l)[i] = l.entries[Slot(l, i - 1)]
<1>1. /\ l.entries \in [0..(EventCap - 1) -> Event]
      /\ l.first \in 0..(EventCap - 1)
      /\ l.count \in 0..EventCap
  BY DEF LedgerType
<1>2. \A i \in 1..l.count : Slot(l, i - 1) \in 0..(EventCap - 1)
  <2> SUFFICES ASSUME NEW i \in 1..l.count
               PROVE  Slot(l, i - 1) \in 0..(EventCap - 1)
    OBVIOUS
  <2>1. i - 1 \in 0..EventCap
    BY <1>1, CapacityAssumption
  <2> QED
    BY <1>1, <2>1, SlotPosition
<1>3. Retained(l) \in [1..l.count -> Event]
  BY <1>1, <1>2 DEF Retained
<1>4. /\ Retained(l) \in Seq(Event)
      /\ Len(Retained(l)) = l.count
  BY <1>1, <1>3
<1>5. \A i \in 1..l.count : Retained(l)[i] = l.entries[Slot(l, i - 1)]
  BY DEF Retained
<1> QED
  BY <1>4, <1>5

\* Different retained events have different slots.
LEMMA SlotsDiffer ==
  ASSUME NEW l, l.first \in 0..(EventCap - 1),
         NEW i \in 0..(EventCap - 1), NEW j \in 0..(EventCap - 1), i # j
  PROVE  Slot(l, i) # Slot(l, j)
<1>1. i \in 0..EventCap /\ j \in 0..EventCap
  BY CapacityAssumption
<1>2. /\ Slot(l, i) = IF l.first + i < EventCap THEN l.first + i
                      ELSE l.first + i - EventCap
      /\ Slot(l, j) = IF l.first + j < EventCap THEN l.first + j
                      ELSE l.first + j - EventCap
  BY <1>1, SlotPosition
<1> QED
  BY <1>2, CapacityAssumption

\* When the ring drops its oldest event every other moves down one place.
LEMMA SlotsShift ==
  ASSUME NEW l, NEW m, l.first \in 0..(EventCap - 1), m.first = Slot(l, 1),
         NEW i \in 0..(EventCap - 1)
  PROVE  Slot(m, i) = IF i = EventCap - 1 THEN l.first ELSE Slot(l, i + 1)
<1>1. 1 \in 0..EventCap /\ i \in 0..EventCap /\ i + 1 \in 0..EventCap
  BY CapacityAssumption
<1>2. /\ m.first \in 0..(EventCap - 1)
      /\ m.first = IF l.first + 1 < EventCap THEN l.first + 1
                   ELSE l.first + 1 - EventCap
  BY <1>1, SlotPosition
<1>3. /\ Slot(m, i) = IF m.first + i < EventCap THEN m.first + i
                      ELSE m.first + i - EventCap
      /\ Slot(l, i + 1) = IF l.first + (i + 1) < EventCap THEN l.first + (i + 1)
                          ELSE l.first + (i + 1) - EventCap
  BY <1>1, <1>2, SlotPosition
<1> QED
  BY <1>2, <1>3, CapacityAssumption

\* What the ring holds, in order, after one more event.
LEMMA RecordEntries ==
  ASSUME NEW l \in LedgerType, NEW report \in ReportType
  PROVE  LET m == Record(l, report)
             full == l.count = EventCap
         IN  /\ m.count = IF full THEN l.count ELSE l.count + 1
             /\ \A i \in 0..(m.count - 1) :
                  m.entries[Slot(m, i)] =
                    IF i = m.count - 1 THEN Stamp(l, report)
                    ELSE l.entries[Slot(l, IF full THEN i + 1 ELSE i)]
<1> DEFINE m == Record(l, report)
           full == l.count = EventCap
           slot == IF full THEN l.first ELSE Slot(l, l.count)
<1>1. /\ l.entries \in [0..(EventCap - 1) -> Event]
      /\ l.first \in 0..(EventCap - 1)
      /\ l.count \in 0..EventCap
  BY DEF LedgerType
<1>2. /\ m.entries = [l.entries EXCEPT ![slot] = Stamp(l, report)]
      /\ m.first = IF full THEN Slot(l, 1) ELSE l.first
      /\ m.count = IF full THEN l.count ELSE l.count + 1
  BY DEF Record, LedgerType
<1>3. slot \in 0..(EventCap - 1)
  BY <1>1, SlotPosition
<1> HIDE DEF m
<1>4. ASSUME full, NEW i \in 0..(m.count - 1)
      PROVE  m.entries[Slot(m, i)] =
               IF i = m.count - 1 THEN Stamp(l, report) ELSE l.entries[Slot(l, i + 1)]
  <2>1. m.first = Slot(l, 1) /\ i \in 0..(EventCap - 1) /\ m.count = EventCap
    BY <1>2, <1>4
  <2>2. Slot(m, i) = IF i = EventCap - 1 THEN l.first ELSE Slot(l, i + 1)
    BY <1>1, <2>1, SlotsShift
  <2>3. CASE i = EventCap - 1
    BY <1>1, <1>2, <1>3, <1>4, <2>1, <2>2, <2>3
  <2>4. CASE i # EventCap - 1
    <3>1. /\ i + 1 \in 0..(EventCap - 1) /\ 0 \in 0..(EventCap - 1)
          /\ i + 1 # 0 /\ 0 \in 0..EventCap /\ i + 1 \in 0..EventCap
      BY <2>1, <2>4, CapacityAssumption
    <3>2. Slot(l, 0) = l.first
      BY <1>1, RemainderBelow DEF Slot
    <3>3. Slot(l, i + 1) # Slot(l, 0)
      BY <1>1, <3>1, SlotsDiffer, Zenon
    <3>4. Slot(l, i + 1) \in 0..(EventCap - 1)
      BY <1>1, <3>1, SlotPosition
    <3> QED
      BY <1>1, <1>2, <1>4, <2>1, <2>2, <2>4, <3>2, <3>3, <3>4
  <2> QED
    BY <2>3, <2>4
<1>5. ASSUME ~ full, NEW i \in 0..(m.count - 1)
      PROVE  m.entries[Slot(m, i)] =
               IF i = m.count - 1 THEN Stamp(l, report) ELSE l.entries[Slot(l, i)]
  <2>1. m.first = l.first /\ m.count = l.count + 1 /\ l.count \in 0..(EventCap - 1)
    BY <1>1, <1>2, <1>5, CapacityAssumption
  <2>2. Slot(m, i) = Slot(l, i)
    BY <2>1 DEF Slot
  <2>3. CASE i = l.count
    <3>1. Slot(m, i) = slot /\ i = m.count - 1
      BY <1>5, <2>1, <2>2, <2>3
    <3> QED
      BY <1>1, <1>2, <1>3, <3>1
  <2>4. CASE i # l.count
    <3>1. i \in 0..(EventCap - 1) /\ i \in 0..EventCap
      BY <2>1, CapacityAssumption
    <3>2. Slot(l, i) # Slot(l, l.count) /\ Slot(l, i) \in 0..(EventCap - 1)
      BY <1>1, <2>1, <2>4, <3>1, SlotsDiffer, SlotPosition
    <3> QED
      BY <1>1, <1>2, <1>5, <2>1, <2>2, <2>4, <3>2
  <2> QED
    BY <2>3, <2>4
<1> QED
  BY <1>2, <1>4, <1>5 DEF m

\* Recording keeps the numbers in the ring without a gap.
LEMMA RecordKeepsConsecutive ==
  ASSUME NEW l \in LedgerType, NEW report \in ReportType, Consecutive(l)
  PROVE  Consecutive(Record(l, report))
<1> DEFINE m == Record(l, report)
           full == l.count = EventCap
<1>1. /\ l.count \in 0..EventCap /\ l.next \in Nat /\ EventCap \in Nat \ {0}
      /\ l.count < l.next
      /\ \A i \in 0..(l.count - 1) : l.entries[Slot(l, i)].seq = l.next - l.count + i
  BY CapacityAssumption DEF LedgerType, Consecutive
<1>2. /\ m.count = IF full THEN l.count ELSE l.count + 1
      /\ m.next = l.next + 1
      /\ \A i \in 0..(m.count - 1) :
           m.entries[Slot(m, i)] =
             IF i = m.count - 1 THEN Stamp(l, report)
             ELSE l.entries[Slot(l, IF full THEN i + 1 ELSE i)]
  BY RecordEntries, RecordFrame
<1>3. Stamp(l, report).seq = l.next
  BY DEF Stamp
<1> HIDE DEF m
<1>4. ASSUME NEW i \in 0..(m.count - 1)
      PROVE  m.entries[Slot(m, i)].seq = m.next - m.count + i
  <2>1. CASE i = m.count - 1
    BY <1>1, <1>2, <1>3, <2>1
  <2>2. CASE i # m.count - 1 /\ full
    <3>1. i + 1 \in 0..(l.count - 1) /\ m.count = l.count
      BY <1>1, <1>2, <2>2
    <3>2. m.entries[Slot(m, i)] = l.entries[Slot(l, i + 1)]
      BY <1>2, <2>2
    <3>3. l.entries[Slot(l, i + 1)].seq = l.next - l.count + (i + 1)
      BY <1>1, <3>1
    <3> QED
      BY <1>1, <1>2, <3>1, <3>2, <3>3
  <2>3. CASE i # m.count - 1 /\ ~ full
    <3>1. i \in 0..(l.count - 1) /\ m.count = l.count + 1
      BY <1>1, <1>2, <2>3
    <3>2. m.entries[Slot(m, i)] = l.entries[Slot(l, i)]
      BY <1>2, <2>3
    <3> QED
      BY <1>1, <1>2, <3>1, <3>2
  <2> QED
    BY <2>1, <2>2, <2>3
<1>5. m.count < m.next
  BY <1>1, <1>2
<1> QED
  BY <1>4, <1>5 DEF Consecutive, m

\* Recording an event with an earlier cause is a step of the window.
LEMMA RecordNotes ==
  ASSUME NEW l \in LedgerType, NEW report \in ReportType,
         report.parent \in 0..(l.next - 1)
  PROVE  Notes(l, Record(l, report))
<1> DEFINE m == Record(l, report)
           full == l.count = EventCap
           event == Stamp(l, report)
           old == Retained(l)
           log == Append(old, event)
<1>1. /\ l.count \in 0..EventCap /\ EventCap \in Nat \ {0}
      /\ m \in LedgerType
  BY CapacityAssumption, RecordType DEF LedgerType
<1>2. /\ m.count = IF full THEN l.count ELSE l.count + 1
      /\ m.next = l.next + 1
      /\ \A i \in 0..(m.count - 1) :
           m.entries[Slot(m, i)] =
             IF i = m.count - 1 THEN event
             ELSE l.entries[Slot(l, IF full THEN i + 1 ELSE i)]
  BY RecordEntries, RecordFrame
<1>3. event \in Event /\ event.seq = l.next /\ event.parent = report.parent
  BY StampType DEF Stamp
<1>4. /\ old \in Seq(Event) /\ Len(old) = l.count
      /\ \A i \in 1..l.count : old[i] = l.entries[Slot(l, i - 1)]
  BY RetainedType
<1>5. /\ Retained(m) \in Seq(Event) /\ Len(Retained(m)) = m.count
      /\ \A i \in 1..m.count : Retained(m)[i] = m.entries[Slot(m, i - 1)]
  BY <1>1, RetainedType
<1> HIDE DEF m, event, old
<1>6. /\ log \in Seq(Event) /\ log # << >> /\ Len(log) = l.count + 1
      /\ \A i \in 1..l.count : log[i] = old[i]
      /\ log[l.count + 1] = event
  BY <1>3, <1>4, AppendProperties
<1> HIDE DEF log
<1>7. ASSUME full
      PROVE  Retained(m) = Newest(log)
  <2>1. /\ Tail(log) \in Seq(Event) /\ Len(Tail(log)) = l.count
        /\ \A i \in 1..l.count : Tail(log)[i] = log[i + 1]
    BY <1>1, <1>6, HeadTailProperties
  <2>2. ASSUME NEW i \in 1..l.count
        PROVE  Retained(m)[i] = Tail(log)[i]
    <3>1. i - 1 \in 0..(m.count - 1) /\ i \in 1..m.count
      BY <1>1, <1>2, <1>7
    <3>2. Retained(m)[i] = IF i - 1 = m.count - 1 THEN event
                           ELSE l.entries[Slot(l, i - 1 + 1)]
      BY <1>2, <1>5, <1>7, <3>1
    <3>3. CASE i = l.count
      BY <1>1, <1>2, <1>6, <1>7, <2>1, <3>2, <3>3
    <3>4. CASE i # l.count
      <4>1. i + 1 \in 1..l.count /\ i - 1 + 1 = i + 1 - 1
        BY <1>1, <3>4
      <4>2. Tail(log)[i] = l.entries[Slot(l, i + 1 - 1)]
        BY <1>4, <1>6, <2>1, <4>1
      <4>3. i - 1 # m.count - 1
        BY <1>1, <1>2, <1>7, <3>4
      <4>4. Retained(m)[i] = l.entries[Slot(l, i - 1 + 1)]
        BY <3>2, <4>3
      <4> QED
        BY <4>1, <4>2, <4>4
    <3> QED
      BY <3>3, <3>4
  <2>3. Retained(m) = Tail(log)
    BY <1>2, <1>5, <1>7, <2>1, <2>2, SeqEqual
  <2>4. Newest(log) = Tail(log)
    BY <1>1, <1>6, <1>7 DEF Newest
  <2> QED
    BY <2>3, <2>4
<1>8. ASSUME ~ full
      PROVE  Retained(m) = Newest(log)
  <2>1. ASSUME NEW i \in 1..m.count
        PROVE  Retained(m)[i] = log[i]
    <3>1. i - 1 \in 0..(m.count - 1)
      BY <1>1, <1>2, <1>8
    <3>2. Retained(m)[i] = IF i - 1 = m.count - 1 THEN event
                           ELSE l.entries[Slot(l, i - 1)]
      BY <1>2, <1>5, <1>8, <3>1
    <3>3. CASE i = m.count
      BY <1>1, <1>2, <1>6, <1>8, <3>2, <3>3
    <3>4. CASE i # m.count
      <4>1. i \in 1..l.count /\ i - 1 # m.count - 1
        BY <1>1, <1>2, <1>8, <3>4
      <4> QED
        BY <1>4, <1>6, <3>2, <4>1
    <3> QED
      BY <3>3, <3>4
  <2>2. Retained(m) = log
    BY <1>1, <1>2, <1>5, <1>6, <1>8, <2>1, SeqEqual
  <2>3. Newest(log) = log
    BY <1>1, <1>6, <1>8 DEF Newest
  <2> QED
    BY <2>2, <2>3
<1>9. Retained(m) = Newest(log)
  BY <1>7, <1>8
<1> QED
  BY <1>2, <1>3, <1>9 DEF Notes, m, log, old

\* Once the pending event is recorded, all the numbers kept are of events.
LEMMA RecordKeepsRecorded ==
  ASSUME NEW l \in LedgerType, NEW report, Pending(l)
  PROVE  Recorded(Record(l, report))
<1> DEFINE m == Record(l, report)
<1>1. /\ l.next \in Nat /\ l.current \in Nat
      /\ l.txs \in Seq(Transaction)
      /\ DOMAIN l.txs = 1..Len(l.txs)
      /\ \A i \in DOMAIN l.txs : l.txs[i].end =< l.next /\ l.txs[i] \in Transaction
  BY LenProperties, ElementOfSeq DEF LedgerType, Pending
<1>2. /\ m.txs = Extend(l.txs, l.tx, l.next)
      /\ m.next = l.next + 1
      /\ m.current = l.current
  BY DEF Record, LedgerType
<1>3. ASSUME NEW i \in DOMAIN l.txs
      PROVE  m.txs[i].end \in {l.txs[i].end, l.next}
  BY <1>1, <1>2, <1>3 DEF Extend, Transaction
<1>4. DOMAIN m.txs = DOMAIN l.txs
  BY <1>2 DEF Extend
<1>5. \A i \in DOMAIN l.txs : l.txs[i].end \in Nat
  BY <1>1 DEF Transaction
<1> HIDE DEF m
<1>6. \A i \in DOMAIN m.txs : m.txs[i].end < m.next
  BY <1>1, <1>2, <1>3, <1>4, <1>5
<1>7. m.current < m.next
  BY <1>1, <1>2 DEF Pending
<1> QED
  BY <1>6, <1>7 DEF Recorded, m

\* What every call keeps, and what it does to the window.
Sound(l) == Consecutive(l) /\ Recorded(l)
Advance(l, m) == \/ Retained(m) = Retained(l) /\ m.next = l.next
              \/ Notes(l, m)
Kept(l, m) == m \in LedgerType /\ (Sound(l) => Sound(m) /\ Advance(l, m))

\* A call that leaves the log alone keeps everything, and stutters.
LEMMA RegistryStep ==
  ASSUME NEW l, NEW m \in LedgerType, SameLog(l, m)
  PROVE  Kept(l, m)
<1>1. SameRing(l, m) /\ m.next = l.next
  BY DEF SameLog, SameRing
<1> QED
  BY <1>1, RingDeterminesWindow, LogDeterminesRecorded DEF Kept, Sound, Advance

\* A call that records one event, between changes that leave the ring alone.
LEMMA RecordStep ==
  ASSUME NEW l, NEW k \in LedgerType, NEW report \in ReportType, NEW n \in LedgerType,
         SameRing(l, k), SameLog(Record(k, report), n),
         Sound(l) => Pending(k) /\ report.parent \in 0..(k.next - 1)
  PROVE  Kept(l, n)
<1> SUFFICES ASSUME Sound(l)
             PROVE  Sound(n) /\ Notes(l, n)
  BY DEF Kept, Advance
<1> DEFINE m == Record(k, report)
<1>1. Consecutive(k) /\ Retained(k) = Retained(l) /\ k.next = l.next
  BY RingDeterminesWindow DEF Sound, SameRing
<1>2. Consecutive(m) /\ Recorded(m) /\ Notes(k, m)
  BY <1>1, RecordKeepsConsecutive, RecordKeepsRecorded, RecordNotes
<1> HIDE DEF m
<1>3. SameLog(m, n) /\ SameRing(m, n)
  BY DEF SameLog, m
<1>4. Consecutive(n) /\ Recorded(n) /\ Retained(n) = Retained(m) /\ n.next = m.next
  BY <1>2, <1>3, RingDeterminesWindow, LogDeterminesRecorded DEF SameRing
<1>5. Notes(l, n)
  BY <1>1, <1>2, <1>4 DEF Notes
<1> QED
  BY <1>4, <1>5 DEF Sound

\* object_update_state keeps the invariant and steps the window.
LEMMA UpdateStateKept ==
  ASSUME NEW l \in LedgerType, NEW name, NEW state \in ObjectStates
  PROVE  Kept(l, UpdateState(l, name, state))
<1> DEFINE index == ObjectIndex(l, name)
           report == Report("object", l.objects[index].name, "state_update", "ok",
                            l.current, "state")
           changed == SetState(l, index, state)
<1>1. /\ index \in 0..Len(l.objects)
      /\ Len(l.objects) \in Nat
      /\ l.objects \in Seq(Object)
      /\ l.current \in Nat
      /\ l.next \in Nat
  BY ObjectIndexType, LenProperties DEF LedgerType
<1>2. CASE index = 0
  BY <1>2, RegistryStep DEF UpdateState, SameLog, SameRing
<1>3. CASE index # 0
  <2>1. index \in 1..Len(l.objects)
    BY <1>1, <1>3
  <2>2. l.objects[index] \in Object
    BY <1>1, <2>1, ElementOfSeq
  <2>3. report \in ReportType
    <3>1. l.objects[index].name \in Labels
      BY <2>2 DEF Object, Labels
    <3>2. /\ "object" \in Labels /\ "ok" \in Results
          /\ "state_update" \in Operations /\ "state" \in Kinds
      BY OperationAssumption DEF Kinds, Labels, Results
    <3> QED
      BY <1>1, <3>1, <3>2, ReportIsTyped, Zenon
  <2> HIDE DEF report
  <2>4. /\ changed \in LedgerType
        /\ Len(changed.objects) = Len(l.objects)
    BY <2>1, SetStateType
  <2>5. /\ Record(changed, report) \in LedgerType
        /\ Len(Record(changed, report).objects) = Len(l.objects)
    BY <2>3, <2>4, RecordType, RecordFrame
  <2>6. SetLast(Record(changed, report), index, l.next) \in LedgerType
    BY <1>1, <2>1, <2>5, SetLastType
  <2>7. /\ SameLog(l, changed)
        /\ SameLog(Record(changed, report), SetLast(Record(changed, report), index, l.next))
    BY <2>5, RegistryKeepsLog
  <2>8. Sound(l) => Pending(changed)
    BY <2>7, RecordedIsPending, LogDeterminesRecorded DEF Sound
  <2>9. Sound(l) => report.parent \in 0..(changed.next - 1)
    BY <1>1, <2>7 DEF Sound, Recorded, SameLog, SameRing, report, Report
  <2>10. Kept(l, SetLast(Record(changed, report), index, l.next))
    <3>1. SameRing(l, changed)
      BY <2>7 DEF SameLog
    <3> QED
      BY <2>3, <2>4, <2>6, <2>7, <2>8, <2>9, <3>1, RecordStep
  <2> QED
    BY <1>3, <2>10, Zenon DEF UpdateState, report
<1> QED
  BY <1>2, <1>3

\* So does transaction_begin, full table or not.
LEMMA BeginKept ==
  ASSUME NEW l \in LedgerType, l.next \in 1..MaxSeq, NEW actor \in Labels,
         NEW target \in Labels, NEW parent \in 0..(l.next - 1)
  PROVE  Kept(l, Begin(l, actor, target, parent))
<1> DEFINE name == TxName(l.next)
           named == Register(l, name, ObjectId(l, "events"), "open", parent)
           t == [id |-> l.next, parent |-> parent, begin |-> l.next, end |-> l.next,
                 started |-> Revision(named, target),
                 committed |-> Revision(named, target),
                 actor |-> actor, target |-> target, status |-> "open"]
           opened == [named EXCEPT !.txs = Append(@, t)]
           report == Report(actor, name, "begin", "ok", parent, "transaction")
<1>1. /\ l.next \in Nat /\ l.tx \in Nat /\ parent \in Nat
      /\ l.objects \in Seq(Object)
  BY DEF LedgerType
<1>2. /\ name \in ObjectNames
      /\ name \in Labels
      /\ "open" \in ObjectStates
  BY DEF ObjectNames, TxNames, Labels, ObjectStates, Statuses
<1>3. named \in LedgerType
  BY <1>1, <1>2, ObjectIdType, RegisterType
<1>4. report \in ReportType
  <2>1. /\ "ok" \in Results
        /\ "begin" \in Operations /\ "transaction" \in Kinds
    BY OperationAssumption DEF Kinds, Results
  <2> QED
    BY <1>1, <1>2, <2>1, ReportIsTyped, Zenon
<1>5. Revision(named, target) \in Nat
  BY <1>3, RevisionType DEF LedgerType
<1> HIDE DEF name, named, report
<1>6. t \in Transaction
  BY <1>1, <1>5 DEF Transaction, Statuses
<1>7. Append(named.txs, t) \in Seq(Transaction)
  BY <1>3, <1>6, AppendProperties DEF LedgerType
<1> HIDE DEF t
<1>8. opened \in LedgerType
  BY <1>3, <1>7 DEF LedgerType
<1> DEFINE k == SetTx(opened, l.next)
           n == SetTx(Record(k, report), l.tx)
<1>9. SameLog(l, named)
  BY <1>3, RegistryKeepsLog DEF named
<1>10. /\ SameRing(named, opened) /\ opened.txs = Append(named.txs, t)
       /\ opened.current = named.current
  BY <1>3 DEF SameRing, LedgerType
<1> HIDE DEF opened
<1>11. k \in LedgerType /\ SameLog(opened, k)
  BY <1>1, <1>8, SetTxType, RegistryKeepsLog
<1> HIDE DEF k
<1>12. n \in LedgerType /\ SameLog(Record(k, report), n)
  BY <1>1, <1>4, <1>11, RecordType, SetTxType, RegistryKeepsLog
<1>13. SameRing(l, k)
  BY <1>9, <1>10, <1>11 DEF SameLog, SameRing
<1>14. Sound(l) => Pending(k)
  <2> SUFFICES ASSUME Sound(l)
               PROVE  Pending(opened)
    BY <1>11, LogDeterminesRecorded
  <2>1. Pending(named)
    BY <1>9, RecordedIsPending, LogDeterminesRecorded DEF Sound
  <2>2. named.txs \in Seq(Transaction) /\ t.end = l.next /\ opened.next = l.next
        /\ named.next = l.next
    BY <1>3, <1>9, <1>10 DEF LedgerType, SameLog, SameRing, t
  <2>3. /\ DOMAIN named.txs = 1..Len(named.txs) /\ Len(named.txs) \in Nat
        /\ DOMAIN opened.txs = 1..(Len(named.txs) + 1)
        /\ \A i \in 1..Len(named.txs) : opened.txs[i] = named.txs[i]
        /\ opened.txs[Len(named.txs) + 1] = t
    BY <1>6, <1>7, <1>10, <2>2, AppendProperties, LenProperties
  <2>4. \A i \in DOMAIN opened.txs : opened.txs[i].end =< opened.next
    BY <1>1, <2>1, <2>2, <2>3, SMTT(30) DEF Pending
  <2>5. opened.current < opened.next
    BY <1>10, <2>1, <2>2 DEF Pending
  <2> QED
    BY <2>4, <2>5 DEF Pending
<1>15. report.parent \in 0..(k.next - 1)
  BY <1>13 DEF SameRing, report, Report
<1>16. Kept(l, n)
  BY <1>4, <1>11, <1>12, <1>13, <1>14, <1>15, RecordStep
<1>17. Kept(l, l)
  BY RegistryStep DEF SameLog, SameRing
<1> QED
  BY <1>16, <1>17, Zenon DEF Begin, k, name, named, t, opened, report

\* So does the close of a transaction of the table.
LEMMA CloseKept ==
  ASSUME NEW l \in LedgerType, NEW index \in 1..Len(l.txs),
         l.txs[index].id \in 1..MaxSeq,
         NEW status \in Statuses, NEW op \in Operations, NEW result \in Results
  PROVE  Kept(l, Close(l, index, status, op, result))
<1> DEFINE t == l.txs[index]
           name == TxName(t.id)
           closing == [l EXCEPT !.tx = t.id,
                                !.txs[index].committed = Revision(l, t.target),
                                !.txs[index].status = status]
           report == Report(t.actor, name, op, result, t.end, "transaction")
<1>1. /\ l.next \in Nat /\ l.tx \in Nat
      /\ l.objects \in Seq(Object)
      /\ l.txs \in Seq(Transaction)
  BY DEF LedgerType
<1>2. t \in Transaction
  BY <1>1, ElementOfSeq
<1>3. name \in Labels /\ name \in ObjectNames
  BY DEF ObjectNames, TxNames, Labels
<1>4. t.actor \in Labels /\ t.end \in Nat /\ t.id \in Nat
  BY <1>2 DEF Transaction
<1>5. report \in ReportType
  <2>1. "transaction" \in Kinds
    BY DEF Kinds
  <2> QED
    BY <1>3, <1>4, <2>1, ReportIsTyped, Zenon
<1>6. closing \in LedgerType
  <2> DEFINE c == [[t EXCEPT !.committed = Revision(l, t.target)] EXCEPT !.status = status]
  <2>1. Revision(l, t.target) \in Nat
    BY <1>1, RevisionType
  <2>2. c \in Transaction
    BY <1>2, <2>1 DEF Transaction
  <2>3. closing = [[l EXCEPT !.tx = t.id] EXCEPT !.txs = [l.txs EXCEPT ![index] = c]]
    BY <1>1, LenProperties DEF LedgerType
  <2>4. [l.txs EXCEPT ![index] = c] \in Seq(Transaction)
    BY <1>1, <2>2, ExceptSeq
  <2>5. [l EXCEPT !.tx = t.id] \in LedgerType
    BY <1>4 DEF LedgerType
  <2> HIDE DEF c, closing, t
  <2>6. [[l EXCEPT !.tx = t.id] EXCEPT !.txs = [l.txs EXCEPT ![index] = c]]
          \in LedgerType
    BY <2>4, <2>5 DEF LedgerType
  <2> QED
    BY <2>3, <2>6
<1>7. /\ SameRing(l, closing) /\ closing.current = l.current
      /\ DOMAIN closing.txs = DOMAIN l.txs
      /\ \A i \in DOMAIN l.txs : closing.txs[i].end = l.txs[i].end
  <2>1. SameRing(l, closing) /\ closing.current = l.current
    BY DEF SameRing, LedgerType
  <2>2. \A i \in DOMAIN l.txs : l.txs[i] \in Transaction
    BY <1>1, ElementOfSeq, LenProperties
  <2>3. closing.txs = [l.txs EXCEPT ![index] =
          [[t EXCEPT !.committed = Revision(l, t.target)] EXCEPT !.status = status]]
    BY <1>1, LenProperties DEF LedgerType
  <2>4. [[t EXCEPT !.committed = Revision(l, t.target)] EXCEPT !.status = status].end
          = t.end
    BY <1>2 DEF Transaction
  <2> HIDE DEF closing
  <2> QED
    BY <1>1, <2>1, <2>2, <2>3, <2>4, LenProperties
<1> HIDE DEF closing
<1>8. Sound(l) => Pending(closing) /\ report.parent \in 0..(closing.next - 1)
  <2> SUFFICES ASSUME Sound(l)
               PROVE  Pending(closing) /\ report.parent \in 0..(closing.next - 1)
    OBVIOUS
  <2>1. Pending(l) /\ t.end < l.next
    BY <1>1, RecordedIsPending, LenProperties DEF Sound, Recorded
  <2>2. closing.next = l.next
    BY <1>7 DEF SameRing
  <2>3. Pending(closing)
    BY <1>7, <2>1, <2>2 DEF Pending
  <2> QED
    BY <1>1, <1>4, <2>1, <2>2, <2>3 DEF report, Report
<1> HIDE DEF t, name, report
<1> DEFINE m == Record(closing, report)
           direct == SetStateDirect(m, name, status, l.next)
           n == SetTx(direct, l.tx)
<1>9. status \in ObjectStates
  BY DEF ObjectStates
<1>10. m \in LedgerType
  BY <1>5, <1>6, RecordType
<1> HIDE DEF m
<1>11. direct \in LedgerType /\ SameLog(m, direct)
  BY <1>1, <1>9, <1>10, SetStateDirectType, RegistryKeepsLog
<1> HIDE DEF direct
<1>12. n \in LedgerType /\ SameLog(direct, n)
  BY <1>1, <1>11, SetTxType, RegistryKeepsLog
<1>13. SameLog(m, n)
  BY <1>11, <1>12 DEF SameLog, SameRing
<1>14. Kept(l, n)
  BY <1>5, <1>6, <1>7, <1>8, <1>12, <1>13, RecordStep DEF m
<1> QED
  BY <1>14, Zenon DEF Close, m, direct, n, t, name, closing, report

\* So do transaction_commit and transaction_abort, of any id.
LEMMA CloseActionsKept ==
  ASSUME NEW l \in LedgerType, NEW id \in 1..MaxSeq
  PROVE  Kept(l, Commit(l, id)) /\ Kept(l, Abort(l, id))
<1>1. CASE TxIndex(l, id) = 0
  BY <1>1, RegistryStep DEF Commit, Abort, SameLog, SameRing
<1>2. CASE TxIndex(l, id) # 0
  <2>1. /\ TxIndex(l, id) \in 1..Len(l.txs)
        /\ l.txs[TxIndex(l, id)].id \in 1..MaxSeq
    BY <1>2, TxIndexMatches
  <2>2. /\ {"committed", "aborted"} \subseteq Statuses
        /\ {"ok", "denied"} \subseteq Results
    BY DEF Statuses, Results
  <2>3. /\ Kept(l, Close(l, TxIndex(l, id), "committed", "commit", "ok"))
        /\ Kept(l, Close(l, TxIndex(l, id), "aborted", "abort", "denied"))
    BY <2>1, <2>2, CloseKept, OperationAssumption
  <2> QED
    BY <1>2, <2>3 DEF Commit, Abort
<1> QED
  BY <1>1, <1>2

\* event_set_current keeps the invariant.
LEMMA SetCurrentKept ==
  ASSUME NEW l \in LedgerType, NEW event \in 0..(l.next - 1)
  PROVE  Kept(l, SetCurrent(l, event))
<1> DEFINE m == SetCurrent(l, event)
<1>1. l.next \in Nat /\ event \in Nat
  BY DEF LedgerType
<1>2. m \in LedgerType
  BY <1>1, SetTxType
<1>3. SameRing(l, m) /\ m.txs = l.txs /\ m.current = event /\ m.next = l.next
  BY DEF SetCurrent, SameRing, LedgerType
<1> HIDE DEF m
<1>4. Recorded(l) => Recorded(m)
  BY <1>1, <1>3 DEF Recorded
<1> QED
  BY <1>2, <1>3, <1>4, RingDeterminesWindow DEF Kept, Sound, Advance, m

\* The zeroed ledger is typed, has no gap and names no event.
LEMMA EmptyLedgerIsSound == EmptyLedger \in LedgerType /\ Sound(EmptyLedger)
<1>1. /\ BlankEvent \in Event
      /\ << >> \in Seq(Transaction)
      /\ << >> \in Seq(Object)
  BY DEF BlankEvent, Event, Labels, Results, Kinds
<1>2. EmptyLedger \in LedgerType
  BY <1>1, CapacityAssumption DEF EmptyLedger, LedgerType
<1>3. Sound(EmptyLedger)
  BY DEF EmptyLedger, Sound, Consecutive, Recorded
<1> QED
  BY <1>2, <1>3

\* What the transaction table says of itself.
Numbered(l) ==
  /\ \A k \in DOMAIN l.txs :
       /\ l.txs[k].id # 0 /\ l.txs[k].id < l.next
       /\ l.txs[k].begin = l.txs[k].id /\ l.txs[k].begin =< l.txs[k].end
  /\ \A j, k \in DOMAIN l.txs : l.txs[j].id = l.txs[k].id => j = k

\* The transaction in force is in the table.
Bound(l) == l.tx = 0 \/ \E k \in DOMAIN l.txs : l.txs[k].id = l.tx

Books(l) == Numbered(l) /\ Bound(l) /\ Enveloped(l)

\* The same while report is about to be recorded, perhaps as the begin event of
\* a transaction that is already in the table.
Ready(l, report) ==
  /\ \A k \in DOMAIN l.txs :
       /\ l.txs[k].id # 0 /\ l.txs[k].id =< l.next
       /\ l.txs[k].begin = l.txs[k].id /\ l.txs[k].begin =< l.txs[k].end
       /\ l.txs[k].end =< l.next
       /\ l.txs[k].id = l.next => /\ report.op = "begin"
                                  /\ report.target = TxName(l.txs[k].id)
       /\ l.txs[k].end = l.next => l.tx = l.txs[k].id
  /\ \A j, k \in DOMAIN l.txs : l.txs[j].id = l.txs[k].id => j = k
  /\ Bound(l)
  /\ Enveloped(l)

\* The entries of the table are transactions.
LEMMA TableType ==
  ASSUME NEW l \in LedgerType
  PROVE  /\ l.txs \in Seq(Transaction)
         /\ DOMAIN l.txs = 1..Len(l.txs)
         /\ Len(l.txs) \in Nat
         /\ \A k \in DOMAIN l.txs : /\ l.txs[k] \in Transaction
                                    /\ l.txs[k].id \in Nat
                                    /\ l.txs[k].begin \in Nat
                                    /\ l.txs[k].end \in Nat
<1>1. /\ l.txs \in Seq(Transaction)
      /\ DOMAIN l.txs = 1..Len(l.txs)
      /\ Len(l.txs) \in Nat
      /\ \A k \in DOMAIN l.txs : l.txs[k] \in Transaction
  BY LenProperties, ElementOfSeq DEF LedgerType
<1> QED
  BY <1>1 DEF Transaction

\* What the ring holds after one more event: the events it held, in their order,
\* without the oldest if the ring was full, and that event last.
LEMMA RecordShifts ==
  ASSUME NEW l \in LedgerType, NEW report \in ReportType
  PROVE  LET m == Record(l, report)
         IN  /\ DOMAIN Retained(m) = 1..m.count /\ m.count \in Nat
             /\ Len(Retained(m)) = m.count
             /\ \E dropped \in {0, 1} :
                  \A i \in 1..m.count :
                    IF i = m.count
                    THEN Retained(m)[i] = Stamp(l, report)
                    ELSE /\ i + dropped \in DOMAIN Retained(l)
                         /\ Retained(m)[i] = Retained(l)[i + dropped]
<1> DEFINE m == Record(l, report)
           full == l.count = EventCap
           dropped == IF full THEN 1 ELSE 0
<1>1. /\ l.count \in 0..EventCap /\ EventCap \in Nat \ {0}
      /\ m \in LedgerType
  BY CapacityAssumption, RecordType DEF LedgerType
<1>2. /\ m.count = IF full THEN l.count ELSE l.count + 1
      /\ \A p \in 0..(m.count - 1) :
           m.entries[Slot(m, p)] =
             IF p = m.count - 1 THEN Stamp(l, report)
             ELSE l.entries[Slot(l, IF full THEN p + 1 ELSE p)]
  BY RecordEntries
<1>3. /\ DOMAIN Retained(l) = 1..l.count
      /\ \A j \in 1..l.count : Retained(l)[j] = l.entries[Slot(l, j - 1)]
  BY DEF Retained
<1>4. /\ DOMAIN Retained(m) = 1..m.count
      /\ \A j \in 1..m.count : Retained(m)[j] = m.entries[Slot(m, j - 1)]
  BY DEF Retained
<1>5. Len(Retained(m)) = m.count /\ m.count \in Nat
  BY <1>1, <1>2, RetainedType
<1> HIDE DEF m
<1>6. ASSUME NEW i \in 1..m.count
      PROVE  IF i = m.count
             THEN Retained(m)[i] = Stamp(l, report)
             ELSE /\ i + dropped \in DOMAIN Retained(l)
                  /\ Retained(m)[i] = Retained(l)[i + dropped]
  <2>1. i - 1 \in 0..(m.count - 1)
    BY <1>5
  <2>2. CASE i = m.count
    BY <1>2, <1>4, <1>5, <2>1, <2>2
  <2>3. CASE i # m.count /\ full
    <3>1. i + 1 \in 1..l.count /\ (i + 1) - 1 = (i - 1) + 1 /\ i - 1 # m.count - 1
      BY <1>1, <1>2, <1>5, <2>3
    <3>2. Retained(m)[i] = l.entries[Slot(l, (i - 1) + 1)]
      BY <1>2, <1>4, <2>1, <2>3, <3>1
    <3>3. Retained(m)[i] = Retained(l)[i + 1]
      BY <1>3, <3>1, <3>2
    <3> QED
      BY <1>3, <2>3, <3>1, <3>3
  <2>4. CASE i # m.count /\ ~ full
    <3>1. i \in 1..l.count /\ i - 1 # m.count - 1 /\ i + 0 = i
      BY <1>1, <1>2, <1>5, <2>4
    <3>2. Retained(m)[i] = l.entries[Slot(l, i - 1)]
      BY <1>2, <1>4, <2>1, <2>4, <3>1
    <3> QED
      BY <1>3, <2>4, <3>1, <3>2
  <2> QED
    BY <2>2, <2>3, <2>4
<1>7. dropped \in {0, 1}
  OBVIOUS
<1> HIDE DEF dropped
<1> QED
  BY <1>4, <1>5, <1>6, <1>7 DEF m

\* The event recorded is the last that is retained.
LEMMA RecordIsLast ==
  ASSUME NEW l \in LedgerType, NEW report \in ReportType
  PROVE  Retained(Record(l, report))[Record(l, report).count] = Stamp(l, report)
<1> DEFINE m == Record(l, report)
<1>1. PICK dropped \in {0, 1} :
        \A i \in 1..m.count :
          IF i = m.count
          THEN Retained(m)[i] = Stamp(l, report)
          ELSE /\ i + dropped \in DOMAIN Retained(l)
               /\ Retained(m)[i] = Retained(l)[i + dropped]
  BY RecordShifts
<1>2. m.count \in 1..m.count
  <2>1. l.count \in 0..EventCap /\ EventCap \in Nat \ {0}
    BY CapacityAssumption DEF LedgerType
  <2>2. m.count = IF l.count = EventCap THEN l.count ELSE l.count + 1
    BY RecordEntries
  <2> QED
    BY <2>1, <2>2
<1> QED
  BY <1>1, <1>2

\* So each is that event or one of the others.
LEMMA RecordRetains ==
  ASSUME NEW l \in LedgerType, NEW report \in ReportType,
         NEW i \in DOMAIN Retained(Record(l, report))
  PROVE  \/ Retained(Record(l, report))[i] = Stamp(l, report)
         \/ \E j \in DOMAIN Retained(l) :
              Retained(Record(l, report))[i] = Retained(l)[j]
BY RecordShifts

\* The retained events are numbered below the next one.
LEMMA RetainedIsPast ==
  ASSUME NEW l \in LedgerType, Consecutive(l), NEW j \in DOMAIN Retained(l)
  PROVE  Retained(l)[j].seq \in Nat /\ Retained(l)[j].seq < l.next
<1>1. /\ l.count \in 0..EventCap /\ l.next \in Nat /\ EventCap \in Nat
      /\ l.count < l.next
      /\ \A i \in 0..(l.count - 1) : l.entries[Slot(l, i)].seq = l.next - l.count + i
  BY CapacityAssumption DEF LedgerType, Consecutive
<1>2. j \in 1..l.count /\ Retained(l)[j] = l.entries[Slot(l, j - 1)]
  BY DEF Retained
<1>3. j - 1 \in 0..(l.count - 1)
  BY <1>1, <1>2
<1>4. Retained(l)[j].seq = l.next - l.count + (j - 1)
  BY <1>1, <1>2, <1>3
<1> QED
  BY <1>1, <1>2, <1>4

\* What recording does to the table: the transaction in force ends later.
LEMMA RecordExtends ==
  ASSUME NEW l \in LedgerType, NEW report
  PROVE  /\ DOMAIN Record(l, report).txs = DOMAIN l.txs
         /\ \A k \in DOMAIN l.txs :
              Record(l, report).txs[k] =
                IF l.txs[k].id = l.tx THEN [l.txs[k] EXCEPT !.end = l.next]
                ELSE l.txs[k]
<1>1. Record(l, report).txs = Extend(l.txs, l.tx, l.next)
  BY DEF Record, LedgerType
<1> QED
  BY <1>1 DEF Extend

\* Recording an event keeps the books, and settles a transaction just entered.
LEMMA RecordKeepsBooks ==
  ASSUME NEW l \in LedgerType, NEW report \in ReportType,
         Consecutive(l), Ready(l, report)
  PROVE  Books(Record(l, report))
<1> DEFINE m == Record(l, report)
<1>1. /\ l.next \in Nat /\ l.tx \in Nat
      /\ \A k \in DOMAIN l.txs : /\ l.txs[k] \in Transaction
                                 /\ l.txs[k].id \in Nat
                                 /\ l.txs[k].begin \in Nat
                                 /\ l.txs[k].end \in Nat
  BY TableType DEF LedgerType
<1>2. m.next = l.next + 1 /\ m.tx = l.tx
  BY RecordFrame
<1>3. /\ DOMAIN m.txs = DOMAIN l.txs
      /\ \A k \in DOMAIN l.txs :
           m.txs[k] = IF l.txs[k].id = l.tx THEN [l.txs[k] EXCEPT !.end = l.next]
                      ELSE l.txs[k]
  BY RecordExtends
<1>4. \A i \in DOMAIN Retained(m) :
        \/ Retained(m)[i] = Stamp(l, report)
        \/ \E j \in DOMAIN Retained(l) : Retained(m)[i] = Retained(l)[j]
  BY RecordRetains
<1> HIDE DEF m
<1>5. \A k \in DOMAIN l.txs :
        /\ m.txs[k].id = l.txs[k].id
        /\ m.txs[k].begin = l.txs[k].begin
        /\ m.txs[k].end = IF l.txs[k].id = l.tx THEN l.next ELSE l.txs[k].end
  BY <1>1, <1>3 DEF Transaction
<1>6. Numbered(m)
  <2>1. \A k \in DOMAIN l.txs :
          /\ l.txs[k].id # 0 /\ l.txs[k].id =< l.next
          /\ l.txs[k].begin = l.txs[k].id /\ l.txs[k].begin =< l.txs[k].end
    BY DEF Ready
  <2>2. \A k \in DOMAIN m.txs :
          /\ m.txs[k].id # 0 /\ m.txs[k].id < m.next
          /\ m.txs[k].begin = m.txs[k].id /\ m.txs[k].begin =< m.txs[k].end
    BY <1>1, <1>2, <1>3, <1>5, <2>1
  <2>3. \A j, k \in DOMAIN m.txs : m.txs[j].id = m.txs[k].id => j = k
    BY <1>3, <1>5 DEF Ready
  <2> QED
    BY <2>2, <2>3 DEF Numbered
<1>7. Bound(m)
  BY <1>2, <1>3, <1>5 DEF Ready, Bound
<1>8. Enveloped(m)
  <2> DEFINE In(e, k) == m.txs[k].id = e.tx /\ e.seq \in m.txs[k].begin..m.txs[k].end
             Says(e, k) == /\ e.seq = m.txs[k].id =>
                                e.op = "begin" /\ e.target = TxName(m.txs[k].id)
                           /\ e.seq = m.txs[k].end => e.tx = m.txs[k].id
  <2>1. ASSUME NEW i \in DOMAIN Retained(m)
        PROVE  /\ Retained(m)[i].tx # 0 => \E k \in DOMAIN m.txs : In(Retained(m)[i], k)
               /\ \A k \in DOMAIN m.txs : Says(Retained(m)[i], k)
    <3>1. CASE Retained(m)[i] = Stamp(l, report)
      <4> DEFINE e == Stamp(l, report)
      <4>1. /\ e.seq = l.next /\ e.tx = l.tx
            /\ e.op = report.op /\ e.target = report.target
        BY DEF Stamp
      <4> HIDE DEF e
      <4>2. ASSUME e.tx # 0
            PROVE  \E k \in DOMAIN m.txs : In(e, k)
        <5>1. PICK k \in DOMAIN l.txs : l.txs[k].id = l.tx
          BY <4>1, <4>2 DEF Ready, Bound
        <5>2. /\ l.txs[k].id =< l.next /\ l.txs[k].begin = l.txs[k].id
          BY <5>1 DEF Ready
        <5>3. m.txs[k].id = l.tx /\ m.txs[k].begin =< l.next /\ m.txs[k].end = l.next
              /\ m.txs[k].begin \in Nat
          BY <1>1, <1>5, <5>1, <5>2
        <5>4. In(e, k)
          BY <1>1, <4>1, <5>3
        <5> QED
          BY <1>3, <5>1, <5>4
      <4>3. ASSUME NEW k \in DOMAIN m.txs
            PROVE  Says(e, k)
        <5>1. /\ l.txs[k].id = l.next => /\ report.op = "begin"
                                         /\ report.target = TxName(l.txs[k].id)
              /\ l.txs[k].end = l.next => l.tx = l.txs[k].id
          BY <1>3, <4>3 DEF Ready
        <5> QED
          BY <1>3, <1>5, <4>1, <4>3, <5>1
      <4> QED
        BY <3>1, <4>2, <4>3 DEF e
    <3>2. CASE \E j \in DOMAIN Retained(l) : Retained(m)[i] = Retained(l)[j]
      <4>1. PICK j \in DOMAIN Retained(l) : Retained(m)[i] = Retained(l)[j]
        BY <3>2
      <4> DEFINE e == Retained(l)[j]
      <4>2. e.seq \in Nat /\ e.seq < l.next
        BY RetainedIsPast
      <4>3. /\ e.tx # 0 =>
                 \E k \in DOMAIN l.txs :
                   l.txs[k].id = e.tx /\ e.seq \in l.txs[k].begin..l.txs[k].end
            /\ \A k \in DOMAIN l.txs :
                 /\ e.seq = l.txs[k].id =>
                      e.op = "begin" /\ e.target = TxName(l.txs[k].id)
                 /\ e.seq = l.txs[k].end => e.tx = l.txs[k].id
        BY DEF Ready, Enveloped
      <4> HIDE DEF e
      <4>4. ASSUME e.tx # 0
            PROVE  \E k \in DOMAIN m.txs : In(e, k)
        <5>1. PICK k \in DOMAIN l.txs :
                l.txs[k].id = e.tx /\ e.seq \in l.txs[k].begin..l.txs[k].end
          BY <4>3, <4>4
        <5>2. In(e, k)
          BY <1>1, <1>5, <4>2, <5>1
        <5> QED
          BY <1>3, <5>1, <5>2
      <4>5. ASSUME NEW k \in DOMAIN m.txs
            PROVE  Says(e, k)
        BY <1>1, <1>3, <1>5, <4>2, <4>3
      <4> QED
        BY <4>1, <4>4, <4>5 DEF e
    <3> QED
      BY <1>4, <3>1, <3>2
  <2> QED
    BY <2>1 DEF Enveloped
<1> QED
  BY <1>6, <1>7, <1>8 DEF Books, m

\* The parts of a ledger the books are made of.
SameBooks(l, m) == SameRing(l, m) /\ m.txs = l.txs

\* Ledgers with the same ring and table have the same books.
LEMMA TableDeterminesBooks ==
  ASSUME NEW l, NEW m, SameBooks(l, m)
  PROVE  /\ Numbered(l) => Numbered(m)
         /\ Enveloped(l) => Enveloped(m)
         /\ Bound(l) /\ m.tx = l.tx => Bound(m)
<1>1. /\ Retained(m) = Retained(l) /\ m.next = l.next /\ m.txs = l.txs
  BY RingDeterminesWindow DEF SameBooks, SameRing
<1> QED
  BY <1>1 DEF Numbered, Enveloped, Bound

\* The calls of the registry leave the books and the transaction in force alone.
LEMMA RegistryKeepsBooks ==
  ASSUME NEW l \in LedgerType
  PROVE  /\ \A name, parent, state, created :
              LET m == Register(l, name, parent, state, created)
              IN  SameBooks(l, m) /\ m.tx = l.tx
         /\ \A index, state :
              LET m == SetState(l, index, state)
              IN  SameBooks(l, m) /\ m.tx = l.tx
         /\ \A index, event :
              LET m == SetLast(l, index, event)
              IN  SameBooks(l, m) /\ m.tx = l.tx
         /\ \A name, state, event :
              LET m == SetStateDirect(l, name, state, event)
              IN  SameBooks(l, m) /\ m.tx = l.tx
<1>1. \A name, parent, state, created :
        Register(l, name, parent, state, created).tx = l.tx
  BY DEF Register, LedgerType
<1>2. \A index, state : SetState(l, index, state).tx = l.tx
  BY DEF SetState, LedgerType
<1>3. \A index, event : SetLast(l, index, event).tx = l.tx
  BY DEF SetLast, LedgerType
<1>4. \A name, state, event : SetStateDirect(l, name, state, event).tx = l.tx
  BY DEF SetStateDirect, SetState, SetLast, LedgerType
<1> QED
  BY <1>1, <1>2, <1>3, <1>4, RegistryKeepsLog DEF SameLog, SameBooks

\* Nor do the two setters, but for the transaction in force.
LEMMA SettersKeepBooks ==
  ASSUME NEW l \in LedgerType
  PROVE  /\ \A event : /\ SameBooks(l, SetCurrent(l, event))
                       /\ SetCurrent(l, event).tx = l.tx
         /\ \A id : SameBooks(l, SetTx(l, id)) /\ SetTx(l, id).tx = id
BY DEF SetCurrent, SetTx, SameBooks, SameRing, LedgerType

\* Books with nothing pending are ready for any event that begins nothing.
LEMMA BooksAreReady ==
  ASSUME NEW l \in LedgerType, NEW report, Books(l), Recorded(l)
  PROVE  Ready(l, report)
<1>1. /\ l.next \in Nat
      /\ \A k \in DOMAIN l.txs : l.txs[k].id \in Nat /\ l.txs[k].end \in Nat
  BY TableType DEF LedgerType
<1>2. \A k \in DOMAIN l.txs : l.txs[k].end < l.next /\ l.txs[k].id < l.next
  BY DEF Recorded, Books, Numbered
<1>3. \A k \in DOMAIN l.txs :
        /\ l.txs[k].id =< l.next /\ l.txs[k].end =< l.next
        /\ l.txs[k].id # l.next /\ l.txs[k].end # l.next
  BY <1>1, <1>2
<1> QED
  BY <1>3 DEF Ready, Books, Numbered

\* What a call may not do to a closed transaction.
Final(l, m) ==
  \A k \in DOMAIN l.txs : l.txs[k].status # "open" => m.txs[k] = l.txs[k]

\* What a call owes the transactions: the books, and every closed one as it was.
Accounted(l, m) == Books(m) /\ DOMAIN l.txs \subseteq DOMAIN m.txs /\ Final(l, m)

\* A call that leaves the ring, the table and the transaction in force alone.
LEMMA SameBooksAccounted ==
  ASSUME NEW l, NEW m, SameBooks(l, m), m.tx = l.tx, Books(l)
  PROVE  Accounted(l, m)
<1>1. Books(m)
  BY TableDeterminesBooks DEF Books
<1> QED
  BY <1>1 DEF Accounted, Final, SameBooks

\* What is done under a transaction that is open, or under none, ends no other.
LEMMA RecordIsFinal ==
  ASSUME NEW l \in LedgerType, NEW report,
         \A k \in DOMAIN l.txs : l.txs[k].id = l.tx => l.txs[k].status = "open"
  PROVE  Final(l, Record(l, report))
BY RecordExtends DEF Final

\* A call that records one event, between changes that leave the books alone.
LEMMA RecordAccounted ==
  ASSUME NEW l, NEW k \in LedgerType, NEW report \in ReportType, NEW n,
         SameLog(l, k), k.tx = l.tx,
         SameBooks(Record(k, report), n), n.tx = l.tx,
         Consecutive(l), Recorded(l), Books(l),
         \A i \in DOMAIN l.txs : l.txs[i].id = l.tx => l.txs[i].status = "open"
  PROVE  Accounted(l, n)
<1> DEFINE m == Record(k, report)
<1>1. Consecutive(k) /\ Recorded(k) /\ Books(k) /\ k.txs = l.txs
  <2>1. SameBooks(l, k)
    BY DEF SameBooks, SameLog
  <2> QED
    BY <2>1, RingDeterminesWindow, LogDeterminesRecorded, TableDeterminesBooks
       DEF SameBooks, Books
<1>2. Ready(k, report)
  BY <1>1, BooksAreReady
<1>3. Books(m)
  BY <1>1, <1>2, RecordKeepsBooks
<1>4. m.tx = k.tx /\ DOMAIN m.txs = DOMAIN k.txs
  BY RecordFrame, RecordExtends
<1>5. Final(k, m)
  BY <1>1, RecordIsFinal
<1> HIDE DEF m
<1>6. Books(n) /\ n.txs = m.txs
  BY <1>3, <1>4, TableDeterminesBooks DEF m, Books, SameBooks
<1> QED
  BY <1>1, <1>4, <1>5, <1>6 DEF Accounted, Final

\* object_update_state accounts for the transactions.
LEMMA UpdateStateAccounted ==
  ASSUME NEW l \in LedgerType, NEW name, NEW state \in ObjectStates,
         Sound(l), Books(l),
         \A i \in DOMAIN l.txs : l.txs[i].id = l.tx => l.txs[i].status = "open"
  PROVE  Accounted(l, UpdateState(l, name, state))
<1> DEFINE index == ObjectIndex(l, name)
           report == Report("object", l.objects[index].name, "state_update", "ok",
                            l.current, "state")
           changed == SetState(l, index, state)
           recorded == Record(changed, report)
           updated == SetLast(recorded, index, l.next)
<1>1. /\ index \in 0..Len(l.objects)
      /\ Len(l.objects) \in Nat
      /\ l.objects \in Seq(Object)
      /\ l.current \in Nat
  BY ObjectIndexType, LenProperties DEF LedgerType
<1>2. CASE index = 0
  <2>1. UpdateState(l, name, state) = l
    BY <1>2 DEF UpdateState
  <2>2. SameBooks(l, l)
    BY DEF SameBooks, SameRing
  <2> QED
    BY <2>1, <2>2, SameBooksAccounted
<1>3. CASE index # 0
  <2>1. index \in 1..Len(l.objects)
    BY <1>1, <1>3
  <2>2. l.objects[index] \in Object
    BY <1>1, <2>1, ElementOfSeq
  <2>3. report \in ReportType
    <3>1. l.objects[index].name \in Labels
      BY <2>2 DEF Object, Labels
    <3>2. /\ "object" \in Labels /\ "ok" \in Results
          /\ "state_update" \in Operations /\ "state" \in Kinds
      BY OperationAssumption DEF Kinds, Labels, Results
    <3> QED
      BY <1>1, <3>1, <3>2, ReportIsTyped, Zenon
  <2> HIDE DEF report
  <2>4. /\ changed \in LedgerType /\ SameLog(l, changed) /\ changed.tx = l.tx
    BY <2>1, SetStateType, RegistryKeepsLog, RegistryKeepsBooks
  <2> HIDE DEF changed
  <2>5. recorded \in LedgerType /\ recorded.tx = changed.tx
    BY <2>3, <2>4, RecordType, RecordFrame
  <2>6. SameBooks(recorded, updated) /\ updated.tx = recorded.tx
    BY <2>5, RegistryKeepsBooks
  <2> HIDE DEF index
  <2>7. Accounted(l, updated)
    BY <2>3, <2>4, <2>5, <2>6, RecordAccounted DEF Sound
  <2>8. UpdateState(l, name, state) = updated
    BY <1>3, Zenon DEF UpdateState, report, changed, index
  <2> QED
    BY <2>7, <2>8, Zenon
<1> QED
  BY <1>2, <1>3

\* The envelope depends on the ring and on where transactions begin and end.
LEMMA EndsDetermineEnvelope ==
  ASSUME NEW l, NEW m, SameRing(l, m), DOMAIN m.txs = DOMAIN l.txs,
         \A k \in DOMAIN l.txs : /\ m.txs[k].id = l.txs[k].id
                                 /\ m.txs[k].begin = l.txs[k].begin
                                 /\ m.txs[k].end = l.txs[k].end,
         Enveloped(l)
  PROVE  Enveloped(m)
<1>1. Retained(m) = Retained(l)
  BY RingDeterminesWindow
<1> QED
  BY <1>1 DEF Enveloped

\* Putting the outer transaction back in force keeps the books.
LEMMA RestoreKeepsBooks ==
  ASSUME NEW l \in LedgerType, Books(l), NEW id,
         id = 0 \/ \E k \in DOMAIN l.txs : l.txs[k].id = id
  PROVE  Books(SetTx(l, id))
<1>1. SameBooks(l, SetTx(l, id)) /\ SetTx(l, id).tx = id
  BY SettersKeepBooks
<1> QED
  BY <1>1, TableDeterminesBooks DEF Books, Bound, SameBooks

\* transaction_begin accounts for the transactions, full table or not.
LEMMA BeginAccounted ==
  ASSUME NEW l \in LedgerType, l.next \in 1..MaxSeq, NEW actor \in Labels,
         NEW target \in Labels, NEW parent \in 0..(l.next - 1),
         Sound(l), Books(l)
  PROVE  Accounted(l, Begin(l, actor, target, parent))
<1> DEFINE name == TxName(l.next)
           named == Register(l, name, ObjectId(l, "events"), "open", parent)
           t == [id |-> l.next, parent |-> parent, begin |-> l.next, end |-> l.next,
                 started |-> Revision(named, target),
                 committed |-> Revision(named, target),
                 actor |-> actor, target |-> target, status |-> "open"]
           opened == [named EXCEPT !.txs = Append(@, t)]
           report == Report(actor, name, "begin", "ok", parent, "transaction")
<1>1. /\ l.next \in Nat /\ l.tx \in Nat /\ parent \in Nat /\ l.next # 0
      /\ l.objects \in Seq(Object)
  BY DEF LedgerType
<1>2. /\ name \in ObjectNames
      /\ name \in Labels
      /\ "open" \in ObjectStates
  BY DEF ObjectNames, TxNames, Labels, ObjectStates, Statuses
<1>3. named \in LedgerType /\ SameLog(l, named) /\ named.tx = l.tx
  BY <1>1, <1>2, ObjectIdType, RegisterType, RegistryKeepsLog, RegistryKeepsBooks
<1>4. /\ report \in ReportType
      /\ report.op = "begin" /\ report.target = name
  <2>1. /\ "ok" \in Results
        /\ "begin" \in Operations /\ "transaction" \in Kinds
    BY OperationAssumption DEF Kinds, Results
  <2>2. report \in ReportType
    BY <1>1, <1>2, <2>1, ReportIsTyped, Zenon
  <2> QED
    BY <2>2 DEF Report
<1>5. Revision(named, target) \in Nat
  BY <1>3, RevisionType DEF LedgerType
<1> HIDE DEF named, report
<1>6. /\ t \in Transaction
      /\ t.id = l.next /\ t.begin = l.next /\ t.end = l.next
  BY <1>1, <1>5 DEF Transaction, Statuses
<1> HIDE DEF t
<1>7. Append(named.txs, t) \in Seq(Transaction)
  BY <1>3, <1>6, AppendProperties DEF LedgerType
<1>8. opened \in LedgerType
  BY <1>3, <1>7 DEF LedgerType
<1> DEFINE k == SetTx(opened, l.next)
           m == Record(k, report)
           n == SetTx(m, l.tx)
           last == Len(l.txs) + 1
<1>9. k \in LedgerType
  BY <1>1, <1>8, SetTxType
<1>10. SameRing(l, k) /\ k.txs = Append(l.txs, t) /\ k.tx = l.next /\ k.next = l.next
  <2>1. SameRing(named, opened) /\ opened.txs = Append(named.txs, t)
    BY <1>3 DEF SameRing, LedgerType
  <2> HIDE DEF opened
  <2>2. SameBooks(opened, k) /\ k.tx = l.next
    BY <1>8, SettersKeepBooks
  <2> HIDE DEF k
  <2> QED
    BY <1>3, <2>1, <2>2 DEF SameLog, SameBooks, SameRing
<1> HIDE DEF opened, k
<1>11. /\ DOMAIN l.txs = 1..Len(l.txs) /\ Len(l.txs) \in Nat
       /\ DOMAIN k.txs = 1..last
       /\ \A i \in DOMAIN l.txs : k.txs[i] = l.txs[i]
       /\ k.txs[last] = t
       /\ \A i \in DOMAIN k.txs : i \in DOMAIN l.txs \/ i = last
  BY <1>6, <1>10, TableType, AppendProperties
<1>12. \A i \in DOMAIN l.txs :
         /\ l.txs[i].id # 0 /\ l.txs[i].id < l.next
         /\ l.txs[i].begin = l.txs[i].id /\ l.txs[i].begin =< l.txs[i].end
         /\ l.txs[i].end < l.next
         /\ l.txs[i].id \in Nat /\ l.txs[i].end \in Nat
         /\ l.txs[i].id # l.next /\ l.txs[i].end # l.next
  <2>1. \A i \in DOMAIN l.txs :
          /\ l.txs[i].id # 0 /\ l.txs[i].id < l.next
          /\ l.txs[i].begin = l.txs[i].id /\ l.txs[i].begin =< l.txs[i].end
          /\ l.txs[i].end < l.next
    BY DEF Books, Numbered, Sound, Recorded
  <2>2. \A i \in DOMAIN l.txs : l.txs[i].id \in Nat /\ l.txs[i].end \in Nat
    BY TableType
  <2> QED
    BY <1>1, <2>1, <2>2
<1> HIDE DEF last
<1>13. Enveloped(k)
  <2>1. Retained(k) = Retained(l)
    BY <1>10, RingDeterminesWindow
  <2>2. \A j \in DOMAIN Retained(l) : Retained(l)[j].seq # l.next
    <3>1. \A j \in DOMAIN Retained(l) :
            Retained(l)[j].seq \in Nat /\ Retained(l)[j].seq < l.next
      BY RetainedIsPast DEF Sound
    <3> QED
      BY <1>1, <3>1
  <2>3. ASSUME NEW j \in DOMAIN Retained(l)
        PROVE  LET event == Retained(l)[j]
               IN  /\ event.tx # 0 =>
                        \E i \in DOMAIN k.txs :
                          /\ k.txs[i].id = event.tx
                          /\ event.seq \in k.txs[i].begin..k.txs[i].end
                   /\ \A i \in DOMAIN k.txs :
                        /\ event.seq = k.txs[i].id =>
                             event.op = "begin" /\ event.target = TxName(k.txs[i].id)
                        /\ event.seq = k.txs[i].end => event.tx = k.txs[i].id
    <3> DEFINE event == Retained(l)[j]
    <3>1. /\ event.tx # 0 =>
               \E i \in DOMAIN l.txs :
                 /\ l.txs[i].id = event.tx
                 /\ event.seq \in l.txs[i].begin..l.txs[i].end
          /\ \A i \in DOMAIN l.txs :
               /\ event.seq = l.txs[i].id =>
                    event.op = "begin" /\ event.target = TxName(l.txs[i].id)
               /\ event.seq = l.txs[i].end => event.tx = l.txs[i].id
      BY DEF Books, Enveloped
    <3>2. event.seq # l.next
      BY <2>2
    <3> HIDE DEF event
    <3>3. DOMAIN l.txs \subseteq DOMAIN k.txs
      BY <1>11 DEF last
    <3>4. event.tx # 0 =>
            \E i \in DOMAIN k.txs :
              k.txs[i].id = event.tx /\ event.seq \in k.txs[i].begin..k.txs[i].end
      BY <1>11, <3>1, <3>3
    <3>5. ASSUME NEW i \in DOMAIN k.txs
          PROVE  /\ event.seq = k.txs[i].id =>
                      event.op = "begin" /\ event.target = TxName(k.txs[i].id)
                 /\ event.seq = k.txs[i].end => event.tx = k.txs[i].id
      <4>1. CASE i \in DOMAIN l.txs
        BY <1>11, <3>1, <4>1
      <4>2. CASE i = last
        BY <1>6, <1>11, <3>2, <4>2
      <4> QED
        BY <1>11, <4>1, <4>2
    <3> QED
      BY <3>4, <3>5 DEF event
  <2> QED
    BY <2>1, <2>3 DEF Enveloped
<1>14. Ready(k, report)
  <2>1. ASSUME NEW i \in DOMAIN k.txs
        PROVE  /\ k.txs[i].id # 0 /\ k.txs[i].id =< k.next
               /\ k.txs[i].begin = k.txs[i].id /\ k.txs[i].begin =< k.txs[i].end
               /\ k.txs[i].end =< k.next
               /\ k.txs[i].id = k.next => /\ report.op = "begin"
                                          /\ report.target = TxName(k.txs[i].id)
               /\ k.txs[i].end = k.next => k.tx = k.txs[i].id
    <3>1. CASE i \in DOMAIN l.txs
      BY <1>1, <1>10, <1>11, <1>12, <3>1
    <3>2. CASE i = last
      BY <1>1, <1>4, <1>6, <1>10, <1>11, <3>2
    <3> QED
      BY <1>11, <3>1, <3>2
  <2>2. ASSUME NEW i \in DOMAIN k.txs, NEW j \in DOMAIN k.txs,
               k.txs[i].id = k.txs[j].id
        PROVE  i = j
    <3>1. CASE i \in DOMAIN l.txs /\ j \in DOMAIN l.txs
      BY <1>11, <2>2, <3>1 DEF Books, Numbered
    <3>2. CASE i = last \/ j = last
      BY <1>6, <1>11, <1>12, <2>2, <3>2
    <3> QED
      BY <1>11, <3>1, <3>2
  <2>3. Bound(k)
    <3>1. last \in DOMAIN k.txs
      BY <1>11 DEF last
    <3> QED
      BY <1>6, <1>10, <1>11, <3>1 DEF Bound
  <2> QED
    BY <1>13, <2>1, <2>2, <2>3 DEF Ready
<1>15. Consecutive(k)
  BY <1>10, RingDeterminesWindow DEF Sound
<1>16. m \in LedgerType /\ Books(m)
  BY <1>4, <1>9, <1>14, <1>15, RecordType, RecordKeepsBooks
<1>17. /\ DOMAIN m.txs = DOMAIN k.txs
       /\ \A i \in DOMAIN l.txs : m.txs[i] = l.txs[i]
  <2>1. /\ DOMAIN m.txs = DOMAIN k.txs
        /\ \A i \in DOMAIN k.txs : k.txs[i].id # k.tx => m.txs[i] = k.txs[i]
    BY <1>9, RecordExtends
  <2>2. DOMAIN l.txs \subseteq DOMAIN k.txs
    BY <1>11 DEF last
  <2> HIDE DEF m
  <2> QED
    BY <1>10, <1>11, <1>12, <2>1, <2>2
<1> HIDE DEF m
<1>18. DOMAIN l.txs \subseteq DOMAIN m.txs
  BY <1>11, <1>17 DEF last
<1>19. Books(n)
  <2>1. l.tx = 0 \/ \E i \in DOMAIN m.txs : m.txs[i].id = l.tx
    BY <1>17, <1>18 DEF Books, Bound
  <2> QED
    BY <1>16, <2>1, RestoreKeepsBooks
<1>20. n.txs = m.txs
  BY <1>16, SettersKeepBooks DEF SameBooks
<1> HIDE DEF n
<1>21. Accounted(l, n)
  BY <1>17, <1>18, <1>19, <1>20 DEF Accounted, Final
<1>22. Accounted(l, l)
  BY SameBooksAccounted DEF SameBooks, SameRing
<1> QED
  BY <1>21, <1>22, Zenon DEF Begin, m, n, k, name, named, t, opened, report

\* The transaction a close leaves in the table.
Closed(l, index, status) ==
  [l.txs[index] EXCEPT !.committed = Revision(l, l.txs[index].target),
                       !.status = status]

\* The ledger a close records its event in.
Closing(l, index, status) ==
  [l EXCEPT !.tx = l.txs[index].id,
            !.txs[index].committed = Revision(l, l.txs[index].target),
            !.txs[index].status = status]

\* Marking a transaction closed changes it alone, and not its number or its ends.
LEMMA ClosingType ==
  ASSUME NEW l \in LedgerType, NEW index \in 1..Len(l.txs), NEW status \in Statuses
  PROVE  /\ Closing(l, index, status) \in LedgerType
         /\ SameRing(l, Closing(l, index, status))
         /\ Closing(l, index, status).objects = l.objects
         /\ Closing(l, index, status).current = l.current
         /\ Closing(l, index, status).tx = l.txs[index].id
         /\ Closing(l, index, status).txs =
              [l.txs EXCEPT ![index] = Closed(l, index, status)]
         /\ Closed(l, index, status).id = l.txs[index].id
         /\ Closed(l, index, status).begin = l.txs[index].begin
         /\ Closed(l, index, status).end = l.txs[index].end
<1> DEFINE t == l.txs[index]
           closed == [[t EXCEPT !.committed = Revision(l, t.target)]
                         EXCEPT !.status = status]
           closing == Closing(l, index, status)
<1>1. /\ l.objects \in Seq(Object)
      /\ l.txs \in Seq(Transaction)
      /\ DOMAIN l.txs = 1..Len(l.txs)
  BY TableType DEF LedgerType
<1>2. t \in Transaction /\ t.id \in Nat
  <2>1. t \in Transaction
    BY <1>1, ElementOfSeq
  <2> QED
    BY <2>1 DEF Transaction
<1>3. Closed(l, index, status) = closed
  BY DEF Closed
<1>4. /\ closed \in Transaction
      /\ closed.id = t.id /\ closed.begin = t.begin /\ closed.end = t.end
  <2>1. Revision(l, t.target) \in Nat
    BY <1>1, RevisionType
  <2> QED
    BY <1>2, <2>1 DEF Transaction
<1>5. closing = [[l EXCEPT !.tx = t.id] EXCEPT !.txs = [l.txs EXCEPT ![index] = closed]]
  BY <1>1 DEF LedgerType, Closing
<1> HIDE DEF t, closed, closing
<1>6. [l.txs EXCEPT ![index] = closed] \in Seq(Transaction)
  BY <1>1, <1>4, ExceptSeq
<1>7. /\ SameRing(l, closing) /\ closing.tx = t.id /\ closing.current = l.current
      /\ closing.objects = l.objects
      /\ closing.txs = [l.txs EXCEPT ![index] = closed]
  BY <1>5 DEF SameRing, LedgerType
<1>8. closing \in LedgerType
  BY <1>2, <1>5, <1>6 DEF LedgerType
<1> QED
  BY <1>3, <1>4, <1>7, <1>8 DEF t, closing

\* The event of a close is typed.
LEMMA CloseReportType ==
  ASSUME NEW t \in Transaction, t.id \in 1..MaxSeq,
         NEW op \in Operations, NEW result \in Results
  PROVE  Report(t.actor, TxName(t.id), op, result, t.end, "transaction") \in ReportType
<1>1. /\ TxName(t.id) \in Labels /\ "transaction" \in Kinds
      /\ t.actor \in Labels /\ t.end \in Nat
  BY DEF ObjectNames, TxNames, Labels, Kinds, Transaction
<1> QED
  BY <1>1, ReportIsTyped, Zenon

\* Closing an open transaction of the table accounts for the transactions.
LEMMA CloseAccounted ==
  ASSUME NEW l \in LedgerType, NEW index \in 1..Len(l.txs),
         l.txs[index].id \in 1..MaxSeq, l.txs[index].status = "open",
         NEW status \in Statuses, NEW op \in Operations, NEW result \in Results,
         Sound(l), Books(l)
  PROVE  Accounted(l, Close(l, index, status, op, result))
<1> DEFINE t == l.txs[index]
           name == TxName(t.id)
           closed == Closed(l, index, status)
           closing == Closing(l, index, status)
           report == Report(t.actor, name, op, result, t.end, "transaction")
<1>1. /\ l.next \in Nat /\ l.tx \in Nat
      /\ l.objects \in Seq(Object)
      /\ l.txs \in Seq(Transaction)
      /\ DOMAIN l.txs = 1..Len(l.txs)
      /\ index \in DOMAIN l.txs
  BY TableType DEF LedgerType
<1>2. t \in Transaction
  BY <1>1, ElementOfSeq
<1>3. report \in ReportType
  BY <1>2, CloseReportType
<1>4. closed.id = t.id /\ closed.begin = t.begin /\ closed.end = t.end
  BY ClosingType
<1>5. /\ closing \in LedgerType /\ SameRing(l, closing)
      /\ closing.current = l.current
      /\ closing.tx = t.id
      /\ closing.txs = [l.txs EXCEPT ![index] = closed]
  BY ClosingType
<1> HIDE DEF closed, closing, report
<1>6. /\ DOMAIN closing.txs = DOMAIN l.txs
      /\ closing.txs[index] = closed
      /\ \A k \in DOMAIN l.txs : k # index => closing.txs[k] = l.txs[k]
  BY <1>1, <1>5
<1>7. \A k \in DOMAIN l.txs : /\ closing.txs[k].id = l.txs[k].id
                              /\ closing.txs[k].begin = l.txs[k].begin
                              /\ closing.txs[k].end = l.txs[k].end
  BY <1>4, <1>6
<1> HIDE DEF t
<1>8. Books(closing) /\ Recorded(closing) /\ Consecutive(closing)
  <2>1. closing.next = l.next
    BY <1>5 DEF SameRing
  <2>2. Numbered(closing)
    BY <1>6, <1>7, <2>1 DEF Books, Numbered
  <2>3. Bound(closing)
    BY <1>1, <1>5, <1>6, <1>7 DEF Bound, t
  <2>4. Enveloped(closing)
    BY <1>5, <1>6, <1>7, EndsDetermineEnvelope DEF Books
  <2>5. Recorded(closing)
    BY <1>5, <1>6, <1>7, <2>1 DEF Sound, Recorded
  <2>6. Consecutive(closing)
    BY <1>5, RingDeterminesWindow DEF Sound
  <2> QED
    BY <2>2, <2>3, <2>4, <2>5, <2>6 DEF Books
<1> DEFINE m == Record(closing, report)
           direct == SetStateDirect(m, name, status, l.next)
           n == SetTx(direct, l.tx)
<1>9. m \in LedgerType /\ Books(m)
  BY <1>3, <1>5, <1>8, RecordType, BooksAreReady, RecordKeepsBooks
<1>10. /\ DOMAIN m.txs = DOMAIN l.txs
       /\ \A k \in DOMAIN l.txs : m.txs[k].id = l.txs[k].id
       /\ \A k \in DOMAIN l.txs : k # index => m.txs[k] = l.txs[k]
  <2>1. /\ DOMAIN m.txs = DOMAIN closing.txs
        /\ \A k \in DOMAIN closing.txs :
             m.txs[k] = IF closing.txs[k].id = closing.tx
                        THEN [closing.txs[k] EXCEPT !.end = closing.next]
                        ELSE closing.txs[k]
    BY <1>5, RecordExtends
  <2> HIDE DEF m
  <2>2. \A k \in DOMAIN l.txs : k # index => l.txs[k].id # t.id
    BY <1>1 DEF Books, Numbered, t
  <2>3. \A k \in DOMAIN closing.txs : closing.txs[k] \in Transaction
    BY <1>5, TableType
  <2>4. \A k \in DOMAIN l.txs : m.txs[k].id = l.txs[k].id
    BY <1>6, <1>7, <2>1, <2>3 DEF Transaction
  <2>5. \A k \in DOMAIN l.txs : k # index => m.txs[k] = l.txs[k]
    BY <1>5, <1>6, <2>1, <2>2
  <2> QED
    BY <1>6, <2>1, <2>4, <2>5
<1>11. direct \in LedgerType
  <2>1. status \in ObjectStates
    BY DEF ObjectStates
  <2> QED
    BY <1>1, <1>9, <2>1, SetStateDirectType
<1> HIDE DEF m
<1>12. SameBooks(m, direct) /\ direct.tx = m.tx
  BY <1>9, RegistryKeepsBooks
<1> HIDE DEF direct
<1>13. Books(direct) /\ direct.txs = m.txs
  BY <1>9, <1>12, TableDeterminesBooks DEF Books, SameBooks
<1>14. Books(n)
  <2>1. l.tx = 0 \/ \E k \in DOMAIN direct.txs : direct.txs[k].id = l.tx
    BY <1>10, <1>13 DEF Books, Bound
  <2> QED
    BY <1>11, <1>13, <2>1, RestoreKeepsBooks
<1>15. n.txs = m.txs
  BY <1>11, <1>13, SettersKeepBooks DEF SameBooks
<1> HIDE DEF n
<1>16. Accounted(l, n)
  BY <1>10, <1>14, <1>15 DEF Accounted, Final
<1> QED
  BY <1>16, Zenon DEF Close, m, direct, n, t, name, closing, Closing, report

\* A transaction that may still be closed, and a caller whose transaction in force,
\* if there is one, is such a transaction.
OpenIn(l, id) == \E i \in DOMAIN l.txs : l.txs[i].id = id /\ l.txs[i].status = "open"
SettledIn(l) == l.tx = 0 \/ OpenIn(l, l.tx)

\* A settled caller's transaction in force is open.
LEMMA SettledIsOpen ==
  ASSUME NEW l, Books(l), SettledIn(l), NEW k \in DOMAIN l.txs, l.txs[k].id = l.tx
  PROVE  l.txs[k].status = "open"
<1>1. l.tx # 0
  BY DEF Books, Numbered
<1>2. PICK i \in DOMAIN l.txs : l.txs[i].id = l.tx /\ l.txs[i].status = "open"
  BY <1>1 DEF SettledIn, OpenIn
<1>3. i = k
  BY <1>2 DEF Books, Numbered
<1> QED
  BY <1>2, <1>3

\* transaction_commit and transaction_abort of an open transaction account for
\* the transactions: the table has no other of that id.
LEMMA CloseActionsAccounted ==
  ASSUME NEW l \in LedgerType, NEW id \in 1..MaxSeq,
         Sound(l), Books(l), OpenIn(l, id)
  PROVE  Accounted(l, Commit(l, id)) /\ Accounted(l, Abort(l, id))
<1> DEFINE index == TxIndex(l, id)
<1>1. CASE index = 0
  BY <1>1, SameBooksAccounted DEF Commit, Abort, SameBooks, SameRing
<1>2. CASE index # 0
  <2>1. index \in 1..Len(l.txs) /\ l.txs[index].id = id
    BY <1>2, TxIndexMatches
  <2>2. l.txs[index].status = "open"
    <3>1. PICK i \in DOMAIN l.txs : /\ l.txs[i].id = id
                                         /\ l.txs[i].status = "open"
      BY DEF OpenIn
    <3>2. index \in DOMAIN l.txs
      BY <2>1, TableType
    <3>3. index = i
      BY <2>1, <3>1, <3>2 DEF Books, Numbered
    <3> QED
      BY <3>1, <3>3
  <2>3. /\ {"committed", "aborted"} \subseteq Statuses
        /\ {"ok", "denied"} \subseteq Results
    BY DEF Statuses, Results
  <2> HIDE DEF index
  <2>4. /\ Accounted(l, Close(l, index, "committed", "commit", "ok"))
        /\ Accounted(l, Close(l, index, "aborted", "abort", "denied"))
    BY <2>1, <2>2, <2>3, CloseAccounted, OperationAssumption
  <2> QED
    BY <1>2, <2>4 DEF Commit, Abort, index
<1> QED
  BY <1>1, <1>2

\* The zeroed ledger has no books to keep.
LEMMA EmptyLedgerBooks == Books(EmptyLedger)
BY DEF EmptyLedger, Books, Numbered, Bound, Enveloped, Retained

(***************************************************************************)
(* The registry: what a call may do to an object.                          *)
(***************************************************************************)
\* An object after a call is the object before it, or its next revision, made
\* by that event.
Traced(old, new, event) ==
  /\ new.id = old.id /\ new.name = old.name /\ new.created = old.created
  /\ new # old => new.rev = old.rev + 1 /\ new.last = event

\* What a call may do to the registry: with no event recorded, only add to it.
Untouched(l, m) ==
  \A i \in DOMAIN l.objects : m.objects[i] = l.objects[i]
Tracked(l, m) ==
  \/ Untouched(l, m)
  \/ /\ m.next = l.next + 1
     /\ \A i \in DOMAIN l.objects : Traced(l.objects[i], m.objects[i], l.next)

\* object_register adds to the registry, or leaves it as it is.
LEMMA RegisterTracked ==
  ASSUME NEW l \in LedgerType, NEW name \in ObjectNames, NEW parent \in Nat,
         NEW state \in ObjectStates, NEW created \in Nat
  PROVE  Untouched(l, Register(l, name, parent, state, created))
<1> DEFINE object == [id |-> Len(l.objects) + 1, name |-> name, parent |-> parent,
                      rev |-> 1, state |-> state,
                      created |-> created, last |-> created]
           m == Register(l, name, parent, state, created)
<1>1. l.objects \in Seq(Object) /\ Len(l.objects) \in Nat
      /\ DOMAIN l.objects = 1..Len(l.objects)
  BY LenProperties DEF LedgerType
<1>2. object \in Object
  BY <1>1 DEF Object
<1> HIDE DEF object
<1>3. \A i \in DOMAIN l.objects : Append(l.objects, object)[i] = l.objects[i]
  BY <1>1, <1>2, AppendProperties
<1>4. m.objects = l.objects \/ m.objects = Append(l.objects, object)
  BY DEF Register, LedgerType, object
<1> QED
  BY <1>3, <1>4 DEF Untouched

\* A changed object is traced to the event the change is put down to.
LEMMA ChangeTraced ==
  ASSUME NEW l \in LedgerType, NEW index \in 1..Len(l.objects),
         NEW state \in ObjectStates, NEW event \in Nat,
         NEW k \in LedgerType, k.objects = SetState(l, index, state).objects,
         NEW i \in DOMAIN l.objects
  PROVE  Traced(l.objects[i], SetLast(k, index, event).objects[i], event)
<1> DEFINE old == l.objects[index]
           changed == [[old EXCEPT !.state = state] EXCEPT !.rev = old.rev + 1]
           new == [changed EXCEPT !.last = event]
<1>1. /\ l.objects \in Seq(Object) /\ DOMAIN l.objects = 1..Len(l.objects)
      /\ k.objects \in Seq(Object) /\ DOMAIN k.objects = 1..Len(k.objects)
  BY LenProperties DEF LedgerType
<1>2. old \in Object
  BY <1>1, ElementOfSeq
<1>3. changed \in Object /\ changed.rev = old.rev + 1
      /\ changed.id = old.id /\ changed.name = old.name /\ changed.created = old.created
  BY <1>2, ObjectChangeType DEF Object
<1>4. new \in Object /\ new.last = event /\ new.rev = changed.rev
      /\ new.id = changed.id /\ new.name = changed.name
      /\ new.created = changed.created
  <2> HIDE DEF changed
  <2> QED
    BY <1>3 DEF Object
<1>5. k.objects = [l.objects EXCEPT ![index] = changed]
  BY <1>1, <1>2 DEF SetState, LedgerType, Object
<1> HIDE DEF changed
<1>6. SetLast(k, index, event).objects =
        [k.objects EXCEPT ![index] = [k.objects[index] EXCEPT !.last = event]]
  BY DEF SetLast, LedgerType
<1>7. SetLast(k, index, event).objects[i] = IF i = index THEN new ELSE l.objects[i]
  BY <1>1, <1>5, <1>6
<1> HIDE DEF new, old
<1>8. CASE i = index
  BY <1>3, <1>4, <1>7, <1>8 DEF Traced, old
<1>9. CASE i # index
  BY <1>7, <1>9 DEF Traced
<1> QED
  BY <1>8, <1>9

\* object_update_state traces the change to the event it records.
LEMMA UpdateStateTracked ==
  ASSUME NEW l \in LedgerType, NEW name, NEW state \in ObjectStates
  PROVE  Tracked(l, UpdateState(l, name, state))
<1> DEFINE index == ObjectIndex(l, name)
           report == Report("object", l.objects[index].name, "state_update", "ok",
                            l.current, "state")
           changed == SetState(l, index, state)
           recorded == Record(changed, report)
           updated == SetLast(recorded, index, l.next)
<1>1. /\ index \in 0..Len(l.objects)
      /\ Len(l.objects) \in Nat
      /\ l.objects \in Seq(Object)
      /\ l.current \in Nat /\ l.next \in Nat
  BY ObjectIndexType, LenProperties DEF LedgerType
<1>2. CASE index = 0
  BY <1>2 DEF UpdateState, Tracked, Untouched
<1>3. CASE index # 0
  <2>1. index \in 1..Len(l.objects)
    BY <1>1, <1>3
  <2>2. l.objects[index] \in Object
    BY <1>1, <2>1, ElementOfSeq
  <2>3. report \in ReportType
    <3>1. l.objects[index].name \in Labels
      BY <2>2 DEF Object, Labels
    <3>2. /\ "object" \in Labels /\ "ok" \in Results
          /\ "state_update" \in Operations /\ "state" \in Kinds
      BY OperationAssumption DEF Kinds, Labels, Results
    <3> QED
      BY <1>1, <3>1, <3>2, ReportIsTyped, Zenon
  <2> HIDE DEF report
  <2>4. changed \in LedgerType /\ changed.next = l.next
    BY <2>1, SetStateType, RegistryKeepsLog DEF SameLog, SameRing
  <2>5. /\ recorded \in LedgerType /\ recorded.objects = changed.objects
        /\ recorded.next = l.next + 1
    BY <2>3, <2>4, RecordType, RecordFrame
  <2> HIDE DEF recorded, index
  <2>6. \A i \in DOMAIN l.objects : Traced(l.objects[i], updated.objects[i], l.next)
    BY <1>1, <2>1, <2>5, ChangeTraced
  <2>7. updated.next = l.next + 1
    BY <2>5, RegistryKeepsLog DEF SameLog, SameRing
  <2>8. UpdateState(l, name, state) = updated
    BY <1>3, Zenon DEF UpdateState, report, changed, recorded, index
  <2> QED
    BY <2>6, <2>7, <2>8 DEF Tracked
<1> QED
  BY <1>2, <1>3

\* object_set_state_direct traces the change to the event it is given.
LEMMA SetStateDirectTracked ==
  ASSUME NEW l \in LedgerType, NEW name, NEW state \in ObjectStates,
         NEW event \in Nat, NEW i \in DOMAIN l.objects
  PROVE  Traced(l.objects[i], SetStateDirect(l, name, state, event).objects[i], event)
<1> DEFINE index == ObjectIndex(l, name)
<1>1. index \in 0..Len(l.objects) /\ Len(l.objects) \in Nat
  BY ObjectIndexType, LenProperties DEF LedgerType
<1>2. CASE index = 0
  BY <1>2 DEF SetStateDirect, Traced
<1>3. CASE index # 0
  <2>1. index \in 1..Len(l.objects)
    BY <1>1, <1>3
  <2>2. SetStateDirect(l, name, state, event) =
          SetLast(SetState(l, index, state), index, event)
    BY <1>3 DEF SetStateDirect
  <2>3. SetState(l, index, state) \in LedgerType
    BY <2>1, SetStateType
  <2> HIDE DEF index
  <2> QED
    BY <2>1, <2>2, <2>3, ChangeTraced
<1> QED
  BY <1>2, <1>3

\* transaction_begin adds the transaction's object, and touches no other.
LEMMA BeginTracked ==
  ASSUME NEW l \in LedgerType, l.next \in 1..MaxSeq, NEW actor,
         NEW target, NEW parent \in 0..(l.next - 1)
  PROVE  Untouched(l, Begin(l, actor, target, parent))
<1> DEFINE name == TxName(l.next)
           named == Register(l, name, ObjectId(l, "events"), "open", parent)
           t == [id |-> l.next, parent |-> parent, begin |-> l.next, end |-> l.next,
                 started |-> Revision(named, target),
                 committed |-> Revision(named, target),
                 actor |-> actor, target |-> target, status |-> "open"]
           opened == [named EXCEPT !.txs = Append(@, t)]
           report == Report(actor, name, "begin", "ok", parent, "transaction")
           n == SetTx(Record(SetTx(opened, l.next), report), l.tx)
<1>1. /\ parent \in Nat
      /\ l.objects \in Seq(Object)
      /\ name \in ObjectNames /\ "open" \in ObjectStates
  BY DEF LedgerType, ObjectNames, TxNames, ObjectStates, Statuses
<1>2. Untouched(l, named)
  BY <1>1, ObjectIdType, RegisterTracked
<1> HIDE DEF named, report, t
<1>3. n.objects = named.objects
  BY DEF SetTx, Record
<1> HIDE DEF n
<1>4. Untouched(l, n) /\ Untouched(l, l)
  BY <1>2, <1>3 DEF Untouched
<1> QED
  BY <1>4, Zenon DEF Begin, n, name, named, t, opened, report

\* Closing a transaction traces the change of its object to the closing event.
LEMMA CloseTracked ==
  ASSUME NEW l \in LedgerType, NEW index \in 1..Len(l.txs),
         l.txs[index].id \in 1..MaxSeq,
         NEW status \in Statuses, NEW op \in Operations, NEW result \in Results
  PROVE  Tracked(l, Close(l, index, status, op, result))
<1> DEFINE t == l.txs[index]
           name == TxName(t.id)
           closing == Closing(l, index, status)
           report == Report(t.actor, name, op, result, t.end, "transaction")
           m == Record(closing, report)
           direct == SetStateDirect(m, name, status, l.next)
           n == SetTx(direct, l.tx)
<1>1. t \in Transaction /\ l.next \in Nat /\ status \in ObjectStates
  BY TableType DEF LedgerType, ObjectStates
<1>2. report \in ReportType
  BY <1>1, CloseReportType
<1>3. closing \in LedgerType /\ closing.objects = l.objects /\ closing.next = l.next
  BY ClosingType DEF SameRing
<1> HIDE DEF report, closing
<1>4. m \in LedgerType /\ m.objects = l.objects /\ m.next = l.next + 1
  BY <1>2, <1>3, RecordType, RecordFrame
<1> HIDE DEF t, m
<1>5. /\ \A i \in DOMAIN l.objects : Traced(l.objects[i], direct.objects[i], l.next)
      /\ direct.next = l.next + 1
  BY <1>1, <1>4, SetStateDirectTracked, RegistryKeepsLog DEF SameLog, SameRing
<1>6. direct \in LedgerType
  BY <1>1, <1>4, SetStateDirectType
<1> HIDE DEF direct
<1>7. n.objects = direct.objects /\ n.next = direct.next
  BY <1>6 DEF SetTx, LedgerType
<1> HIDE DEF n
<1>8. Tracked(l, n)
  BY <1>5, <1>7 DEF Tracked
<1> QED
  BY <1>8, Zenon DEF Close, n, direct, m, t, name, closing, Closing, report

(***************************************************************************)
(* The history of an object.                                               *)
(***************************************************************************)
\* An object's id is its place in the registry, which is what event stamps name.
OwnIds(l) == \A i \in DOMAIN l.objects : l.objects[i].id = i

\* The registry only grows, and so do revisions.
Grows(l, m) ==
  /\ OwnIds(l) => OwnIds(m)
  /\ DOMAIN l.objects \subseteq DOMAIN m.objects
  /\ \A i \in DOMAIN l.objects : l.objects[i].rev =< m.objects[i].rev

OrderedById(l) == OwnIds(l) /\ Ordered(l)

\* The entries of the registry are objects.
LEMMA RegistryType ==
  ASSUME NEW l \in LedgerType
  PROVE  /\ l.objects \in Seq(Object)
         /\ Len(l.objects) \in Nat
         /\ DOMAIN l.objects = 1..Len(l.objects)
         /\ \A i \in DOMAIN l.objects :
              l.objects[i] \in Object /\ l.objects[i].rev \in Nat
<1>1. /\ l.objects \in Seq(Object)
      /\ Len(l.objects) \in Nat
      /\ DOMAIN l.objects = 1..Len(l.objects)
      /\ \A i \in DOMAIN l.objects : l.objects[i] \in Object
  BY LenProperties, ElementOfSeq DEF LedgerType
<1> QED
  BY <1>1 DEF Object

\* A registry left alone has grown as far as can be told.
LEMMA SameObjectsGrow ==
  ASSUME NEW l \in LedgerType, NEW m, m.objects = l.objects
  PROVE  Grows(l, m)
<1>1. \A i \in DOMAIN l.objects : l.objects[i].rev =< l.objects[i].rev
  <2>1. \A i \in DOMAIN l.objects : l.objects[i].rev \in Nat
    BY RegistryType
  <2> QED
    BY <2>1
<1> QED
  BY <1>1 DEF Grows, OwnIds

\* object_register gives a new object the next place as its id.
LEMMA RegisterGrows ==
  ASSUME NEW l \in LedgerType, NEW name \in ObjectNames, NEW parent \in Nat,
         NEW state \in ObjectStates, NEW created \in Nat
  PROVE  Grows(l, Register(l, name, parent, state, created))
<1> DEFINE object == [id |-> Len(l.objects) + 1, name |-> name, parent |-> parent,
                      rev |-> 1, state |-> state,
                      created |-> created, last |-> created]
           m == Register(l, name, parent, state, created)
           last == Len(l.objects) + 1
<1>1. /\ l.objects \in Seq(Object) /\ Len(l.objects) \in Nat
      /\ DOMAIN l.objects = 1..Len(l.objects)
      /\ \A i \in DOMAIN l.objects : l.objects[i].rev \in Nat
  BY RegistryType
<1>2. object \in Object /\ object.id = last
  BY <1>1 DEF Object
<1> HIDE DEF object
<1>3. CASE m.objects = l.objects
  BY <1>3, SameObjectsGrow
<1>4. CASE m.objects = Append(l.objects, object)
  <2>1. /\ DOMAIN m.objects = 1..last
        /\ \A i \in DOMAIN l.objects : m.objects[i] = l.objects[i]
        /\ m.objects[last] = object
    BY <1>1, <1>2, <1>4, AppendProperties
  <2> HIDE DEF m
  <2>2. DOMAIN l.objects \subseteq DOMAIN m.objects
    BY <1>1, <2>1
  <2>3. \A i \in DOMAIN m.objects : i \in DOMAIN l.objects \/ i = last
    BY <1>1, <2>1
  <2>4. \A i \in DOMAIN l.objects : l.objects[i].rev =< m.objects[i].rev
    BY <1>1, <2>1
  <2> QED
    BY <1>2, <2>1, <2>2, <2>3, <2>4 DEF Grows, OwnIds, m
<1>5. m.objects = l.objects \/ m.objects = Append(l.objects, object)
  BY DEF Register, LedgerType, object
<1> QED
  BY <1>3, <1>4, <1>5

\* A change of one object that keeps its id and takes nothing off its revision.
LEMMA ChangeGrows ==
  ASSUME NEW l \in LedgerType, NEW m, NEW index \in 1..Len(l.objects),
         NEW object, m.objects = [l.objects EXCEPT ![index] = object],
         object.id = l.objects[index].id, l.objects[index].rev =< object.rev
  PROVE  Grows(l, m)
<1>1. /\ DOMAIN m.objects = DOMAIN l.objects
      /\ \A i \in DOMAIN l.objects :
           m.objects[i] = IF i = index THEN object ELSE l.objects[i]
  BY RegistryType
<1>2. \A i \in DOMAIN l.objects : l.objects[i].rev =< l.objects[i].rev
  BY SameObjectsGrow DEF Grows
<1> QED
  BY <1>1, <1>2 DEF Grows, OwnIds

\* object_set_state and naming the last event are such changes.
LEMMA ChangesGrow ==
  ASSUME NEW l \in LedgerType, NEW index \in 1..Len(l.objects),
         NEW state \in ObjectStates, NEW event \in Nat
  PROVE  /\ Grows(l, SetState(l, index, state))
         /\ Grows(l, SetLast(l, index, event))
<1> DEFINE old == l.objects[index]
           changed == [[old EXCEPT !.state = state] EXCEPT !.rev = old.rev + 1]
           noted == [old EXCEPT !.last = event]
<1>1. old \in Object /\ old.rev \in Nat /\ l.objects \in Seq(Object)
      /\ DOMAIN l.objects = 1..Len(l.objects)
  BY RegistryType
<1>2. /\ changed.id = old.id /\ old.rev =< changed.rev
      /\ noted.id = old.id /\ old.rev =< noted.rev
  <2> HIDE DEF old
  <2>1. changed.id = old.id /\ changed.rev = old.rev + 1
    BY <1>1 DEF Object
  <2>2. noted.id = old.id /\ noted.rev = old.rev
    BY <1>1 DEF Object
  <2> QED
    BY <1>1, <2>1, <2>2
<1>3. SetState(l, index, state).objects = [l.objects EXCEPT ![index] = changed]
  BY <1>1 DEF SetState, LedgerType, Object
<1>4. SetLast(l, index, event).objects = [l.objects EXCEPT ![index] = noted]
  BY DEF SetLast, LedgerType
<1> HIDE DEF changed, noted
<1> QED
  BY <1>2, <1>3, <1>4, ChangeGrows

\* While the registry grows and the ring stays, the history stays in order.
LEMMA GrowthKeepsOrder ==
  ASSUME NEW l \in LedgerType, NEW m \in LedgerType,
         SameRing(l, m), Grows(l, m), OrderedById(l)
  PROVE  OrderedById(m)
<1>1. Retained(m) = Retained(l)
  BY RingDeterminesWindow
<1>2. /\ Len(Retained(l)) = l.count /\ DOMAIN Retained(l) = 1..l.count
      /\ \A i \in DOMAIN Retained(l) : Retained(l)[i].rev \in Nat
  <2>1. /\ Retained(l) \in Seq(Event) /\ Len(Retained(l)) = l.count
        /\ DOMAIN Retained(l) = 1..l.count
    BY RetainedType DEF Retained
  <2>2. \A i \in DOMAIN Retained(l) : Retained(l)[i] \in Event
    BY <2>1, ElementOfSeq
  <2> QED
    BY <2>1, <2>2 DEF Event
<1>3. ASSUME NEW i \in DOMAIN Retained(l), Retained(l)[i].targetId # 0
      PROVE  /\ Retained(l)[i].targetId \in DOMAIN m.objects
             /\ Retained(l)[i].rev =< m.objects[Retained(l)[i].targetId].rev
  <2> DEFINE id == Retained(l)[i].targetId
  <2>1. id \in DOMAIN l.objects /\ Retained(l)[i].rev =< l.objects[id].rev
    BY <1>3 DEF OrderedById, Ordered
  <2>2. id \in DOMAIN m.objects /\ l.objects[id].rev =< m.objects[id].rev
    BY <2>1 DEF Grows
  <2>3. l.objects[id].rev \in Nat /\ m.objects[id].rev \in Nat
    BY <2>1, <2>2, RegistryType
  <2> HIDE DEF id
  <2>4. Retained(l)[i].rev =< m.objects[id].rev
    BY <1>2, <1>3, <2>1, <2>2, <2>3
  <2> QED
    BY <2>2, <2>4 DEF id
<1>4. Ordered(m)
  BY <1>1, <1>3 DEF OrderedById, Ordered
<1> QED
  BY <1>4 DEF OrderedById, Grows

\* What an event is stamped with: the place of its target and its revision now.
LEMMA StampNamesObject ==
  ASSUME NEW l \in LedgerType, OwnIds(l), NEW report, Stamp(l, report).targetId # 0
  PROVE  /\ Stamp(l, report).targetId \in DOMAIN l.objects
         /\ Stamp(l, report).rev = l.objects[Stamp(l, report).targetId].rev
<1> DEFINE index == ObjectIndex(l, report.target)
<1>1. index \in 0..Len(l.objects) /\ DOMAIN l.objects = 1..Len(l.objects)
      /\ Len(l.objects) \in Nat
  BY ObjectIndexType, RegistryType
<1>2. /\ Stamp(l, report).targetId = IF index = 0 THEN 0 ELSE l.objects[index].id
      /\ Stamp(l, report).rev = IF index = 0 THEN 0 ELSE l.objects[index].rev
  BY DEF Stamp, ObjectId, Revision, Known
<1> HIDE DEF index
<1>3. index \in DOMAIN l.objects
  BY <1>1, <1>2
<1>4. l.objects[index].id = index
  BY <1>3 DEF OwnIds
<1> QED
  BY <1>1, <1>2, <1>3, <1>4

\* Recording an event keeps the history in order: no event in the ring has a
\* revision beyond the object's own, which is what the new one is stamped with.
LEMMA RecordKeepsOrder ==
  ASSUME NEW l \in LedgerType, NEW report \in ReportType, OrderedById(l)
  PROVE  OrderedById(Record(l, report))
<1> DEFINE m == Record(l, report)
           new == Stamp(l, report)
<1>1. m.objects = l.objects
  BY RecordFrame
<1>2. PICK dropped \in {0, 1} :
        \A i \in 1..m.count :
          IF i = m.count
          THEN Retained(m)[i] = new
          ELSE /\ i + dropped \in DOMAIN Retained(l)
               /\ Retained(m)[i] = Retained(l)[i + dropped]
  BY RecordShifts
<1>3. /\ DOMAIN Retained(m) = 1..m.count /\ m.count \in Nat
      /\ Len(Retained(m)) = m.count
  BY RecordShifts
<1>4. DOMAIN Retained(l) = 1..l.count /\ Len(Retained(l)) = l.count /\ l.count \in Nat
  BY RetainedType DEF Retained, LedgerType
<1>5. /\ OwnIds(l)
      /\ new.targetId # 0 => /\ new.targetId \in DOMAIN l.objects
                             /\ new.rev = l.objects[new.targetId].rev
      /\ new.rev \in Nat
  BY StampNamesObject, StampType DEF OrderedById, Event
<1> HIDE DEF m, new
<1>6. ASSUME NEW i \in 1..m.count, Retained(m)[i].targetId # 0
      PROVE  LET event == Retained(m)[i]
             IN  /\ event.targetId \in DOMAIN m.objects
                 /\ event.rev =< m.objects[event.targetId].rev
                 /\ \A j \in i..m.count :
                      Retained(m)[j].targetId = event.targetId =>
                        event.rev =< Retained(m)[j].rev
  <2>1. CASE i = m.count
    <3>1. Retained(m)[i] = new /\ \A j \in i..m.count : j = i
      BY <1>2, <1>3, <2>1
    <3>2. /\ new.targetId \in DOMAIN l.objects
          /\ new.rev =< l.objects[new.targetId].rev /\ new.rev =< new.rev
      BY <1>5, <1>6, <3>1
    <3> QED
      BY <1>1, <3>1, <3>2
  <2>2. CASE i # m.count
    <3> DEFINE event == Retained(l)[i + dropped]
    <3>1. i + dropped \in 1..l.count /\ Retained(m)[i] = event
      BY <1>2, <1>4, <2>2
    <3>2. /\ event.targetId \in DOMAIN l.objects
          /\ event.rev =< l.objects[event.targetId].rev
          /\ \A j \in (i + dropped)..l.count :
               Retained(l)[j].targetId = event.targetId =>
                 event.rev =< Retained(l)[j].rev
      BY <1>4, <1>6, <3>1 DEF OrderedById, Ordered
    <3> HIDE DEF event
    <3>3. ASSUME NEW j \in i..m.count, Retained(m)[j].targetId = event.targetId
          PROVE  event.rev =< Retained(m)[j].rev
      <4>1. j \in 1..m.count
        BY <1>3
      <4>2. CASE j = m.count
        <5>1. Retained(m)[j] = new
          BY <1>2, <4>1, <4>2
        <5>2. new.rev = l.objects[event.targetId].rev
          BY <1>5, <1>6, <3>1, <3>3, <5>1
        <5> QED
          BY <3>2, <5>1, <5>2
      <4>3. CASE j # m.count
        <5>1. /\ j + dropped \in 1..l.count
              /\ Retained(m)[j] = Retained(l)[j + dropped]
          BY <1>2, <1>4, <4>1, <4>3
        <5>2. j + dropped \in (i + dropped)..l.count
          BY <1>3, <1>4, <5>1
        <5> QED
          BY <3>2, <3>3, <5>1, <5>2
      <4> QED
        BY <4>2, <4>3
    <3> QED
      BY <1>1, <3>1, <3>2, <3>3
  <2> QED
    BY <2>1, <2>2
<1>7. Ordered(m)
  BY <1>3, <1>6 DEF Ordered
<1>8. OwnIds(m)
  BY <1>1, <1>5 DEF OwnIds
<1> QED
  BY <1>7, <1>8 DEF OrderedById, m

\* object_set_state_direct only adds to the registry, known name or not.
LEMMA SetStateDirectGrows ==
  ASSUME NEW l \in LedgerType, NEW name, NEW state \in ObjectStates,
         NEW event \in Nat, OrderedById(l)
  PROVE  OrderedById(SetStateDirect(l, name, state, event))
<1> DEFINE index == ObjectIndex(l, name)
           set == SetState(l, index, state)
<1>1. index \in 0..Len(l.objects) /\ Len(l.objects) \in Nat
  BY ObjectIndexType, RegistryType
<1>2. CASE index = 0
  BY <1>2 DEF SetStateDirect
<1>3. CASE index # 0
  <2>1. index \in 1..Len(l.objects)
    BY <1>1, <1>3
  <2> HIDE DEF index
  <2>2. set \in LedgerType /\ Len(set.objects) = Len(l.objects) /\ SameRing(l, set)
    BY <2>1, SetStateType, RegistryKeepsLog DEF SameLog
  <2>3. OrderedById(set)
    BY <2>1, <2>2, ChangesGrow, GrowthKeepsOrder
  <2> HIDE DEF set
  <2>4. SetLast(set, index, event) \in LedgerType /\ SameRing(set, SetLast(set, index, event))
    BY <2>1, <2>2, SetLastType, RegistryKeepsLog DEF SameLog
  <2>5. OrderedById(SetLast(set, index, event))
    BY <2>1, <2>2, <2>3, <2>4, ChangesGrow, GrowthKeepsOrder
  <2>6. SetStateDirect(l, name, state, event) = SetLast(set, index, event)
    BY <1>3, Zenon DEF SetStateDirect, set, index
  <2> QED
    BY <2>5, <2>6, Zenon
<1> QED
  BY <1>2, <1>3

\* Neither setter of event.c touches the history.
LEMMA SettersKeepOrder ==
  ASSUME NEW l \in LedgerType, OrderedById(l), NEW id \in Nat
  PROVE  OrderedById(SetTx(l, id)) /\ OrderedById(SetCurrent(l, id))
<1>1. /\ SetTx(l, id) \in LedgerType /\ SetCurrent(l, id) \in LedgerType
      /\ SameRing(l, SetTx(l, id)) /\ SameRing(l, SetCurrent(l, id))
  BY SetTxType, SettersKeepBooks DEF SameBooks
<1>2. SetTx(l, id).objects = l.objects /\ SetCurrent(l, id).objects = l.objects
  BY DEF SetTx, SetCurrent, LedgerType
<1> QED
  BY <1>1, <1>2, SameObjectsGrow, GrowthKeepsOrder

\* object_update_state stamps its event with the revision it has just made.
LEMMA UpdateStateOrdered ==
  ASSUME NEW l \in LedgerType, NEW name, NEW state \in ObjectStates, OrderedById(l)
  PROVE  OrderedById(UpdateState(l, name, state))
<1> DEFINE index == ObjectIndex(l, name)
           report == Report("object", l.objects[index].name, "state_update", "ok",
                            l.current, "state")
           changed == SetState(l, index, state)
           recorded == Record(changed, report)
           updated == SetLast(recorded, index, l.next)
<1>1. /\ index \in 0..Len(l.objects)
      /\ Len(l.objects) \in Nat
      /\ l.current \in Nat /\ l.next \in Nat
  BY ObjectIndexType, RegistryType DEF LedgerType
<1>2. CASE index = 0
  BY <1>2 DEF UpdateState
<1>3. CASE index # 0
  <2>1. index \in 1..Len(l.objects)
    BY <1>1, <1>3
  <2>2. l.objects[index] \in Object
    BY <2>1, RegistryType
  <2>3. report \in ReportType
    <3>1. l.objects[index].name \in Labels
      BY <2>2 DEF Object, Labels
    <3>2. /\ "object" \in Labels /\ "ok" \in Results
          /\ "state_update" \in Operations /\ "state" \in Kinds
      BY OperationAssumption DEF Kinds, Labels, Results
    <3> QED
      BY <1>1, <3>1, <3>2, ReportIsTyped, Zenon
  <2> HIDE DEF report, index
  <2>4. /\ changed \in LedgerType /\ Len(changed.objects) = Len(l.objects)
        /\ SameRing(l, changed)
    BY <2>1, SetStateType, RegistryKeepsLog DEF SameLog
  <2>5. OrderedById(changed)
    BY <2>1, <2>4, ChangesGrow, GrowthKeepsOrder
  <2> HIDE DEF changed
  <2>6. /\ recorded \in LedgerType /\ recorded.objects = changed.objects
        /\ OrderedById(recorded)
    BY <2>3, <2>4, <2>5, RecordType, RecordFrame, RecordKeepsOrder
  <2> HIDE DEF recorded
  <2>7. updated \in LedgerType /\ SameRing(recorded, updated)
    BY <1>1, <2>1, <2>4, <2>6, SetLastType, RegistryKeepsLog DEF SameLog
  <2>8. Grows(recorded, updated)
    <3>1. /\ index \in 1..Len(recorded.objects)
          /\ state \in ObjectStates
      BY <2>1, <2>4, <2>6
    <3> QED
      BY <1>1, <2>6, <3>1, ChangesGrow
  <2>9. OrderedById(updated)
    BY <2>6, <2>7, <2>8, GrowthKeepsOrder
  <2>10. UpdateState(l, name, state) = updated
    BY <1>3, Zenon DEF UpdateState, report, changed, recorded, index
  <2> QED
    BY <2>9, <2>10, Zenon
<1> QED
  BY <1>2, <1>3

\* The event transaction_begin records is typed.
LEMMA BeginReportType ==
  ASSUME NEW id \in 1..MaxSeq, NEW actor \in Labels, NEW parent \in Nat
  PROVE  Report(actor, TxName(id), "begin", "ok", parent, "transaction") \in ReportType
<1>1. /\ TxName(id) \in Labels /\ "ok" \in Results
      /\ "begin" \in Operations /\ "transaction" \in Kinds
  BY OperationAssumption DEF ObjectNames, TxNames, Labels, Kinds, Results
<1> QED
  BY <1>1, ReportIsTyped, Zenon

\* The transaction transaction_begin enters in the table.
Opening(l, named, actor, target, parent) ==
  [id |-> l.next, parent |-> parent, begin |-> l.next, end |-> l.next,
   started |-> Revision(named, target), committed |-> Revision(named, target),
   actor |-> actor, target |-> target, status |-> "open"]

\* The ledger transaction_begin records its event in.
Opened(l, named, actor, target, parent) ==
  [named EXCEPT !.txs = Append(@, Opening(l, named, actor, target, parent))]

\* Entering a transaction changes the table and nothing else.
LEMMA OpeningType ==
  ASSUME NEW l \in LedgerType, NEW named \in LedgerType, NEW actor \in Labels,
         NEW target \in Labels, NEW parent \in Nat
  PROVE  /\ Opening(l, named, actor, target, parent) \in Transaction
         /\ Opened(l, named, actor, target, parent) \in LedgerType
         /\ SameRing(named, Opened(l, named, actor, target, parent))
         /\ Opened(l, named, actor, target, parent).objects = named.objects
         /\ Opened(l, named, actor, target, parent).txs =
              Append(named.txs, Opening(l, named, actor, target, parent))
<1> DEFINE t == Opening(l, named, actor, target, parent)
<1>1. Revision(named, target) \in Nat /\ l.next \in Nat
  BY RevisionType DEF LedgerType
<1>2. t \in Transaction
  BY <1>1 DEF Opening, Transaction, Statuses
<1> HIDE DEF t
<1>3. Append(named.txs, t) \in Seq(Transaction)
  BY <1>2, AppendProperties DEF LedgerType
<1>4. Opened(l, named, actor, target, parent) = [named EXCEPT !.txs = Append(named.txs, t)]
  BY DEF Opened, LedgerType, t
<1> QED
  BY <1>2, <1>3, <1>4 DEF LedgerType, SameRing, t

\* transaction_begin keeps the history in order.
LEMMA BeginOrdered ==
  ASSUME NEW l \in LedgerType, l.next \in 1..MaxSeq, NEW actor \in Labels,
         NEW target \in Labels, NEW parent \in 0..(l.next - 1), OrderedById(l)
  PROVE  OrderedById(Begin(l, actor, target, parent))
<1> DEFINE name == TxName(l.next)
           named == Register(l, name, ObjectId(l, "events"), "open", parent)
           opened == Opened(l, named, actor, target, parent)
           report == Report(actor, name, "begin", "ok", parent, "transaction")
           k == SetTx(opened, l.next)
           m == Record(k, report)
           n == SetTx(m, l.tx)
<1>1. /\ parent \in Nat /\ l.next \in Nat /\ l.tx \in Nat
      /\ l.objects \in Seq(Object)
      /\ name \in ObjectNames /\ "open" \in ObjectStates
      /\ ObjectId(l, "events") \in Nat
  BY ObjectIdType DEF LedgerType, ObjectNames, TxNames, ObjectStates, Statuses
<1>2. report \in ReportType
  BY <1>1, BeginReportType
<1>3. named \in LedgerType /\ SameRing(l, named) /\ Grows(l, named)
  BY <1>1, RegisterType, RegisterGrows, RegistryKeepsLog DEF SameLog
<1> HIDE DEF report, named
<1>4. OrderedById(named)
  BY <1>3, GrowthKeepsOrder
<1>5. opened \in LedgerType /\ SameRing(named, opened) /\ opened.objects = named.objects
  <2>1. parent \in Nat /\ named \in LedgerType
    BY <1>1, <1>3
  <2> QED
    BY <2>1, OpeningType
<1> HIDE DEF opened
<1>6. OrderedById(opened)
  BY <1>3, <1>4, <1>5, SameObjectsGrow, GrowthKeepsOrder
<1>7. k \in LedgerType /\ OrderedById(k)
  BY <1>1, <1>5, <1>6, SetTxType, SettersKeepOrder
<1> HIDE DEF k
<1>8. m \in LedgerType /\ OrderedById(m)
  BY <1>2, <1>7, RecordType, RecordKeepsOrder
<1> HIDE DEF m
<1>9. OrderedById(n)
  BY <1>1, <1>8, SettersKeepOrder
<1> QED
  BY <1>9, Zenon DEF Begin, n, m, k, name, named, Opening, opened, Opened, report

\* transaction_commit and transaction_abort keep the history in order: the event
\* is stamped before the object's last revision is made, the other way round
\* than object_update_state does.
LEMMA CloseOrdered ==
  ASSUME NEW l \in LedgerType, NEW index \in 1..Len(l.txs),
         l.txs[index].id \in 1..MaxSeq,
         NEW status \in Statuses, NEW op \in Operations, NEW result \in Results,
         OrderedById(l)
  PROVE  OrderedById(Close(l, index, status, op, result))
<1> DEFINE t == l.txs[index]
           name == TxName(t.id)
           closing == Closing(l, index, status)
           report == Report(t.actor, name, op, result, t.end, "transaction")
           m == Record(closing, report)
           direct == SetStateDirect(m, name, status, l.next)
           n == SetTx(direct, l.tx)
<1>1. t \in Transaction /\ l.next \in Nat /\ l.tx \in Nat /\ status \in ObjectStates
  BY TableType DEF LedgerType, ObjectStates
<1>2. report \in ReportType
  BY <1>1, CloseReportType
<1>3. closing \in LedgerType /\ closing.objects = l.objects /\ SameRing(l, closing)
  BY ClosingType
<1> HIDE DEF report, closing
<1>4. OrderedById(closing)
  BY <1>3, SameObjectsGrow, GrowthKeepsOrder
<1>5. m \in LedgerType /\ OrderedById(m)
  BY <1>2, <1>3, <1>4, RecordType, RecordKeepsOrder
<1> HIDE DEF t, m
<1>6. direct \in LedgerType /\ OrderedById(direct)
  BY <1>1, <1>5, SetStateDirectType, SetStateDirectGrows
<1> HIDE DEF direct
<1>7. OrderedById(n)
  BY <1>1, <1>6, SettersKeepOrder
<1> QED
  BY <1>7, Zenon DEF Close, n, direct, m, t, name, closing, Closing, report

(***************************************************************************)
(* What the ring, the table and the registry say of a closed transaction.  *)
(***************************************************************************)
\* Objects have names of their own: a caller's, or a transaction's of the table.
Named(l) ==
  /\ \A k \in DOMAIN l.txs : l.txs[k].id \in 1..MaxSeq
  /\ \A i, j \in DOMAIN l.objects : l.objects[i].name = l.objects[j].name => i = j
  /\ \A i \in DOMAIN l.objects :
       \/ l.objects[i].name \in Names
       \/ \E k \in DOMAIN l.txs : l.objects[i].name = TxName(l.txs[k].id)

\* The event that ends a transaction says how it was closed.
Ends(event, t) ==
  event.seq = t.end =>
    /\ event.op = IF t.status = "committed" THEN "commit" ELSE "abort"
    /\ event.result = IF t.status = "committed" THEN "ok" ELSE "denied"

\* The object of a transaction says how it was closed, and by which event.
Shows(object, t) ==
  object.name = TxName(t.id) =>
    /\ object.state = t.status
    /\ object.rev = IF t.status = "open" THEN 1 ELSE 2
    /\ t.status # "open" => object.last = t.end

Agreement(l) == Named(l) /\ ClosedAgree(l)

\* ClosedTransactionsAgree, in those terms.
LEMMA AgreementParts ==
  ASSUME NEW l
  PROVE  ClosedAgree(l) <=>
           \A k \in DOMAIN l.txs :
             /\ l.txs[k].status # "open" =>
                  \A i \in DOMAIN Retained(l) : Ends(Retained(l)[i], l.txs[k])
             /\ \A i \in DOMAIN l.objects : Shows(l.objects[i], l.txs[k])
BY DEF ClosedAgree, Ends, Shows

\* A name is found where it is, and only if it is there.
LEMMA FindByName ==
  ASSUME NEW l \in LedgerType, NEW name \in ObjectNames
  PROVE  /\ ObjectIndex(l, name) # 0 =>
              /\ ObjectIndex(l, name) \in DOMAIN l.objects
              /\ l.objects[ObjectIndex(l, name)].name = name
         /\ ObjectIndex(l, name) = 0 =>
              \A i \in DOMAIN l.objects : l.objects[i].name # name
<1> DEFINE T == {i \in 1..Len(l.objects) : \/ l.objects[i].name = name
                                           \/ /\ ParseId(name) # 0
                                              /\ l.objects[i].id = ParseId(name)}
<1>1. ObjectIndex(l, name) = IF T # {} THEN Min(T) ELSE 0
  BY DEF ObjectIndex, SelectInSeq
<1>2. ParseId(name) = 0
  BY NameAssumption DEF ObjectNames
<1>3. DOMAIN l.objects = 1..Len(l.objects) /\ Len(l.objects) \in Nat
  BY RegistryType
<1>4. /\ \A i \in T : i \in DOMAIN l.objects /\ l.objects[i].name = name /\ i # 0
      /\ \A i \in DOMAIN l.objects : l.objects[i].name = name => i \in T
  BY <1>2, <1>3
<1>5. T # {} => Min(T) \in T
  <2>1. T \in SUBSET Nat
    OBVIOUS
  <2> QED
    BY <2>1, MinOfNaturals, Zenon
<1> HIDE DEF T
<1> QED
  BY <1>1, <1>4, <1>5

\* No caller's name is a transaction's.
LEMMA NamesApart ==
  ASSUME NEW name \in Names, NEW id \in 1..MaxSeq
  PROVE  name # TxName(id)
BY NameAssumption DEF TxNames

\* Ledgers with the same ring, table and registry agree or disagree together.
LEMMA SameAgreement ==
  ASSUME NEW l, NEW m, SameBooks(l, m), m.objects = l.objects, Agreement(l)
  PROVE  Agreement(m)
<1>1. Retained(m) = Retained(l) /\ m.txs = l.txs
  BY RingDeterminesWindow DEF SameBooks
<1> QED
  BY <1>1 DEF Agreement, Named, ClosedAgree

\* A registry with one object more, under a name no other object has.
Adds(l, m, name, state) ==
  \E last :
    /\ DOMAIN m.objects = DOMAIN l.objects \cup {last}
    /\ last \notin DOMAIN l.objects
    /\ \A i \in DOMAIN l.objects : /\ m.objects[i] = l.objects[i]
                                   /\ l.objects[i].name # name
    /\ m.objects[last].name = name
    /\ m.objects[last].state = state
    /\ m.objects[last].rev = 1

\* What object_register does to the registry.
LEMMA RegisterCases ==
  ASSUME NEW l \in LedgerType, NEW name \in ObjectNames, NEW parent \in Nat,
         NEW state \in ObjectStates, NEW created \in Nat
  PROVE  \/ Register(l, name, parent, state, created).objects = l.objects
         \/ Adds(l, Register(l, name, parent, state, created), name, state)
<1> DEFINE last == Len(l.objects) + 1
           object == [id |-> last, name |-> name, parent |-> parent, rev |-> 1,
                      state |-> state, created |-> created, last |-> created]
           m == Register(l, name, parent, state, created)
<1>1. /\ l.objects \in Seq(Object) /\ Len(l.objects) \in Nat
      /\ DOMAIN l.objects = 1..Len(l.objects)
  BY RegistryType
<1>2. object \in Object /\ object.name = name /\ object.state = state /\ object.rev = 1
  BY <1>1 DEF Object
<1> HIDE DEF object
<1>3. CASE m.objects = l.objects
  BY <1>3
<1>4. CASE m.objects = Append(l.objects, object) /\ ObjectIndex(l, name) = 0
  <2>1. /\ DOMAIN m.objects = 1..last
        /\ \A i \in DOMAIN l.objects : m.objects[i] = l.objects[i]
        /\ m.objects[last] = object
    BY <1>1, <1>2, <1>4, AppendProperties
  <2>2. \A i \in DOMAIN l.objects : l.objects[i].name # name
    BY <1>4, FindByName
  <2> HIDE DEF m
  <2>3. DOMAIN m.objects = DOMAIN l.objects \cup {last} /\ last \notin DOMAIN l.objects
    BY <1>1, <2>1
  <2> QED
    BY <1>2, <2>1, <2>2, <2>3 DEF m, Adds
<1>5. \/ m.objects = l.objects
      \/ m.objects = Append(l.objects, object) /\ ObjectIndex(l, name) = 0
  BY DEF Register, Known, LedgerType, object
<1> QED
  BY <1>3, <1>4, <1>5

\* Registering a caller's object disturbs no transaction.
LEMMA RegisterAgrees ==
  ASSUME NEW l \in LedgerType, NEW name \in Names, NEW parent \in Nat,
         NEW state \in ObjectStates, NEW created \in Nat, Agreement(l)
  PROVE  Agreement(Register(l, name, parent, state, created))
<1> DEFINE m == Register(l, name, parent, state, created)
<1>1. SameBooks(l, m)
  BY RegistryKeepsBooks
<1>2. Retained(m) = Retained(l) /\ m.txs = l.txs
  BY <1>1, RingDeterminesWindow DEF SameBooks
<1>3. m.objects = l.objects \/ Adds(l, m, name, state)
  BY RegisterCases DEF ObjectNames
<1> HIDE DEF m
<1>4. CASE m.objects = l.objects
  BY <1>1, <1>4, SameAgreement DEF m
<1>5. CASE Adds(l, m, name, state)
  <2>1. PICK last :
          /\ DOMAIN m.objects = DOMAIN l.objects \cup {last}
          /\ last \notin DOMAIN l.objects
          /\ \A i \in DOMAIN l.objects : /\ m.objects[i] = l.objects[i]
                                         /\ l.objects[i].name # name
          /\ m.objects[last].name = name
    BY <1>5 DEF Adds
  <2>2. Named(m)
    BY <1>2, <2>1 DEF Agreement, Named
  <2>3. \A k \in DOMAIN l.txs : Shows(m.objects[last], l.txs[k])
    BY <2>1, NamesApart DEF Agreement, Named, Shows
  <2>4. ClosedAgree(m)
    BY <1>2, <2>1, <2>3, AgreementParts DEF Agreement
  <2> QED
    BY <2>2, <2>4 DEF Agreement, m
<1> QED
  BY <1>3, <1>4, <1>5

\* Nor does a change of a caller's object.
LEMMA ChangeAgrees ==
  ASSUME NEW l \in LedgerType, NEW m, SameBooks(l, m),
         NEW index \in DOMAIN l.objects, NEW object,
         m.objects = [l.objects EXCEPT ![index] = object],
         object.name = l.objects[index].name, object.name \in Names, Agreement(l)
  PROVE  Agreement(m)
<1>1. Retained(m) = Retained(l) /\ m.txs = l.txs
  BY RingDeterminesWindow DEF SameBooks
<1>2. /\ DOMAIN m.objects = DOMAIN l.objects
      /\ \A i \in DOMAIN l.objects :
           m.objects[i] = IF i = index THEN object ELSE l.objects[i]
  BY RegistryType
<1>3. \A i \in DOMAIN l.objects : m.objects[i].name = l.objects[i].name
  BY <1>2
<1>4. Named(m)
  BY <1>1, <1>2, <1>3 DEF Agreement, Named
<1>5. \A k \in DOMAIN l.txs : Shows(object, l.txs[k])
  BY NamesApart DEF Agreement, Named, Shows
<1>6. ClosedAgree(m)
  BY <1>1, <1>2, <1>5, AgreementParts DEF Agreement
<1> QED
  BY <1>4, <1>6 DEF Agreement

\* Recording an event under no closed transaction disturbs none: what is closed
\* ended before the new event.
LEMMA RecordAgrees ==
  ASSUME NEW l \in LedgerType, NEW report \in ReportType, Consecutive(l),
         \A k \in DOMAIN l.txs :
           l.txs[k].status # "open" => l.txs[k].id # l.tx /\ l.txs[k].end < l.next,
         Agreement(l)
  PROVE  Agreement(Record(l, report))
<1> DEFINE m == Record(l, report)
           new == Stamp(l, report)
<1>1. m.objects = l.objects /\ l.next \in Nat
  BY RecordFrame DEF LedgerType
<1>2. /\ DOMAIN m.txs = DOMAIN l.txs
      /\ \A k \in DOMAIN l.txs :
           m.txs[k] = IF l.txs[k].id = l.tx THEN [l.txs[k] EXCEPT !.end = l.next]
                      ELSE l.txs[k]
  BY RecordExtends
<1>3. \A i \in DOMAIN Retained(m) :
        \/ Retained(m)[i] = new
        \/ \E j \in DOMAIN Retained(l) : Retained(m)[i] = Retained(l)[j]
  BY RecordRetains
<1>4. new.seq = l.next
  BY DEF Stamp
<1> HIDE DEF m, new
<1>5. \A k \in DOMAIN l.txs : /\ m.txs[k].id = l.txs[k].id
                              /\ m.txs[k].status = l.txs[k].status
                              /\ l.txs[k].status # "open" => m.txs[k] = l.txs[k]
  <2>1. \A k \in DOMAIN l.txs : l.txs[k] \in Transaction
    BY TableType
  <2> QED
    BY <1>2, <2>1 DEF Transaction
<1>6. Named(m)
  BY <1>1, <1>2, <1>5 DEF Agreement, Named
<1>7. ASSUME NEW k \in DOMAIN m.txs
      PROVE  /\ m.txs[k].status # "open" =>
                  \A i \in DOMAIN Retained(m) : Ends(Retained(m)[i], m.txs[k])
             /\ \A i \in DOMAIN m.objects : Shows(m.objects[i], m.txs[k])
  <2>1. k \in DOMAIN l.txs
    BY <1>2
  <2>2. /\ l.txs[k].status # "open" =>
             \A i \in DOMAIN Retained(l) : Ends(Retained(l)[i], l.txs[k])
        /\ \A i \in DOMAIN l.objects : Shows(l.objects[i], l.txs[k])
    BY <2>1, AgreementParts DEF Agreement
  <2>3. ASSUME m.txs[k].status # "open"
        PROVE  \A i \in DOMAIN Retained(m) : Ends(Retained(m)[i], m.txs[k])
    <3>1. m.txs[k] = l.txs[k] /\ l.txs[k].status # "open" /\ l.txs[k].end < l.next
      BY <1>5, <2>1, <2>3
    <3>2. l.txs[k].end \in Nat
      BY <2>1, TableType
    <3>3. Ends(new, m.txs[k])
      BY <1>1, <1>4, <3>1, <3>2 DEF Ends
    <3> QED
      BY <1>3, <2>2, <3>1, <3>3
  <2>4. \A i \in DOMAIN m.objects : Shows(m.objects[i], m.txs[k])
    BY <1>1, <1>5, <2>1, <2>2 DEF Shows
  <2> QED
    BY <2>3, <2>4
<1>8. ClosedAgree(m)
  BY <1>7, AgreementParts
<1> QED
  BY <1>6, <1>8 DEF Agreement, m

\* What is closed ended in the past, and is not extended from here.
ClosedIsPast(l) ==
  \A k \in DOMAIN l.txs :
    l.txs[k].status # "open" => l.txs[k].id # l.tx /\ l.txs[k].end < l.next

\* object_update_state of a caller's object disturbs no closed transaction.
LEMMA UpdateStateAgrees ==
  ASSUME NEW l \in LedgerType, NEW name \in Names, NEW state \in ObjectStates,
         Sound(l), ClosedIsPast(l), Agreement(l)
  PROVE  Agreement(UpdateState(l, name, state))
<1> DEFINE index == ObjectIndex(l, name)
           old == l.objects[index]
           object == [[old EXCEPT !.state = state] EXCEPT !.rev = old.rev + 1]
           noted == [object EXCEPT !.last = l.next]
           report == Report("object", old.name, "state_update", "ok",
                            l.current, "state")
           changed == SetState(l, index, state)
           recorded == Record(changed, report)
           updated == SetLast(recorded, index, l.next)
<1>1. /\ name \in ObjectNames /\ l.current \in Nat /\ l.next \in Nat
      /\ DOMAIN l.objects = 1..Len(l.objects)
  BY RegistryType DEF ObjectNames, LedgerType
<1>2. CASE index = 0
  BY <1>2 DEF UpdateState
<1>3. CASE index # 0
  <2>1. index \in DOMAIN l.objects /\ index \in 1..Len(l.objects) /\ old.name = name
    BY <1>1, <1>3, FindByName
  <2>2. old \in Object
    BY <2>1, RegistryType
  <2>3. report \in ReportType
    <3>1. old.name \in Labels
      BY <2>2 DEF Object, Labels
    <3>2. /\ "object" \in Labels /\ "ok" \in Results
          /\ "state_update" \in Operations /\ "state" \in Kinds
      BY OperationAssumption DEF Kinds, Labels, Results
    <3> QED
      BY <1>1, <3>1, <3>2, ReportIsTyped, Zenon
  <2> HIDE DEF report
  <2>4. /\ changed \in LedgerType /\ Len(changed.objects) = Len(l.objects)
        /\ SameBooks(l, changed) /\ changed.tx = l.tx
        /\ SameLog(l, changed)
    BY <2>1, SetStateType, RegistryKeepsBooks, RegistryKeepsLog
  <2>5. changed.objects = [l.objects EXCEPT ![index] = object]
    BY <2>1, <2>2 DEF SetState, LedgerType, Object
  <2> HIDE DEF changed, index
  <2>6. object \in Object /\ object.name = name /\ noted.name = name
    <3>1. object \in Object
      BY <2>2, ObjectChangeType
    <3>2. object.name = old.name
      BY <2>2 DEF Object
    <3> HIDE DEF object
    <3>3. noted.name = object.name
      BY <3>1 DEF Object
    <3> QED
      BY <2>1, <3>1, <3>2, <3>3
  <2> HIDE DEF object
  <2>7. Agreement(changed)
    BY <2>1, <2>4, <2>5, <2>6, ChangeAgrees
  <2>8. Consecutive(changed) /\ ClosedIsPast(changed)
    BY <2>4, RingDeterminesWindow DEF SameBooks, SameRing, Sound, ClosedIsPast
  <2>9. recorded \in LedgerType /\ recorded.objects = changed.objects
        /\ Agreement(recorded)
    BY <2>3, <2>4, <2>7, <2>8, RecordType, RecordFrame, RecordAgrees DEF ClosedIsPast
  <2> HIDE DEF recorded
  <2>10. SameBooks(recorded, updated)
    BY <2>9, RegistryKeepsBooks
  <2>11. /\ index \in DOMAIN recorded.objects
         /\ recorded.objects[index] = object
    BY <2>1, <2>5, <2>9
  <2>12. updated.objects = [recorded.objects EXCEPT ![index] = noted]
    BY <2>9, <2>11 DEF SetLast, LedgerType
  <2> HIDE DEF updated, noted
  <2>13. Agreement(updated)
    BY <2>6, <2>9, <2>10, <2>11, <2>12, ChangeAgrees
  <2>14. UpdateState(l, name, state) = updated
    BY <1>3, Zenon DEF UpdateState, report, changed, recorded, index, updated
  <2> QED
    BY <2>13, <2>14, Zenon
<1> QED
  BY <1>2, <1>3

\* transaction_begin enters a transaction whose object, if the registry has room
\* for it, is new and open.
LEMMA BeginAgrees ==
  ASSUME NEW l \in LedgerType, l.next \in 1..MaxSeq, NEW actor \in Labels,
         NEW target \in Labels, NEW parent \in 0..(l.next - 1),
         Sound(l), Books(l), Agreement(l)
  PROVE  Agreement(Begin(l, actor, target, parent))
<1> DEFINE name == TxName(l.next)
           named == Register(l, name, ObjectId(l, "events"), "open", parent)
           t == Opening(l, named, actor, target, parent)
           opened == Opened(l, named, actor, target, parent)
           report == Report(actor, name, "begin", "ok", parent, "transaction")
           k == SetTx(opened, l.next)
           m == Record(k, report)
           n == SetTx(m, l.tx)
           last == Len(l.txs) + 1
<1>1. /\ parent \in Nat /\ l.next \in Nat /\ l.tx \in Nat
      /\ l.objects \in Seq(Object)
      /\ name \in ObjectNames /\ "open" \in ObjectStates
      /\ ObjectId(l, "events") \in Nat
  BY ObjectIdType DEF LedgerType, ObjectNames, TxNames, ObjectStates, Statuses
<1>2. report \in ReportType
  BY <1>1, BeginReportType
<1>3. named \in LedgerType /\ SameBooks(l, named)
      /\ (named.objects = l.objects \/ Adds(l, named, name, "open"))
  BY <1>1, RegisterType, RegisterCases, RegistryKeepsBooks
<1> HIDE DEF report, named
<1>4. /\ t \in Transaction
      /\ opened \in LedgerType /\ SameRing(named, opened)
      /\ opened.objects = named.objects
      /\ opened.txs = Append(named.txs, t)
  <2>1. parent \in Nat /\ named \in LedgerType
    BY <1>1, <1>3
  <2> QED
    BY <2>1, OpeningType
<1>5. t.id = l.next /\ t.status = "open"
  BY DEF Opening
<1> HIDE DEF opened, t
<1>6. /\ k \in LedgerType /\ SameRing(l, k) /\ k.objects = named.objects
      /\ k.txs = Append(l.txs, t) /\ k.tx = l.next /\ k.next = l.next
  <2>1. k \in LedgerType /\ SameBooks(opened, k) /\ k.tx = l.next
    BY <1>1, <1>4, SetTxType, SettersKeepBooks
  <2>2. k.objects = opened.objects
    BY <1>4 DEF SetTx, LedgerType
  <2> HIDE DEF k
  <2> QED
    BY <1>3, <1>4, <2>1, <2>2 DEF SameBooks, SameRing
<1> HIDE DEF k
<1>7. /\ DOMAIN k.txs = DOMAIN l.txs \cup {last}
      /\ \A i \in DOMAIN l.txs : k.txs[i] = l.txs[i]
      /\ k.txs[last] = t
  <2>1. /\ l.txs \in Seq(Transaction) /\ Len(l.txs) \in Nat
        /\ DOMAIN l.txs = 1..Len(l.txs)
    BY TableType
  <2>2. /\ DOMAIN k.txs = 1..last
        /\ \A i \in DOMAIN l.txs : k.txs[i] = l.txs[i]
        /\ k.txs[last] = t
    BY <1>4, <1>6, <2>1, AppendProperties
  <2> QED
    BY <2>1, <2>2
<1> HIDE DEF last
<1>8. \A i \in DOMAIN l.txs : /\ l.txs[i].id \in 1..MaxSeq
                              /\ l.txs[i].id # l.next
                              /\ TxName(l.txs[i].id) # name
  <2>1. \A i \in DOMAIN l.txs : /\ l.txs[i].id \in 1..MaxSeq
                                /\ l.txs[i].id < l.next
    BY DEF Agreement, Named, Books, Numbered
  <2>2. \A i \in DOMAIN l.txs : l.txs[i].id # l.next
    BY <1>1, <2>1
  <2> QED
    BY <2>1, <2>2, NameAssumption
<1>9. \A i \in DOMAIN l.objects : l.objects[i].name # name
  BY <1>8, NamesApart DEF Agreement, Named
<1>10. \A i \in DOMAIN k.objects :
         \/ i \in DOMAIN l.objects /\ k.objects[i] = l.objects[i]
         \/ /\ i \notin DOMAIN l.objects /\ k.objects[i].name = name
            /\ k.objects[i].state = "open" /\ k.objects[i].rev = 1
            /\ \A j \in DOMAIN k.objects : j = i \/ j \in DOMAIN l.objects
  <2>1. CASE named.objects = l.objects
    BY <1>6, <2>1
  <2>2. CASE Adds(l, named, name, "open")
    BY <1>6, <2>2 DEF Adds
  <2> QED
    BY <1>3, <2>1, <2>2
<1> HIDE DEF name
<1>11. Named(k)
  <2>1. \A i \in DOMAIN k.txs : k.txs[i].id \in 1..MaxSeq
    BY <1>5, <1>7, <1>8
  <2>2. ASSUME NEW i \in DOMAIN k.objects, NEW j \in DOMAIN k.objects,
               k.objects[i].name = k.objects[j].name
        PROVE  i = j
    BY <1>9, <1>10, <2>2 DEF Agreement, Named
  <2>3. ASSUME NEW i \in DOMAIN k.objects
        PROVE  \/ k.objects[i].name \in Names
               \/ \E j \in DOMAIN k.txs : k.objects[i].name = TxName(k.txs[j].id)
    <3>1. CASE i \in DOMAIN l.objects /\ k.objects[i] = l.objects[i]
      BY <1>7, <3>1 DEF Agreement, Named
    <3>2. CASE k.objects[i].name = name
      BY <1>5, <1>7, <3>2 DEF name
    <3> QED
      BY <1>10, <3>1, <3>2
  <2> QED
    BY <2>1, <2>2, <2>3 DEF Named
<1>12. ASSUME NEW j \in DOMAIN k.txs
       PROVE  /\ k.txs[j].status # "open" =>
                   \A i \in DOMAIN Retained(k) : Ends(Retained(k)[i], k.txs[j])
              /\ \A i \in DOMAIN k.objects : Shows(k.objects[i], k.txs[j])
  <2>1. Retained(k) = Retained(l)
    BY <1>6, RingDeterminesWindow
  <2>2. CASE j \in DOMAIN l.txs
    <3>1. /\ l.txs[j].status # "open" =>
               \A i \in DOMAIN Retained(l) : Ends(Retained(l)[i], l.txs[j])
          /\ \A i \in DOMAIN l.objects : Shows(l.objects[i], l.txs[j])
      BY <2>2, AgreementParts DEF Agreement
    <3>2. \A i \in DOMAIN k.objects : Shows(k.objects[i], l.txs[j])
      BY <1>8, <1>10, <2>2, <3>1 DEF Shows
    <3> QED
      BY <1>7, <2>1, <2>2, <3>1, <3>2
  <2>3. CASE j = last
    <3>1. \A i \in DOMAIN k.objects : Shows(k.objects[i], t)
      BY <1>5, <1>9, <1>10 DEF Shows, name
    <3> QED
      BY <1>5, <1>7, <2>3, <3>1
  <2> QED
    BY <1>7, <2>2, <2>3
<1>13. Agreement(k)
  BY <1>11, <1>12, AgreementParts DEF Agreement
<1>14. Consecutive(k)
  BY <1>6, RingDeterminesWindow DEF Sound
<1>15. ClosedIsPast(k)
  <2>1. \A i \in DOMAIN l.txs : l.txs[i].end < l.next
    BY DEF Sound, Recorded
  <2> QED
    BY <1>5, <1>6, <1>7, <1>8, <2>1 DEF ClosedIsPast
<1>16. m \in LedgerType /\ Agreement(m)
  BY <1>2, <1>6, <1>13, <1>14, <1>15, RecordType, RecordAgrees DEF ClosedIsPast
<1> HIDE DEF m
<1>17. SameBooks(m, n) /\ n.objects = m.objects
  <2>1. n.objects = m.objects
    BY <1>16 DEF SetTx, LedgerType
  <2> QED
    BY <1>16, <2>1, SettersKeepBooks
<1>18. Agreement(n)
  BY <1>16, <1>17, SameAgreement
<1> QED
  BY <1>18, Zenon DEF Begin, n, m, k, name, named, t, Opening, opened, Opened, report

\* What object_set_state_direct does to the object of a name, if there is one.
LEMMA SetStateDirectCases ==
  ASSUME NEW l \in LedgerType, NEW name \in ObjectNames, NEW state \in ObjectStates,
         NEW event \in Nat
  PROVE  /\ DOMAIN SetStateDirect(l, name, state, event).objects = DOMAIN l.objects
         /\ \A i \in DOMAIN l.objects :
              /\ SetStateDirect(l, name, state, event).objects[i].name
                   = l.objects[i].name
              /\ l.objects[i].name # name =>
                   SetStateDirect(l, name, state, event).objects[i] = l.objects[i]
         /\ (\A i, j \in DOMAIN l.objects :
               l.objects[i].name = l.objects[j].name => i = j) =>
              \A i \in DOMAIN l.objects : l.objects[i].name = name =>
                /\ SetStateDirect(l, name, state, event).objects[i].state = state
                /\ SetStateDirect(l, name, state, event).objects[i].rev
                     = l.objects[i].rev + 1
                /\ SetStateDirect(l, name, state, event).objects[i].last = event
<1> DEFINE index == ObjectIndex(l, name)
           old == l.objects[index]
           object == [[old EXCEPT !.state = state] EXCEPT !.rev = old.rev + 1]
           noted == [object EXCEPT !.last = event]
           set == SetState(l, index, state)
           m == SetStateDirect(l, name, state, event)
<1>1. CASE index = 0
  <2>1. m = l
    BY <1>1 DEF SetStateDirect
  <2>2. \A i \in DOMAIN l.objects : l.objects[i].name # name
    BY <1>1, FindByName
  <2> HIDE DEF m
  <2> QED
    BY <2>1, <2>2 DEF m
<1>2. CASE index # 0
  <2>1. index \in DOMAIN l.objects /\ old.name = name
    BY <1>2, FindByName
  <2>2. old \in Object /\ DOMAIN l.objects = 1..Len(l.objects)
        /\ index \in 1..Len(l.objects)
    BY <2>1, RegistryType
  <2>3. set.objects = [l.objects EXCEPT ![index] = object]
    BY <2>1, <2>2 DEF SetState, LedgerType, Object
  <2>4. set \in LedgerType
    BY <2>2, SetStateType
  <2>5. m = SetLast(set, index, event)
    BY <1>2 DEF SetStateDirect
  <2> HIDE DEF set, m
  <2>6. set.objects[index] = object
    BY <2>1, <2>3
  <2>7. m.objects = [set.objects EXCEPT ![index] = noted]
    BY <2>4, <2>5, <2>6 DEF SetLast, LedgerType
  <2> HIDE DEF index
  <2>8. /\ noted.name = old.name /\ noted.state = state
        /\ noted.rev = old.rev + 1 /\ noted.last = event
    <3> HIDE DEF old
    <3>1. object \in Object
      BY <2>2, ObjectChangeType
    <3>2. object.name = old.name /\ object.state = state /\ object.rev = old.rev + 1
      BY <2>2 DEF Object
    <3> HIDE DEF object
    <3> QED
      BY <3>1, <3>2 DEF Object
  <2> HIDE DEF noted, object
  <2>9. /\ DOMAIN m.objects = DOMAIN l.objects
        /\ \A i \in DOMAIN l.objects :
             m.objects[i] = IF i = index THEN noted ELSE l.objects[i]
    BY <2>1, <2>3, <2>7
  <2> QED
    BY <2>1, <2>8, <2>9 DEF m
<1> QED
  BY <1>1, <1>2

\* Closing an open transaction makes the three agree on it, and leaves what they
\* say of the others alone.
LEMMA CloseAgrees ==
  ASSUME NEW l \in LedgerType, NEW index \in 1..Len(l.txs),
         l.txs[index].status = "open",
         NEW status \in {"committed", "aborted"}, NEW op \in Operations,
         NEW result \in Results,
         op = (IF status = "committed" THEN "commit" ELSE "abort"),
         result = (IF status = "committed" THEN "ok" ELSE "denied"),
         Sound(l), Books(l), Agreement(l)
  PROVE  Agreement(Close(l, index, status, op, result))
<1> DEFINE t == l.txs[index]
           name == TxName(t.id)
           closing == Closing(l, index, status)
           report == Report(t.actor, name, op, result, t.end, "transaction")
           m == Record(closing, report)
           direct == SetStateDirect(m, name, status, l.next)
           n == SetTx(direct, l.tx)
<1>1. /\ index \in DOMAIN l.txs /\ t \in Transaction /\ l.next \in Nat
      /\ status \in ObjectStates /\ status \in Statuses
      /\ t.id \in 1..MaxSeq /\ name \in ObjectNames
  BY TableType DEF LedgerType, ObjectStates, Statuses, Agreement, Named,
                   ObjectNames, TxNames
<1>2. report \in ReportType /\ report.op = op /\ report.result = result
  BY <1>1, CloseReportType DEF Report
<1>3. /\ closing \in LedgerType /\ closing.objects = l.objects
      /\ SameRing(l, closing) /\ closing.tx = t.id
      /\ closing.txs = [l.txs EXCEPT ![index] = Closed(l, index, status)]
      /\ Closed(l, index, status).id = t.id
  BY <1>1, ClosingType
<1>4. Closed(l, index, status).status = status
  BY <1>1 DEF Closed, Transaction
<1> HIDE DEF report, closing, t
<1>5. closing.next = l.next /\ Retained(closing) = Retained(l) /\ Consecutive(closing)
  BY <1>3, RingDeterminesWindow DEF SameRing, Sound
<1>6. m \in LedgerType /\ m.objects = l.objects
  BY <1>2, <1>3, RecordType, RecordFrame
<1>7. /\ DOMAIN m.txs = DOMAIN l.txs
      /\ \A k \in DOMAIN l.txs : m.txs[k].id = l.txs[k].id
      /\ \A k \in DOMAIN l.txs : k # index => m.txs[k] = l.txs[k]
      /\ m.txs[index].status = status /\ m.txs[index].end = l.next
  <2>1. /\ DOMAIN m.txs = DOMAIN closing.txs
        /\ \A k \in DOMAIN closing.txs :
             m.txs[k] = IF closing.txs[k].id = closing.tx
                        THEN [closing.txs[k] EXCEPT !.end = closing.next]
                        ELSE closing.txs[k]
    BY <1>3, RecordExtends
  <2> HIDE DEF m
  <2>2. /\ DOMAIN closing.txs = DOMAIN l.txs
        /\ closing.txs[index] = Closed(l, index, status)
        /\ \A k \in DOMAIN l.txs : k # index => closing.txs[k] = l.txs[k]
    BY <1>1, <1>3
  <2>3. \A k \in DOMAIN l.txs : k # index => l.txs[k].id # t.id
    BY <1>1 DEF Books, Numbered, t
  <2>4. \A k \in DOMAIN closing.txs : closing.txs[k] \in Transaction
    BY <1>3, TableType
  <2>5. \A k \in DOMAIN l.txs : k # index => m.txs[k] = l.txs[k]
    BY <1>3, <2>1, <2>2, <2>3
  <2>6. m.txs[index] = [closing.txs[index] EXCEPT !.end = closing.next]
    BY <1>1, <1>3, <2>1, <2>2
  <2>7. /\ m.txs[index].id = t.id /\ m.txs[index].status = status
        /\ m.txs[index].end = l.next
    BY <1>1, <1>3, <1>4, <1>5, <2>2, <2>4, <2>6 DEF Transaction
  <2> QED
    BY <2>1, <2>2, <2>5, <2>7 DEF t
<1>8. \A i \in DOMAIN Retained(m) :
        \/ Retained(m)[i] = Stamp(closing, report)
        \/ \E j \in DOMAIN Retained(l) : Retained(m)[i] = Retained(l)[j]
  BY <1>2, <1>3, <1>5, RecordRetains
<1>9. /\ Stamp(closing, report).seq = l.next
      /\ Stamp(closing, report).op = op /\ Stamp(closing, report).result = result
  BY <1>2, <1>5 DEF Stamp
<1> HIDE DEF m
<1>10. /\ direct \in LedgerType /\ SameBooks(m, direct)
       /\ DOMAIN direct.objects = DOMAIN l.objects
       /\ \A i \in DOMAIN l.objects :
            /\ direct.objects[i].name = l.objects[i].name
            /\ l.objects[i].name # name => direct.objects[i] = l.objects[i]
            /\ l.objects[i].name = name =>
                 /\ direct.objects[i].state = status
                 /\ direct.objects[i].rev = l.objects[i].rev + 1
                 /\ direct.objects[i].last = l.next
  <2>1. direct \in LedgerType /\ SameBooks(m, direct)
    BY <1>1, <1>6, SetStateDirectType, RegistryKeepsBooks
  <2>2. \A i, j \in DOMAIN m.objects : m.objects[i].name = m.objects[j].name => i = j
    BY <1>6 DEF Agreement, Named
  <2>3. name \in ObjectNames /\ status \in ObjectStates /\ l.next \in Nat
    BY <1>1
  <2> HIDE DEF name
  <2>4. /\ DOMAIN direct.objects = DOMAIN m.objects
        /\ \A i \in DOMAIN m.objects :
             /\ direct.objects[i].name = m.objects[i].name
             /\ m.objects[i].name # name => direct.objects[i] = m.objects[i]
    BY <1>6, <2>3, SetStateDirectCases
  <2>5. \A i \in DOMAIN m.objects : m.objects[i].name = name =>
          /\ direct.objects[i].state = status
          /\ direct.objects[i].rev = m.objects[i].rev + 1
          /\ direct.objects[i].last = l.next
    BY <1>6, <2>2, <2>3, SetStateDirectCases
  <2> HIDE DEF direct
  <2> QED
    BY <1>6, <2>1, <2>4, <2>5
<1> HIDE DEF direct
<1>11. direct.txs = m.txs /\ Retained(direct) = Retained(m)
  BY <1>10, RingDeterminesWindow DEF SameBooks
<1>12. Named(direct)
  BY <1>7, <1>10, <1>11 DEF Agreement, Named
<1>13. ASSUME NEW k \in DOMAIN direct.txs
       PROVE  /\ direct.txs[k].status # "open" =>
                   \A i \in DOMAIN Retained(direct) :
                     Ends(Retained(direct)[i], direct.txs[k])
              /\ \A i \in DOMAIN direct.objects :
                   Shows(direct.objects[i], direct.txs[k])
  <2>1. k \in DOMAIN l.txs
    BY <1>7, <1>11
  <2>2. /\ l.txs[k].status # "open" =>
             \A i \in DOMAIN Retained(l) : Ends(Retained(l)[i], l.txs[k])
        /\ \A i \in DOMAIN l.objects : Shows(l.objects[i], l.txs[k])
    BY <2>1, AgreementParts DEF Agreement
  <2>3. CASE k = index
    <3>1. direct.txs[k].status = status /\ direct.txs[k].end = l.next
          /\ direct.txs[k].id = t.id
      BY <1>1, <1>7, <1>11, <2>3 DEF t
    <3>2. Ends(Stamp(closing, report), direct.txs[k])
      BY <1>9, <3>1 DEF Ends
    <3>3. \A j \in DOMAIN Retained(l) : Ends(Retained(l)[j], direct.txs[k])
      <4>1. \A j \in DOMAIN Retained(l) :
              Retained(l)[j].seq \in Nat /\ Retained(l)[j].seq < l.next
        BY RetainedIsPast DEF Sound
      <4>2. \A j \in DOMAIN Retained(l) : Retained(l)[j].seq # l.next
        BY <1>1, <4>1
      <4> QED
        BY <3>1, <4>2 DEF Ends
    <3>4. \A i \in DOMAIN direct.objects : Shows(direct.objects[i], direct.txs[k])
      <4>1. \A i \in DOMAIN l.objects : l.objects[i].name = name => l.objects[i].rev = 1
        BY <2>2, <2>3 DEF Shows, t
      <4>2. \A i \in DOMAIN l.objects : l.objects[i].name = name =>
              direct.objects[i].rev = 2
        BY <1>10, <4>1
      <4> QED
        BY <1>10, <3>1, <4>2 DEF Shows
    <3> QED
      BY <1>8, <1>11, <3>2, <3>3, <3>4
  <2>4. CASE k # index
    <3>1. direct.txs[k] = l.txs[k]
      BY <1>7, <1>11, <2>1, <2>4
    <3>2. Ends(Stamp(closing, report), l.txs[k])
      <4>1. l.txs[k].end < l.next /\ l.txs[k].end \in Nat
        BY <2>1, TableType DEF Sound, Recorded
      <4>2. l.txs[k].end # l.next
        BY <1>1, <4>1
      <4> QED
        BY <1>9, <4>2 DEF Ends
    <3>3. TxName(l.txs[k].id) # name
      <4>1. l.txs[k].id # t.id
        BY <1>1, <2>1, <2>4 DEF Books, Numbered, t
      <4>2. l.txs[k].id \in 1..MaxSeq
        BY <2>1 DEF Agreement, Named
      <4> QED
        BY <1>1, <4>1, <4>2, NameAssumption
    <3>4. \A i \in DOMAIN direct.objects : Shows(direct.objects[i], l.txs[k])
      BY <1>10, <2>2, <3>3 DEF Shows
    <3> QED
      BY <1>8, <1>11, <2>2, <3>1, <3>2, <3>4
  <2> QED
    BY <2>3, <2>4
<1>14. Agreement(direct)
  BY <1>12, <1>13, AgreementParts DEF Agreement
<1>15. SameBooks(direct, n) /\ n.objects = direct.objects
  <2>1. n.objects = direct.objects
    BY <1>10 DEF SetTx, LedgerType
  <2> QED
    BY <1>10, <2>1, SettersKeepBooks
<1>16. Agreement(n)
  BY <1>14, <1>15, SameAgreement
<1> QED
  BY <1>16, Zenon DEF Close, n, direct, m, t, name, closing, Closing, report

\* A settled caller's transaction in force is not a closed one.
LEMMA SettledIsPast ==
  ASSUME NEW l \in LedgerType, Sound(l), Books(l), SettledIn(l)
  PROVE  ClosedIsPast(l)
<1>1. \A k \in DOMAIN l.txs : l.txs[k].id = l.tx => l.txs[k].status = "open"
  BY SettledIsOpen
<1> QED
  BY <1>1 DEF ClosedIsPast, Sound, Recorded

\* transaction_commit and transaction_abort of an open transaction agree.
LEMMA CloseActionsAgree ==
  ASSUME NEW l \in LedgerType, NEW id \in 1..MaxSeq,
         Sound(l), Books(l), Agreement(l), OpenIn(l, id)
  PROVE  Agreement(Commit(l, id)) /\ Agreement(Abort(l, id))
<1> DEFINE index == TxIndex(l, id)
<1>1. CASE index = 0
  BY <1>1 DEF Commit, Abort
<1>2. CASE index # 0
  <2>1. /\ index \in 1..Len(l.txs) /\ l.txs[index].id = id
        /\ index \in DOMAIN l.txs
    BY <1>2, TxIndexMatches, TableType
  <2>2. l.txs[index].status = "open"
    <3>1. PICK i \in DOMAIN l.txs : /\ l.txs[i].id = id
                                         /\ l.txs[i].status = "open"
      BY DEF OpenIn
    <3>2. index = i
      BY <2>1, <3>1 DEF Books, Numbered
    <3> QED
      BY <3>1, <3>2
  <2>3. "ok" \in Results /\ "denied" \in Results
    BY DEF Results
  <2> HIDE DEF index
  <2>4. Agreement(Close(l, index, "committed", "commit", "ok"))
    BY <2>1, <2>2, <2>3, CloseAgrees, OperationAssumption
  <2>5. Agreement(Close(l, index, "aborted", "abort", "denied"))
    BY <2>1, <2>2, <2>3, CloseAgrees, OperationAssumption
  <2> QED
    BY <1>2, <2>4, <2>5 DEF Commit, Abort, index
<1> QED
  BY <1>1, <1>2

\* The zeroed ledger has no object and no transaction.
LEMMA EmptyLedgerAgrees == OrderedById(EmptyLedger) /\ Agreement(EmptyLedger)
BY DEF EmptyLedger, OrderedById, OwnIds, Ordered, Retained, Agreement, Named, ClosedAgree

(***************************************************************************)
(* A call, whole: what RingProofs, TransactionProofs and the lemmas above  *)
(* say of it, in a form that composes.  The callers of the ledger are      *)
(* proved about from these lemmas.                                         *)
(***************************************************************************)
\* What every ledger satisfies between two calls of a well-behaved caller, and
\* one whose transaction in force may still be recorded under.
Whole(l) == l \in LedgerType /\ Sound(l) /\ Books(l) /\ OrderedById(l) /\ Agreement(l)
Fit(l) == Whole(l) /\ SettledIn(l)

\* The transactions still open, by id, and the objects of that name: one or none.
OpenIds(l) == {l.txs[k].id : k \in {i \in DOMAIN l.txs : l.txs[i].status = "open"}}
Shown(l, name) == {l.objects[i] : i \in {j \in DOMAIN l.objects : l.objects[j].name = name}}

\* The events retained, as a set, and what an event says.
Seen(l) == {Retained(l)[i] : i \in DOMAIN Retained(l)}
Tells(event, report) ==
  /\ event.actor = report.actor /\ event.target = report.target /\ event.op = report.op
  /\ event.result = report.result /\ event.parent = report.parent /\ event.kind = report.kind

\* The transactions of the table are those they were: only their ends have moved.
Stands(t, u) ==
  /\ u.id = t.id /\ u.begin = t.begin /\ u.started = t.started
  /\ u.committed = t.committed /\ u.target = t.target /\ u.status = t.status
TableStands(l, m) ==
  DOMAIN m.txs = DOMAIN l.txs /\ \A k \in DOMAIN l.txs : Stands(l.txs[k], m.txs[k])

\* A call that changes no object its caller named but those, leaves the
\* transactions what they were, and records its events, if it does, under the
\* transaction in force.
Goes(l, m, changed) ==
  /\ Fit(m) /\ TableStands(l, m)
  /\ m.tx = l.tx /\ m.current = l.current /\ OpenIds(m) = OpenIds(l)
  /\ l.next =< m.next
  /\ \A name \in Names \ changed : Shown(m, name) = Shown(l, name)
  /\ \A event \in Seen(m) \ Seen(l) : event.seq \in l.next..(m.next - 1) /\ event.tx = l.tx

\* Calls of that kind one after the other.
LEMMA GoesOn ==
  ASSUME NEW l, NEW m, NEW n, NEW first, NEW second,
         Fit(l), Goes(l, m, first), Goes(m, n, second)
  PROVE  Goes(l, n, first \cup second)
<1>1. l.next \in Nat /\ m.next \in Nat /\ n.next \in Nat
  BY DEF Goes, Fit, Whole, LedgerType
<1>2. l.next =< n.next
  BY <1>1 DEF Goes
<1>3. ASSUME NEW event \in Seen(n) \ Seen(l)
      PROVE  event.seq \in l.next..(n.next - 1) /\ event.tx = l.tx
  <2>1. CASE event \in Seen(m)
    <3>1. event.seq \in l.next..(m.next - 1) /\ event.tx = l.tx
      BY <2>1, <1>3 DEF Goes
    <3>2. m.next =< n.next
      BY DEF Goes
    <3> QED
      BY <1>1, <3>1, <3>2
  <2>2. CASE event \notin Seen(m)
    <3>1. event.seq \in m.next..(n.next - 1) /\ event.tx = m.tx
      BY <2>2, <1>3 DEF Goes
    <3>2. l.next =< m.next /\ m.tx = l.tx
      BY DEF Goes
    <3> QED
      BY <1>1, <3>1, <3>2
  <2> QED
    BY <2>1, <2>2
<1>4. Fit(n) /\ n.tx = l.tx /\ n.current = l.current /\ OpenIds(n) = OpenIds(l)
  BY DEF Goes
<1>5. \A name \in Names \ (first \cup second) : Shown(n, name) = Shown(l, name)
  BY DEF Goes
<1>6. TableStands(l, n)
  BY DEF Goes, TableStands, Stands
<1> QED
  BY <1>2, <1>3, <1>4, <1>5, <1>6 DEF Goes

\* The transactions open and in force decide whether a caller is settled.
LEMMA SettledByIds ==
  ASSUME NEW l
  PROVE  /\ SettledIn(l) <=> l.tx = 0 \/ l.tx \in OpenIds(l)
         /\ \A id : OpenIn(l, id) <=> id \in OpenIds(l)
BY DEF SettledIn, OpenIn, OpenIds

\* A name callers give finds the object shown, or none.
LEMMA ShownIsFound ==
  ASSUME NEW l \in LedgerType, Agreement(l), NEW name \in ObjectNames
  PROVE  /\ Known(l, name) =>
              /\ ObjectIndex(l, name) \in DOMAIN l.objects
              /\ Shown(l, name) = {l.objects[ObjectIndex(l, name)]}
              /\ l.objects[ObjectIndex(l, name)] \in Object
         /\ ~ Known(l, name) => Shown(l, name) = {}
<1>1. CASE Known(l, name)
  <2> DEFINE k == ObjectIndex(l, name)
  <2>1. k \in DOMAIN l.objects /\ l.objects[k].name = name
    BY <1>1, FindByName DEF Known
  <2>2. \A i \in DOMAIN l.objects : l.objects[i].name = name => i = k
    BY <2>1 DEF Agreement, Named
  <2>3. l.objects[k] \in Object
    BY <2>1, RegistryType
  <2> HIDE DEF k
  <2>4. Shown(l, name) = {l.objects[k]}
    BY <2>1, <2>2 DEF Shown
  <2> QED
    BY <1>1, <2>1, <2>3, <2>4 DEF k
<1>2. CASE ~ Known(l, name)
  <2>1. \A i \in DOMAIN l.objects : l.objects[i].name # name
    BY <1>2, FindByName DEF Known
  <2> QED
    BY <1>2, <2>1 DEF Shown
<1> QED
  BY <1>1, <1>2

\* Recording moves the end of a transaction, and nothing else of it.
LEMMA RecordKeepsOpen ==
  ASSUME NEW l \in LedgerType, NEW report
  PROVE  OpenIds(Record(l, report)) = OpenIds(l) /\ TableStands(l, Record(l, report))
<1> DEFINE m == Record(l, report)
<1>1. DOMAIN m.txs = DOMAIN l.txs
  BY RecordExtends
<1>2. ASSUME NEW k \in DOMAIN l.txs
      PROVE  Stands(l.txs[k], m.txs[k])
  <2>1. l.txs[k] \in Transaction
    BY TableType
  <2>2. m.txs[k] = IF l.txs[k].id = l.tx THEN [l.txs[k] EXCEPT !.end = l.next]
                   ELSE l.txs[k]
    BY RecordExtends
  <2> QED
    BY <2>1, <2>2 DEF Transaction, Stands
<1> HIDE DEF m
<1>3. OpenIds(m) = OpenIds(l)
  BY <1>1, <1>2 DEF OpenIds, Stands
<1>4. TableStands(l, m)
  BY <1>1, <1>2 DEF TableStands
<1> QED
  BY <1>3, <1>4 DEF m

\* The table as it was.
LEMMA SameTableStands ==
  ASSUME NEW l, NEW m, m.txs = l.txs
  PROVE  TableStands(l, m)
BY DEF TableStands, Stands

\* The events after a call are among those before it and the one it recorded.
LEMMA RecordSeen ==
  ASSUME NEW l \in LedgerType, NEW report \in ReportType
  PROVE  /\ Seen(Record(l, report)) \subseteq Seen(l) \cup {Stamp(l, report)}
         /\ Tells(Stamp(l, report), report)
         /\ Stamp(l, report).seq = l.next /\ Stamp(l, report).tx = l.tx
BY RecordRetains DEF Seen, Tells, Stamp

\* event_record and event_record_kind.
Records(l, m, report) ==
  /\ Goes(l, m, {}) /\ m.next = l.next + 1 /\ m.objects = l.objects
  /\ \A event \in Seen(m) \ Seen(l) : event.seq = l.next /\ Tells(event, report)

LEMMA RecordGoes ==
  ASSUME NEW l, Fit(l), NEW report \in ReportType, report.parent \in 0..(l.next - 1)
  PROVE  Records(l, Record(l, report), report)
<1> DEFINE m == Record(l, report)
<1>1. /\ l \in LedgerType /\ Sound(l) /\ Books(l) /\ OrderedById(l) /\ Agreement(l)
      /\ Consecutive(l) /\ Recorded(l) /\ SettledIn(l) /\ l.next \in Nat
  BY DEF Fit, Whole, Sound, LedgerType
<1>2. /\ m \in LedgerType /\ m.objects = l.objects /\ m.next = l.next + 1
      /\ m.tx = l.tx /\ m.current = l.current
  BY <1>1, RecordType, RecordFrame
<1>3. OpenIds(m) = OpenIds(l) /\ TableStands(l, m)
  BY <1>1, RecordKeepsOpen
<1>4. Sound(m)
  <2>1. SameRing(l, l) /\ SameLog(m, m)
    BY DEF SameRing, SameLog
  <2>2. Pending(l)
    BY <1>1, RecordedIsPending
  <2>3. Kept(l, m)
    BY <1>1, <1>2, <2>1, <2>2, RecordStep
  <2> QED
    BY <1>1, <2>3 DEF Kept
<1>5. Books(m)
  <2>1. SameLog(l, l) /\ SameBooks(m, m)
    BY DEF SameLog, SameBooks, SameRing
  <2>2. \A i \in DOMAIN l.txs : l.txs[i].id = l.tx => l.txs[i].status = "open"
    BY <1>1, SettledIsOpen
  <2>3. Accounted(l, m)
    BY <1>1, <1>2, <2>1, <2>2, RecordAccounted
  <2> QED
    BY <2>3 DEF Accounted
<1>6. OrderedById(m)
  BY <1>1, RecordKeepsOrder
<1>7. Agreement(m)
  <2>1. ClosedIsPast(l)
    BY <1>1, SettledIsPast
  <2> QED
    BY <1>1, <2>1, RecordAgrees DEF ClosedIsPast
<1>11. \A event \in Seen(m) \ Seen(l) :
         event.seq = l.next /\ event.tx = l.tx /\ Tells(event, report)
  BY <1>1, RecordSeen
<1> HIDE DEF m
<1>8. SettledIn(m)
  BY <1>1, <1>2, <1>3, SettledByIds
<1>9. \A name : Shown(m, name) = Shown(l, name)
  BY <1>2 DEF Shown
<1>10. l.next =< m.next
  BY <1>1, <1>2
<1>12. \A event \in Seen(m) \ Seen(l) : event.seq \in l.next..(m.next - 1)
  BY <1>1, <1>2, <1>11
<1> QED
  BY <1>2, <1>3, <1>4, <1>5, <1>6, <1>7, <1>8, <1>9, <1>10, <1>11, <1>12
     DEF Goes, Fit, Whole, m, Records

\* object_update_state of an object that is known, taken apart.
Updating(l, index) ==
  Report("object", l.objects[index].name, "state_update", "ok", l.current, "state")
Updated(l, index, state) ==
  [l.objects[index] EXCEPT !.state = state, !.rev = l.objects[index].rev + 1, !.last = l.next]

LEMMA UpdateStateIs ==
  ASSUME NEW l \in LedgerType, NEW name, NEW state \in ObjectStates, NEW index,
         index = ObjectIndex(l, name), index # 0, NEW k, k = SetState(l, index, state)
  PROVE  /\ index \in 1..Len(l.objects)
         /\ Updating(l, index) \in ReportType
         /\ k \in LedgerType /\ SameBooks(l, k) /\ SameLog(l, k) /\ k.tx = l.tx
         /\ Record(k, Updating(l, index)) \in LedgerType
         /\ UpdateState(l, name, state) = SetLast(Record(k, Updating(l, index)), index, l.next)
         /\ UpdateState(l, name, state).objects =
              [l.objects EXCEPT ![index] = Updated(l, index, state)]
<1>1. /\ index \in 1..Len(l.objects)
      /\ Len(l.objects) \in Nat
      /\ l.objects \in Seq(Object)
      /\ l.current \in Nat /\ l.next \in Nat
  BY ObjectIndexType, LenProperties DEF LedgerType
<1>2. l.objects[index] \in Object
  BY <1>1, ElementOfSeq
<1>3. Updating(l, index) \in ReportType
  <2>1. l.objects[index].name \in Labels
    BY <1>2 DEF Object, Labels
  <2>2. /\ "object" \in Labels /\ "ok" \in Results
        /\ "state_update" \in Operations /\ "state" \in Kinds
    BY OperationAssumption DEF Kinds, Labels, Results
  <2> QED
    BY <1>1, <2>1, <2>2, ReportIsTyped, Zenon DEF Updating
<1>4. k \in LedgerType /\ SameBooks(l, k) /\ SameLog(l, k) /\ k.tx = l.tx
  BY <1>1, SetStateType, RegistryKeepsBooks, RegistryKeepsLog
<1> DEFINE n == Record(k, Updating(l, index))
<1>5. n \in LedgerType /\ n.objects = k.objects
  BY <1>3, <1>4, RecordType, RecordFrame
<1>6. UpdateState(l, name, state) = SetLast(n, index, l.next)
  BY Zenon DEF UpdateState, Updating
<1>7. k.objects = [l.objects EXCEPT ![index].state = state, ![index].rev = @ + 1]
  BY DEF SetState, LedgerType
<1> HIDE DEF n
<1>8. SetLast(n, index, l.next).objects = [n.objects EXCEPT ![index].last = l.next]
  BY <1>5 DEF SetLast, LedgerType
<1>9. DOMAIN l.objects = 1..Len(l.objects)
  BY RegistryType
<1>10. SetLast(n, index, l.next).objects =
         [l.objects EXCEPT ![index] = Updated(l, index, state)]
  <2> DEFINE old == l.objects[index]
             new == [old EXCEPT !.state = state, !.rev = old.rev + 1]
             last == [new EXCEPT !.last = l.next]
  <2>1. k.objects = [l.objects EXCEPT ![index] = new]
    BY <1>1, <1>2, <1>7, <1>9
  <2>2. k.objects[index] = new
    BY <1>1, <1>9, <2>1
  <2>3. last = Updated(l, index, state)
    BY <1>2 DEF Updated, Object
  <2> HIDE DEF new
  <2>4. SetLast(n, index, l.next).objects = [k.objects EXCEPT ![index] = last]
    BY <1>5, <1>8, <2>2
  <2> HIDE DEF last
  <2>5. [k.objects EXCEPT ![index] = last] = [l.objects EXCEPT ![index] = last]
    BY <2>1
  <2> QED
    BY <2>3, <2>4, <2>5
<1> QED
  BY <1>1, <1>3, <1>4, <1>5, <1>6, <1>10 DEF n

\* An object's place shows one object, and a change there changes no other name.
Replaces(l, m, index, object, name) ==
  /\ index \in 1..Len(l.objects)
  /\ l.objects[index].name = name /\ object.name = name
  /\ DOMAIN m.objects = DOMAIN l.objects /\ m.objects[index] = object
  /\ \A i \in DOMAIN l.objects : i # index => m.objects[i] = l.objects[i]

LEMMA ChangeShows ==
  ASSUME NEW l, NEW m, NEW index, NEW object, NEW name,
         l \in LedgerType, Agreement(l), Replaces(l, m, index, object, name)
  PROVE  /\ Shown(m, name) = {object}
         /\ \A other : other # name => Shown(m, other) = Shown(l, other)
<1>1. /\ DOMAIN l.objects = 1..Len(l.objects) /\ DOMAIN m.objects = DOMAIN l.objects
      /\ index \in DOMAIN l.objects /\ l.objects[index].name = name /\ object.name = name
      /\ m.objects[index] = object
      /\ \A i \in DOMAIN l.objects : i # index => m.objects[i] = l.objects[i]
  BY RegistryType DEF Replaces
<1>2. \A i, j \in DOMAIN l.objects : l.objects[i].name = l.objects[j].name => i = j
  BY DEF Agreement, Named
<1>3. \A i \in DOMAIN l.objects : m.objects[i] = IF i = index THEN object ELSE l.objects[i]
  BY <1>1
<1>4. \A i \in DOMAIN l.objects : m.objects[i].name = name <=> i = index
  BY <1>1, <1>2, <1>3
<1>5. Shown(m, name) = {object}
  BY <1>1, <1>3, <1>4 DEF Shown
<1>6. ASSUME NEW other, other # name
      PROVE  Shown(m, other) = Shown(l, other)
  <2>1. \A i \in DOMAIN l.objects : m.objects[i].name = other <=> l.objects[i].name = other
    BY <1>1, <1>6
  <2>2. \A i \in DOMAIN l.objects : m.objects[i].name = other => m.objects[i] = l.objects[i]
    BY <1>1, <1>6
  <2> QED
    BY <1>1, <2>1, <2>2 DEF Shown
<1> QED
  BY <1>5, <1>6

\* object_update_state of a name that callers give.
Updates(l, m, name, state) ==
  /\ Goes(l, m, {name})
  /\ Shown(l, name) = {} => m = l
  /\ \A old \in Shown(l, name) :
       /\ m.next = l.next + 1
       /\ \E new : /\ Shown(m, name) = {new} /\ new.state = state
                   /\ new.rev = old.rev + 1 /\ new.last = l.next
  /\ \A event \in Seen(m) \ Seen(l) :
       Tells(event, Report("object", name, "state_update", "ok", l.current, "state"))

LEMMA UpdateGoes ==
  ASSUME NEW l, Fit(l), NEW name \in Names, NEW state \in States
  PROVE  Updates(l, UpdateState(l, name, state), name, state)
<1> SUFFICES ASSUME NEW m, m = UpdateState(l, name, state)
             PROVE  Updates(l, m, name, state)
  OBVIOUS
<1>1. /\ l \in LedgerType /\ Sound(l) /\ Books(l) /\ OrderedById(l) /\ Agreement(l)
      /\ SettledIn(l) /\ l.next \in Nat
      /\ name \in ObjectNames /\ state \in ObjectStates
  BY DEF Fit, Whole, LedgerType, ObjectNames, ObjectStates
<1>2. m \in LedgerType /\ Sound(m)
  BY <1>1, UpdateStateKept DEF Kept
<1>3. Books(m)
  <2>1. \A i \in DOMAIN l.txs : l.txs[i].id = l.tx => l.txs[i].status = "open"
    BY <1>1, SettledIsOpen
  <2> QED
    BY <1>1, <2>1, UpdateStateAccounted DEF Accounted
<1>4. OrderedById(m)
  BY <1>1, UpdateStateOrdered
<1>5. Agreement(m)
  BY <1>1, SettledIsPast, UpdateStateAgrees
<1>6. CASE ~ Known(l, name)
  <2>1. m = l /\ Shown(l, name) = {}
    BY <1>1, <1>6, ShownIsFound DEF UpdateState, Known
  <2>2. l.next =< l.next /\ TableStands(l, l)
    BY <1>1, SameTableStands
  <2> QED
    BY <1>1, <1>6, <2>1, <2>2 DEF Goes, Fit, Whole, Updates
<1>7. CASE Known(l, name)
  <2> DEFINE index == ObjectIndex(l, name)
             changed == SetState(l, index, state)
             recorded == Record(changed, Updating(l, index))
             updated == Updated(l, index, state)
  <2>1. /\ index # 0 /\ index \in 1..Len(l.objects) /\ Updating(l, index) \in ReportType
        /\ changed \in LedgerType /\ SameBooks(l, changed) /\ SameLog(l, changed)
        /\ changed.tx = l.tx /\ recorded \in LedgerType
        /\ m = SetLast(recorded, index, l.next)
        /\ m.objects = [l.objects EXCEPT ![index] = updated]
    BY <1>1, <1>7, UpdateStateIs DEF Known
  <2>2. /\ l.objects[index].name = name /\ l.objects[index] \in Object
        /\ Shown(l, name) = {l.objects[index]}
    BY <1>1, <1>7, <2>1, FindByName, RegistryType, ShownIsFound DEF Known
  <2>3. /\ updated.name = name /\ updated.state = state
        /\ updated.rev = l.objects[index].rev + 1 /\ updated.last = l.next
    BY <2>2 DEF Updated, Object
  <2>4. Updating(l, index) = Report("object", name, "state_update", "ok", l.current, "state")
    BY <2>2 DEF Updating
  <2> HIDE DEF index, updated
  <2>5. Shown(m, name) = {updated} /\ \A other : other # name => Shown(m, other) = Shown(l, other)
    <3>1. DOMAIN l.objects = 1..Len(l.objects)
      BY <1>1, RegistryType
    <3>2. /\ DOMAIN m.objects = DOMAIN l.objects /\ m.objects[index] = updated
          /\ \A i \in DOMAIN l.objects : i # index => m.objects[i] = l.objects[i]
      BY <2>1, <3>1
    <3>3. Replaces(l, m, index, updated, name)
      BY <2>1, <2>2, <2>3, <3>2, Zenon DEF Replaces
    <3> QED
      BY <1>1, <3>3, ChangeShows
  <2> DEFINE report == Updating(l, index)
  <2>6. /\ recorded.next = changed.next + 1 /\ recorded.tx = changed.tx
        /\ recorded.current = changed.current /\ OpenIds(recorded) = OpenIds(changed)
        /\ TableStands(changed, recorded)
        /\ \A event \in Seen(recorded) \ Seen(changed) :
             event.seq = changed.next /\ event.tx = changed.tx /\ Tells(event, report)
    BY <2>1, RecordFrame, RecordKeepsOpen, RecordSeen
  <2>7. /\ changed.next = l.next /\ changed.current = l.current
        /\ OpenIds(changed) = OpenIds(l) /\ Seen(changed) = Seen(l) /\ changed.txs = l.txs
    BY <2>1, RingDeterminesWindow DEF SameBooks, SameRing, SameLog, OpenIds, Seen
  <2> HIDE DEF changed, recorded, report
  <2>8. /\ SameLog(recorded, m) /\ SameBooks(recorded, m) /\ m.tx = recorded.tx
    BY <2>1, RegistryKeepsLog, RegistryKeepsBooks
  <2>9. /\ m.next = recorded.next /\ m.current = recorded.current
        /\ OpenIds(m) = OpenIds(recorded) /\ Seen(m) = Seen(recorded)
        /\ m.txs = recorded.txs
    BY <2>8, RingDeterminesWindow DEF SameBooks, SameRing, SameLog, OpenIds, Seen
  <2>10. m.tx = l.tx /\ m.current = l.current /\ OpenIds(m) = OpenIds(l) /\ m.next = l.next + 1
    BY <2>1, <2>6, <2>7, <2>8, <2>9
  <2>11. SettledIn(m)
    BY <1>1, <2>10, SettledByIds
  <2>12. l.next =< m.next
    BY <1>1, <2>10
  <2>13. \A event \in Seen(m) \ Seen(l) :
           event.seq = l.next /\ event.tx = l.tx /\ Tells(event, report)
    BY <2>1, <2>6, <2>7, <2>9
  <2>14. \A event \in Seen(m) \ Seen(l) : event.seq \in l.next..(m.next - 1)
    BY <1>1, <2>10, <2>13
  <2>19. TableStands(l, m)
    BY <2>6, <2>7, <2>9 DEF TableStands
  <2>15. Goes(l, m, {name})
    BY <1>2, <1>3, <1>4, <1>5, <2>5, <2>10, <2>11, <2>12, <2>13, <2>14, <2>19
       DEF Goes, Fit, Whole
  <2>16. \A old \in Shown(l, name) :
           /\ m.next = l.next + 1
           /\ \E new : /\ Shown(m, name) = {new} /\ new.state = state
                       /\ new.rev = old.rev + 1 /\ new.last = l.next
    BY <2>2, <2>3, <2>5, <2>10
  <2>17. Shown(l, name) # {}
    BY <2>2
  <2>18. report = Report("object", name, "state_update", "ok", l.current, "state")
    BY <2>4 DEF report
  <2> QED
    BY <2>13, <2>15, <2>16, <2>17, <2>18 DEF Updates
<1> QED
  BY <1>6, <1>7

\* A ledger whose registry alone changed, and not under that name.
LEMMA SameLogShows ==
  ASSUME NEW l, NEW m, SameLog(l, m)
  PROVE  /\ m.next = l.next /\ m.current = l.current
         /\ OpenIds(m) = OpenIds(l) /\ Seen(m) = Seen(l)
BY RingDeterminesWindow DEF SameRing, SameLog, OpenIds, Seen

\* object_register of a name that callers give: an object more, or none.
Registers(l, m, name, state) ==
  /\ Goes(l, m, {name})
  /\ m.next = l.next /\ Seen(m) = Seen(l)
  /\ Shown(l, name) # {} => m = l
  /\ Shown(l, name) = {} =>
       \/ Shown(m, name) = {} /\ Len(l.objects) >= ObjCap
       \/ \E new : Shown(m, name) = {new} /\ new.state = state /\ new.rev = 1

LEMMA RegisterGoes ==
  ASSUME NEW l, Fit(l), NEW name \in Names, NEW parent \in Nat, NEW state \in States,
         NEW created \in Nat
  PROVE  Registers(l, Register(l, name, parent, state, created), name, state)
<1> SUFFICES ASSUME NEW m, m = Register(l, name, parent, state, created)
             PROVE  Registers(l, m, name, state)
  OBVIOUS
<1>1. /\ l \in LedgerType /\ Sound(l) /\ Books(l) /\ OrderedById(l) /\ Agreement(l)
      /\ SettledIn(l) /\ l.next \in Nat
      /\ name \in ObjectNames /\ state \in ObjectStates
  BY DEF Fit, Whole, LedgerType, ObjectNames, ObjectStates
<1>2. m \in LedgerType /\ SameLog(l, m) /\ SameBooks(l, m) /\ m.tx = l.tx
  BY <1>1, RegisterType, RegistryKeepsLog, RegistryKeepsBooks
<1>3. Sound(m)
  BY <1>1, <1>2, RegistryStep DEF Kept
<1>4. Books(m)
  BY <1>1, <1>2, SameBooksAccounted DEF Accounted
<1>5. Agreement(m)
  BY <1>1, RegisterAgrees
<1>6. OrderedById(m)
  <2>1. Grows(l, m)
    BY <1>1, RegisterGrows
  <2> QED
    BY <1>1, <1>2, <2>1, GrowthKeepsOrder DEF SameBooks, OrderedById
<1>7. /\ m.next = l.next /\ m.current = l.current
      /\ OpenIds(m) = OpenIds(l) /\ Seen(m) = Seen(l)
  BY <1>2, SameLogShows
<1>8. SettledIn(m)
  BY <1>1, <1>2, <1>7, SettledByIds
<1>9. Fit(m) /\ l.next =< m.next /\ TableStands(l, m)
  BY <1>1, <1>2, <1>3, <1>4, <1>5, <1>6, <1>7, <1>8, SameTableStands DEF Fit, Whole, SameBooks
<1>10. CASE m.objects = l.objects
  <2>1. \A other : Shown(m, other) = Shown(l, other)
    BY <1>10 DEF Shown
  <2>2. Goes(l, m, {name})
    BY <1>2, <1>7, <1>9, <2>1 DEF Goes
  <2>3. Shown(l, name) # {} <=> Known(l, name)
    BY <1>1, ShownIsFound
  <2>4. Len(l.objects) >= ObjCap \/ Known(l, name) => m = l
    BY DEF Register
  <2>5. ~ (Len(l.objects) >= ObjCap \/ Known(l, name)) => Len(m.objects) = Len(l.objects) + 1
    <3> DEFINE object == [id |-> Len(l.objects) + 1, name |-> name, parent |-> parent,
                          rev |-> 1, state |-> state, created |-> created, last |-> created]
    <3>1. object \in Object
      BY <1>1, RegistryType DEF Object
    <3> HIDE DEF object
    <3>2. ~ (Len(l.objects) >= ObjCap \/ Known(l, name)) =>
            m.objects = Append(l.objects, object)
      BY <1>1 DEF Register, LedgerType, object
    <3> QED
      BY <1>1, <3>1, <3>2, AppendProperties, RegistryType
  <2>6. Len(m.objects) # Len(l.objects) + 1
    BY <1>1, <1>10, RegistryType
  <2> QED
    BY <1>7, <1>10, <2>1, <2>2, <2>3, <2>4, <2>5, <2>6 DEF Registers
<1>11. CASE Adds(l, m, name, state)
  <2>1. PICK last :
          /\ DOMAIN m.objects = DOMAIN l.objects \cup {last}
          /\ last \notin DOMAIN l.objects
          /\ \A i \in DOMAIN l.objects : /\ m.objects[i] = l.objects[i]
                                         /\ l.objects[i].name # name
          /\ m.objects[last].name = name
          /\ m.objects[last].state = state
          /\ m.objects[last].rev = 1
    BY <1>11 DEF Adds
  <2>2. Shown(l, name) = {} /\ Shown(m, name) = {m.objects[last]}
    BY <2>1 DEF Shown
  <2>3. ASSUME NEW other, other # name
        PROVE  Shown(m, other) = Shown(l, other)
    BY <2>1, <2>3 DEF Shown
  <2>4. Goes(l, m, {name})
    BY <1>2, <1>7, <1>9, <2>3 DEF Goes
  <2> QED
    BY <1>7, <2>1, <2>2, <2>4 DEF Registers
<1> QED
  BY <1>1, <1>10, <1>11, RegisterCases

\* event_set_current to an event already recorded, and event_set_transaction.
Sets(l, m, current, tx) ==
  /\ Whole(m) /\ m.current = current /\ m.tx = tx /\ m.next = l.next
  /\ OpenIds(m) = OpenIds(l) /\ Seen(m) = Seen(l)
  /\ m.txs = l.txs /\ m.objects = l.objects
  /\ \A name : Shown(m, name) = Shown(l, name)

LEMMA SetCurrentSets ==
  ASSUME NEW l, Whole(l), NEW event \in 0..(l.next - 1)
  PROVE  Sets(l, SetCurrent(l, event), event, l.tx)
<1> SUFFICES ASSUME NEW m, m = SetCurrent(l, event)
             PROVE  Sets(l, m, event, l.tx)
  OBVIOUS
<1>1. /\ l \in LedgerType /\ Sound(l) /\ Books(l) /\ OrderedById(l) /\ Agreement(l)
      /\ l.next \in Nat
  BY DEF Whole, LedgerType
<1>2. event \in Nat
  BY <1>1
<1>3. m \in LedgerType /\ Sound(m)
  BY <1>1, SetCurrentKept DEF Kept
<1>4. SameBooks(l, m) /\ m.tx = l.tx
  BY <1>1, SettersKeepBooks
<1>5. Books(m)
  BY <1>1, <1>4, SameBooksAccounted DEF Accounted
<1>6. OrderedById(m)
  BY <1>1, <1>2, SettersKeepOrder
<1>7. m.objects = l.objects /\ m.current = event
  BY <1>1 DEF SetCurrent, LedgerType
<1>8. Agreement(m)
  BY <1>1, <1>4, <1>7, SameAgreement
<1>9. /\ m.next = l.next /\ OpenIds(m) = OpenIds(l) /\ Seen(m) = Seen(l)
  BY <1>4, RingDeterminesWindow DEF SameBooks, SameRing, OpenIds, Seen
<1>10. \A name : Shown(m, name) = Shown(l, name)
  BY <1>7 DEF Shown
<1> QED
  BY <1>3, <1>4, <1>5, <1>6, <1>7, <1>8, <1>9, <1>10 DEF Whole, Sets, SameBooks

LEMMA SetTxSets ==
  ASSUME NEW l, Whole(l), NEW id, id \in {0} \cup OpenIds(l)
  PROVE  Sets(l, SetTx(l, id), l.current, id)
<1> SUFFICES ASSUME NEW m, m = SetTx(l, id)
             PROVE  Sets(l, m, l.current, id)
  OBVIOUS
<1>1. /\ l \in LedgerType /\ Sound(l) /\ Books(l) /\ OrderedById(l) /\ Agreement(l)
  BY DEF Whole
<1>2. /\ id \in Nat
      /\ id = 0 \/ \E k \in DOMAIN l.txs : l.txs[k].id = id
  BY <1>1, TableType DEF OpenIds
<1>3. m \in LedgerType /\ SameLog(l, m)
  BY <1>1, <1>2, SetTxType, RegistryKeepsLog
<1>4. Sound(m)
  BY <1>1, <1>3, RegistryStep DEF Kept
<1>5. SameBooks(l, m) /\ m.tx = id
  BY <1>1, SettersKeepBooks
<1>6. Books(m)
  <2>1. Bound(m)
    BY <1>2, <1>5 DEF Bound, SameBooks
  <2> QED
    BY <1>1, <1>5, <2>1, TableDeterminesBooks DEF Books
<1>7. OrderedById(m)
  BY <1>1, <1>2, SettersKeepOrder
<1>8. m.objects = l.objects
  BY <1>1 DEF SetTx, LedgerType
<1>9. Agreement(m)
  BY <1>1, <1>5, <1>8, SameAgreement
<1>10. /\ m.next = l.next /\ m.current = l.current
       /\ OpenIds(m) = OpenIds(l) /\ Seen(m) = Seen(l)
  BY <1>3, SameLogShows
<1>12. \A name : Shown(m, name) = Shown(l, name)
  BY <1>8 DEF Shown
<1> QED
  BY <1>3, <1>4, <1>5, <1>6, <1>7, <1>8, <1>9, <1>10, <1>12 DEF Whole, Sets, SameBooks

\* A ledger whose transaction in force is open, or none, is fit to record under.
LEMMA FitIsSettled ==
  ASSUME NEW l, Whole(l)
  PROVE  Fit(l) <=> l.tx \in {0} \cup OpenIds(l)
BY SettledByIds DEF Fit

\* The ids of the open transactions are in the table.
LEMMA OpenIdsType ==
  ASSUME NEW l, Whole(l), NEW id \in OpenIds(l)
  PROVE  id \in 1..MaxSeq /\ id < l.next /\ TxIndex(l, id) \in DOMAIN l.txs
         /\ l.txs[TxIndex(l, id)].id = id /\ l.txs[TxIndex(l, id)].status = "open"
<1>1. l \in LedgerType /\ Books(l) /\ Agreement(l)
  BY DEF Whole
<1>2. PICK k \in DOMAIN l.txs : l.txs[k].id = id /\ l.txs[k].status = "open"
  BY DEF OpenIds
<1>3. id \in 1..MaxSeq /\ id < l.next
  BY <1>1, <1>2 DEF Agreement, Named, Books, Numbered
<1>4. TxIndex(l, id) # 0
  <2> DEFINE T == {i \in 1..Len(l.txs) : l.txs[i].id = id}
  <2>1. TxIndex(l, id) = IF T # {} THEN Min(T) ELSE 0
    BY DEF TxIndex, SelectInSeq
  <2>2. k \in T
    BY <1>1, <1>2, TableType
  <2>3. T \in SUBSET Nat /\ \A i \in T : i # 0
    OBVIOUS
  <2>4. Min(T) \in T
    BY <2>2, <2>3, MinOfNaturals, Zenon
  <2> QED
    BY <2>1, <2>2, <2>3, <2>4
<1>5. TxIndex(l, id) \in DOMAIN l.txs /\ l.txs[TxIndex(l, id)].id = id
  BY <1>1, <1>4, TxIndexMatches, TableType
<1> QED
  BY <1>1, <1>2, <1>3, <1>5 DEF Books, Numbered

\* What transaction_begin records.
BeginReport(l, actor, parent) ==
  Report(actor, TxName(l.next), "begin", "ok", parent, "transaction")

\* transaction_begin: one transaction more is open, unless the table is full.
Begins(l, m, actor, parent) ==
  /\ Whole(m) /\ m.tx = l.tx /\ m.current = l.current /\ l.next =< m.next
  /\ \A name \in Names : Shown(m, name) = Shown(l, name)
  /\ BeginResult(l) = 0 => m = l
  /\ BeginResult(l) # 0 =>
       /\ BeginResult(l) = l.next /\ m.next = l.next + 1
       /\ OpenIds(m) = OpenIds(l) \cup {l.next}
       /\ \A event \in Seen(m) \ Seen(l) :
            /\ event.seq = l.next /\ event.tx = l.next
            /\ Tells(event, BeginReport(l, actor, parent))

LEMMA BeginGoes ==
  ASSUME NEW l, Whole(l), l.next \in 1..MaxSeq, NEW actor \in Labels,
         NEW target \in Labels, NEW parent \in 0..(l.next - 1)
  PROVE  Begins(l, Begin(l, actor, target, parent), actor, parent)
<1> SUFFICES ASSUME NEW m, m = Begin(l, actor, target, parent)
             PROVE  Begins(l, m, actor, parent)
  OBVIOUS
<1> DEFINE name == TxName(l.next)
           named == Register(l, name, ObjectId(l, "events"), "open", parent)
           t == Opening(l, named, actor, target, parent)
           opened == Opened(l, named, actor, target, parent)
           report == BeginReport(l, actor, parent)
           k == SetTx(opened, l.next)
           n == Record(k, report)
<1>1. /\ l \in LedgerType /\ Sound(l) /\ Books(l) /\ OrderedById(l) /\ Agreement(l)
      /\ l.next \in Nat /\ parent \in Nat /\ l.tx \in Nat
      /\ name \in ObjectNames /\ "open" \in ObjectStates /\ ObjectId(l, "events") \in Nat
  BY ObjectIdType DEF Whole, LedgerType, ObjectNames, TxNames, ObjectStates, Statuses
<1>2. m \in LedgerType /\ Sound(m)
  BY <1>1, BeginKept DEF Kept
<1>3. Books(m)
  BY <1>1, BeginAccounted DEF Accounted
<1>4. OrderedById(m) /\ Agreement(m)
  BY <1>1, BeginOrdered, BeginAgrees
<1>5. Whole(m)
  BY <1>2, <1>3, <1>4 DEF Whole
<1>6. CASE BeginResult(l) = 0
  <2>1. m = l /\ l.next =< l.next
    BY <1>1, <1>6 DEF Begin
  <2> QED
    BY <1>5, <1>6, <2>1 DEF Begins
<1>7. CASE BeginResult(l) # 0
  <2>1. m = SetTx(n, l.tx)
    BY <1>7, Zenon DEF Begin, n, k, opened, Opened, Opening, named, name, report, BeginReport
  <2>2. report \in ReportType
    BY <1>1, BeginReportType DEF BeginReport
  <2>3. /\ named \in LedgerType /\ SameLog(l, named)
        /\ (named.objects = l.objects \/ Adds(l, named, name, "open"))
    BY <1>1, RegisterType, RegisterCases, RegistryKeepsLog
  <2> HIDE DEF named, report
  <2>4. /\ t \in Transaction /\ opened \in LedgerType /\ SameRing(named, opened)
        /\ opened.objects = named.objects /\ opened.txs = Append(named.txs, t)
    BY <1>1, <2>3, OpeningType
  <2>5. t.id = l.next /\ t.status = "open"
    BY DEF Opening
  <2>6. opened.current = named.current
    BY <2>3 DEF Opened, LedgerType
  <2> HIDE DEF opened, t
  <2>7. /\ k \in LedgerType /\ SameLog(opened, k) /\ k.tx = l.next
        /\ k.objects = opened.objects
    BY <1>1, <2>4, SetTxType, RegistryKeepsLog, SettersKeepBooks DEF SetTx, LedgerType
  <2> HIDE DEF k
  <2>8. /\ k.next = l.next /\ k.current = l.current /\ Seen(k) = Seen(l)
        /\ k.txs = Append(l.txs, t) /\ k.objects = named.objects
    BY <2>3, <2>4, <2>6, <2>7, RingDeterminesWindow DEF SameLog, SameRing, Seen
  <2>9. /\ n \in LedgerType /\ n.next = k.next + 1 /\ n.current = k.current
        /\ n.objects = k.objects /\ OpenIds(n) = OpenIds(k)
        /\ \A event \in Seen(n) \ Seen(k) :
             event.seq = k.next /\ event.tx = k.tx /\ Tells(event, report)
    BY <2>2, <2>7, RecordType, RecordFrame, RecordKeepsOpen, RecordSeen
  <2> HIDE DEF n
  <2>10. /\ SameLog(n, m) /\ m.tx = l.tx /\ m.objects = n.objects
    <3>1. SameLog(n, SetTx(n, l.tx)) /\ SetTx(n, l.tx).tx = l.tx
      BY <2>9, RegistryKeepsLog, SettersKeepBooks
    <3>2. SetTx(n, l.tx).objects = n.objects
      BY <2>9 DEF SetTx, LedgerType
    <3> QED
      BY <2>1, <3>1, <3>2
  <2>11. /\ m.next = n.next /\ m.current = n.current /\ OpenIds(m) = OpenIds(n)
         /\ Seen(m) = Seen(n)
    BY <2>10, SameLogShows
  <2>12. OpenIds(k) = OpenIds(l) \cup {l.next}
    <3>1. /\ l.txs \in Seq(Transaction) /\ Len(l.txs) \in Nat
          /\ DOMAIN l.txs = 1..Len(l.txs)
      BY <1>1, TableType
    <3>2. /\ DOMAIN k.txs = 1..(Len(l.txs) + 1)
          /\ \A i \in 1..Len(l.txs) : k.txs[i] = l.txs[i]
          /\ k.txs[Len(l.txs) + 1] = t
      BY <2>4, <2>8, <3>1, AppendProperties
    <3> DEFINE last == Len(l.txs) + 1
    <3>3. DOMAIN k.txs = DOMAIN l.txs \cup {last}
      BY <3>1, <3>2
    <3>4. /\ \A i \in DOMAIN l.txs : k.txs[i] = l.txs[i]
          /\ k.txs[last] = t
      BY <3>1, <3>2
    <3> HIDE DEF last
    <3> QED
      BY <2>5, <3>3, <3>4 DEF OpenIds
  <2>13. ASSUME NEW other \in Names
         PROVE  Shown(m, other) = Shown(l, other)
    <3>1. m.objects = named.objects
      BY <2>8, <2>9, <2>10
    <3>2. other # name
      BY NamesApart
    <3>3. CASE named.objects = l.objects
      BY <3>1, <3>3 DEF Shown
    <3>4. CASE Adds(l, named, name, "open")
      <4>1. PICK last :
              /\ DOMAIN named.objects = DOMAIN l.objects \cup {last}
              /\ \A i \in DOMAIN l.objects : named.objects[i] = l.objects[i]
              /\ named.objects[last].name = name
        BY <3>4 DEF Adds
      <4> QED
        BY <3>1, <3>2, <4>1 DEF Shown
    <3> QED
      BY <2>3, <3>3, <3>4
  <2>14. BeginResult(l) = l.next
    BY <1>7 DEF BeginResult
  <2>15. m.next = l.next + 1 /\ m.current = l.current /\ OpenIds(m) = OpenIds(l) \cup {l.next}
    BY <2>8, <2>9, <2>11, <2>12
  <2>16. l.next =< m.next
    BY <1>1, <2>15
  <2>17. \A event \in Seen(m) \ Seen(l) :
           event.seq = l.next /\ event.tx = l.next /\ Tells(event, report)
    BY <2>7, <2>8, <2>9, <2>11
  <2> QED
    BY <1>5, <1>7, <2>10, <2>13, <2>14, <2>15, <2>16, <2>17 DEF report, Begins
<1> QED
  BY <1>6, <1>7

\* What closing a transaction records.
CloseReport(l, id, op, result) ==
  LET t == l.txs[TxIndex(l, id)]
  IN  Report(t.actor, TxName(id), op, result, t.end, "transaction")

\* Closing the open transaction of a caller: it alone is no longer open.
LEMMA CloseGoes ==
  ASSUME NEW l, Whole(l), NEW id \in OpenIds(l), NEW status \in {"committed", "aborted"},
         NEW op \in Operations, NEW result \in Results, NEW m,
         m = Close(l, TxIndex(l, id), status, op, result), m \in LedgerType
  PROVE  /\ m.tx = l.tx /\ m.current = l.current /\ m.next = l.next + 1
         /\ OpenIds(m) = OpenIds(l) \ {id}
         /\ \A name \in Names : Shown(m, name) = Shown(l, name)
         /\ \A event \in Seen(m) \ Seen(l) :
              /\ event.seq = l.next /\ event.tx = id
              /\ Tells(event, CloseReport(l, id, op, result))
<1> DEFINE index == TxIndex(l, id)
           t == l.txs[index]
           name == TxName(id)
           closing == Closing(l, index, status)
           report == CloseReport(l, id, op, result)
           n == Record(closing, report)
           direct == SetStateDirect(n, name, status, l.next)
<1>1. /\ l \in LedgerType /\ Books(l) /\ l.next \in Nat /\ l.tx \in Nat
      /\ id \in 1..MaxSeq /\ index \in DOMAIN l.txs /\ t.id = id /\ t.status = "open"
      /\ t \in Transaction /\ index \in 1..Len(l.txs)
      /\ name \in ObjectNames /\ status \in Statuses /\ status \in ObjectStates
  <2>1. l \in LedgerType /\ Books(l)
    BY Zenon DEF Whole
  <2>2. id \in 1..MaxSeq /\ index \in DOMAIN l.txs /\ t.id = id /\ t.status = "open"
    BY OpenIdsType
  <2>3. DOMAIN l.txs = 1..Len(l.txs) /\ \A k \in DOMAIN l.txs : l.txs[k] \in Transaction
    BY <2>1, TableType
  <2>4. t \in Transaction /\ index \in 1..Len(l.txs)
    BY <2>2, <2>3
  <2>5. l.next \in Nat /\ l.tx \in Nat
    BY <2>1 DEF LedgerType
  <2>6. name \in ObjectNames
    BY <2>2 DEF ObjectNames, TxNames
  <2>7. status \in Statuses /\ status \in ObjectStates
    BY DEF ObjectStates, Statuses
  <2> QED
    BY <2>1, <2>2, <2>4, <2>5, <2>6, <2>7
<1>2. m = SetTx(direct, l.tx)
  BY <1>1, Zenon DEF Close, direct, n, closing, Closing, report, CloseReport, name, t, index
<1>3. report \in ReportType
  BY <1>1, CloseReportType DEF CloseReport
<1>4. /\ closing \in LedgerType /\ closing.objects = l.objects
      /\ SameRing(l, closing) /\ closing.tx = id /\ closing.current = l.current
      /\ closing.txs = [l.txs EXCEPT ![index] = Closed(l, index, status)]
      /\ Closed(l, index, status).id = id
  BY <1>1, ClosingType
<1>5. Closed(l, index, status).status = status
  BY <1>1 DEF Closed, Transaction
<1> HIDE DEF report, closing, t, index
<1>6. closing.next = l.next /\ Seen(closing) = Seen(l)
  BY <1>4, RingDeterminesWindow DEF SameRing, Seen
<1>7. OpenIds(closing) = OpenIds(l) \ {id}
  <2>1. \A i \in DOMAIN l.txs : l.txs[i].id = id <=> i = index
    BY <1>1 DEF Books, Numbered, t
  <2>2. /\ DOMAIN closing.txs = DOMAIN l.txs
        /\ closing.txs[index] = Closed(l, index, status)
        /\ \A i \in DOMAIN l.txs : i # index => closing.txs[i] = l.txs[i]
    BY <1>1, <1>4
  <2>3. \A i \in DOMAIN l.txs :
          closing.txs[i].status = "open" <=> l.txs[i].status = "open" /\ l.txs[i].id # id
    BY <1>5, <2>1, <2>2
  <2>4. \A i \in DOMAIN l.txs : closing.txs[i].id = l.txs[i].id
    BY <1>1, <1>4, <2>1, <2>2
  <2> QED
    BY <2>2, <2>3, <2>4 DEF OpenIds
<1>8. /\ n \in LedgerType /\ n.next = closing.next + 1 /\ n.current = closing.current
      /\ n.objects = closing.objects /\ OpenIds(n) = OpenIds(closing)
      /\ \A event \in Seen(n) \ Seen(closing) :
           event.seq = closing.next /\ event.tx = closing.tx /\ Tells(event, report)
  BY <1>3, <1>4, RecordType, RecordFrame, RecordKeepsOpen, RecordSeen
<1> HIDE DEF n
<1>9. /\ direct \in LedgerType /\ SameLog(n, direct)
      /\ DOMAIN direct.objects = DOMAIN n.objects
      /\ \A i \in DOMAIN n.objects :
           /\ direct.objects[i].name = n.objects[i].name
           /\ n.objects[i].name # name => direct.objects[i] = n.objects[i]
  <2>1. direct \in LedgerType
    BY <1>1, <1>8, SetStateDirectType
  <2>2. SameLog(n, direct)
    BY <1>1, <1>8, RegistryKeepsLog
  <2>3. /\ DOMAIN direct.objects = DOMAIN n.objects
        /\ \A i \in DOMAIN n.objects :
             /\ direct.objects[i].name = n.objects[i].name
             /\ n.objects[i].name # name => direct.objects[i] = n.objects[i]
    BY <1>1, <1>8, SetStateDirectCases
  <2> QED
    BY <2>1, <2>2, <2>3
<1> HIDE DEF direct
<1>10. SameLog(direct, m) /\ m.tx = l.tx /\ m.objects = direct.objects
  <2>1. SameLog(direct, SetTx(direct, l.tx)) /\ SetTx(direct, l.tx).tx = l.tx
    BY <1>9, RegistryKeepsLog, SettersKeepBooks
  <2>2. SetTx(direct, l.tx).objects = direct.objects
    BY <1>9 DEF SetTx, LedgerType
  <2> QED
    BY <1>2, <2>1, <2>2
<1>11. /\ m.next = n.next /\ m.current = n.current /\ OpenIds(m) = OpenIds(n)
       /\ Seen(m) = Seen(n)
  BY <1>9, <1>10, SameLogShows
<1>12. ASSUME NEW other \in Names
       PROVE  Shown(m, other) = Shown(l, other)
  <2>1. other # name
    BY <1>1, NamesApart
  <2>2. n.objects = l.objects
    BY <1>4, <1>8
  <2> QED
    BY <1>9, <1>10, <2>1, <2>2 DEF Shown
<1>13. m.next = l.next + 1 /\ m.current = l.current /\ OpenIds(m) = OpenIds(l) \ {id}
  BY <1>4, <1>6, <1>7, <1>8, <1>11
<1>14. \A event \in Seen(m) \ Seen(l) :
         event.seq = l.next /\ event.tx = id /\ Tells(event, report)
  BY <1>4, <1>6, <1>8, <1>11
<1> QED
  BY <1>10, <1>12, <1>13, <1>14 DEF report

\* transaction_commit and transaction_abort of an open transaction, and of none.
Closes(l, m, id) ==
  /\ Whole(m) /\ m.tx = l.tx /\ m.current = l.current /\ m.next = l.next + 1
  /\ OpenIds(m) = OpenIds(l) \ {id}
  /\ \A name \in Names : Shown(m, name) = Shown(l, name)
  /\ \A event \in Seen(m) \ Seen(l) :
       /\ event.seq = l.next /\ event.tx = id
       /\ \/ Tells(event, CloseReport(l, id, "commit", "ok"))
          \/ Tells(event, CloseReport(l, id, "abort", "denied"))

LEMMA CommitGoes ==
  ASSUME NEW l, Whole(l), NEW id \in OpenIds(l)
  PROVE  Closes(l, Commit(l, id), id) /\ Closes(l, Abort(l, id), id)
<1> SUFFICES ASSUME NEW m, m = Commit(l, id) \/ m = Abort(l, id)
             PROVE  Closes(l, m, id)
  OBVIOUS
<1>1. /\ l \in LedgerType /\ Sound(l) /\ Books(l) /\ OrderedById(l) /\ Agreement(l)
      /\ id \in 1..MaxSeq /\ OpenIn(l, id)
      /\ TxIndex(l, id) \in 1..Len(l.txs) /\ TxIndex(l, id) # 0
      /\ l.txs[TxIndex(l, id)].id = id
  BY OpenIdsType, SettledByIds, TableType DEF Whole
<1>2. m \in LedgerType /\ Sound(m)
  BY <1>1, CloseActionsKept DEF Kept
<1>3. Books(m) /\ Agreement(m)
  BY <1>1, CloseActionsAccounted, CloseActionsAgree DEF Accounted
<1>4. /\ {"ok", "denied"} \subseteq Results /\ {"commit", "abort"} \subseteq Operations
      /\ {"committed", "aborted"} \subseteq Statuses
  BY OperationAssumption DEF Results, Statuses
<1>5. \/ m = Close(l, TxIndex(l, id), "committed", "commit", "ok")
      \/ m = Close(l, TxIndex(l, id), "aborted", "abort", "denied")
  BY <1>1 DEF Commit, Abort
<1>6. OrderedById(m)
  BY <1>1, <1>4, <1>5, CloseOrdered
<1>7. Whole(m)
  BY <1>2, <1>3, <1>6 DEF Whole
<1>8. CASE m = Close(l, TxIndex(l, id), "committed", "commit", "ok")
  BY <1>2, <1>4, <1>7, <1>8, CloseGoes DEF Closes
<1>9. CASE m = Close(l, TxIndex(l, id), "aborted", "abort", "denied")
  BY <1>2, <1>4, <1>7, <1>9, CloseGoes DEF Closes
<1> QED
  BY <1>5, <1>8, <1>9

LEMMA CommitOfNone ==
  ASSUME NEW l, Whole(l)
  PROVE  Commit(l, 0) = l /\ Abort(l, 0) = l
<1>1. l \in LedgerType /\ Books(l)
  BY DEF Whole
<1>2. TxIndex(l, 0) = 0
  BY <1>1, TxIndexMatches, TableType DEF Books, Numbered
<1> QED
  BY <1>2 DEF Commit, Abort

\* The zeroed ledger.
LEMMA EmptyLedgerFits ==
  Fit(EmptyLedger) /\ OpenIds(EmptyLedger) = {} /\ Seen(EmptyLedger) = {}
    /\ \A name : Shown(EmptyLedger, name) = {}
<1>1. Whole(EmptyLedger)
  BY EmptyLedgerIsSound, EmptyLedgerBooks, EmptyLedgerAgrees DEF Whole
<1>2. EmptyLedger.tx = 0
  BY DEF EmptyLedger
<1>3. OpenIds(EmptyLedger) = {} /\ Seen(EmptyLedger) = {}
  BY DEF EmptyLedger, OpenIds, Seen, Retained
<1>4. \A name : Shown(EmptyLedger, name) = {}
  BY DEF EmptyLedger, Shown
<1> QED
  BY <1>1, <1>2, <1>3, <1>4 DEF Fit, SettledIn

(***************************************************************************)
(* Objects registered in turn.                                             *)
(***************************************************************************)
\* One more of them, and the ledgers there are after each of the first n.
RegisterNext(l, parent, object, current) == Register(l, object[1], parent, object[2], current)
Runs(l, parent, objects, n, after) ==
  after = [i \in 0..n |->
             IF i = 0 THEN l ELSE RegisterNext(after[i - 1], parent, objects[i], l.current)]

\* There are such ledgers, however many objects.
LEMMA RunsExist ==
  ASSUME NEW l, NEW parent, NEW objects
  PROVE  \A n \in Nat : \E after : Runs(l, parent, objects, n, after)
<1> DEFINE T == {n \in Nat : ~ \E after : Runs(l, parent, objects, n, after)}
<1>1. SUFFICES ASSUME T # {}
               PROVE  FALSE
  OBVIOUS
<1> DEFINE n == Min(T)
<1>2. T \in SUBSET Nat
  OBVIOUS
<1>3. n \in T /\ \A k \in T : n =< k
  BY <1>1, <1>2, MinOfNaturals, Zenon
<1>4. n \in Nat /\ ~ \E after : Runs(l, parent, objects, n, after)
  BY <1>3
<1>5. \A k \in Nat : k < n => \E after : Runs(l, parent, objects, k, after)
  BY <1>3, <1>4
<1> HIDE DEF n, T
<1>6. CASE n = 0
  <2> DEFINE f == [i \in 0..n |-> l]
  <2>1. Runs(l, parent, objects, n, f)
    BY <1>6 DEF Runs
  <2> QED
    BY <1>4, <2>1
<1>7. CASE n # 0
  <2>1. n - 1 \in Nat /\ n - 1 < n
    BY <1>4, <1>7
  <2>2. PICK f : Runs(l, parent, objects, n - 1, f)
    BY <1>5, <2>1
  <2> DEFINE last == RegisterNext(f[n - 1], parent, objects[n], l.current)
             g == [i \in 0..n |-> IF i = n THEN last ELSE f[i]]
  <2> HIDE DEF last
  <2>3. \A i \in 0..(n - 1) :
          f[i] = IF i = 0 THEN l
                 ELSE RegisterNext(f[i - 1], parent, objects[i], l.current)
    BY <2>2 DEF Runs
  <2>4. \A i \in 0..(n - 1) : g[i] = f[i]
    BY <1>4
  <2>5. g[n] = last
    BY <1>4
  <2>6. \A i \in 0..n :
          g[i] = IF i = 0 THEN l
                 ELSE RegisterNext(g[i - 1], parent, objects[i], l.current)
    <3>1. g[n] = RegisterNext(g[n - 1], parent, objects[n], l.current)
      BY <2>1, <2>4, <2>5 DEF last
    <3>2. \A i \in 1..(n - 1) :
            g[i] = RegisterNext(g[i - 1], parent, objects[i], l.current)
      <4> TAKE i \in 1..(n - 1)
      <4>1. i \in 0..(n - 1) /\ i - 1 \in 0..(n - 1) /\ i # 0
        BY <2>1
      <4> QED
        BY <2>3, <2>4, <4>1
    <3>3. g[0] = l
      BY <2>1, <2>3, <2>4
    <3>4. \A i \in 0..n : i = 0 \/ i \in 1..(n - 1) \/ i = n
      BY <1>4
    <3> HIDE DEF g
    <3> QED
      BY <1>7, <3>1, <3>2, <3>3, <3>4
  <2>7. Runs(l, parent, objects, n, g)
    <3>1. g = [i \in 0..n |-> g[i]]
      BY <2>4, <2>5
    <3> HIDE DEF g
    <3> QED
      BY <2>6, <3>1 DEF Runs
  <2> QED
    BY <1>4, <2>7
<1> QED
  BY <1>6, <1>7

\* RegisterAll returns the last of them.
LEMMA RegisterAllRuns ==
  ASSUME NEW l, NEW parent, NEW objects, Len(objects) \in Nat
  PROVE  \E after : /\ RegisterAll(l, parent, objects) = after[Len(objects)]
                    /\ after[0] = l
                    /\ \A i \in 1..Len(objects) :
                         after[i] = RegisterNext(after[i - 1], parent, objects[i], l.current)
<1> DEFINE n == Len(objects)
           Is(f) == f = [i \in 0..n |->
                           IF i = 0 THEN l
                           ELSE Register(f[i - 1], objects[i][1], parent, objects[i][2],
                                         l.current)]
           g == CHOOSE f : Is(f)
<1>1. \E f : Is(f)
  <2>1. PICK f : Runs(l, parent, objects, n, f)
    BY RunsExist
  <2>2. Is(f)
    BY <2>1 DEF Runs, RegisterNext
  <2> QED
    BY <2>2
<1>2. Is(g)
  BY <1>1
<1>3. RegisterAll(l, parent, objects) = g[n]
  BY DEF RegisterAll
<1> HIDE DEF g
<1>4. g[0] = l
  BY <1>2
<1>5. \A i \in 1..n : g[i] = RegisterNext(g[i - 1], parent, objects[i], l.current)
  BY <1>2 DEF RegisterNext
<1> QED
  BY <1>3, <1>4, <1>5

\* object_register lengthens the registry by one object at most.
LEMMA RegisterLengthens ==
  ASSUME NEW l \in LedgerType, NEW name \in ObjectNames, NEW parent \in Nat,
         NEW state \in ObjectStates, NEW created \in Nat
  PROVE  Len(Register(l, name, parent, state, created).objects) =< Len(l.objects) + 1
<1> DEFINE object == [id |-> Len(l.objects) + 1, name |-> name, parent |-> parent,
                      rev |-> 1, state |-> state, created |-> created, last |-> created]
           m == Register(l, name, parent, state, created)
<1>1. l.objects \in Seq(Object) /\ Len(l.objects) \in Nat
  BY RegistryType
<1>2. object \in Object
  BY <1>1 DEF Object
<1> HIDE DEF object
<1>3. m.objects = l.objects \/ m.objects = Append(l.objects, object)
  BY DEF Register, LedgerType, object
<1>4. Len(Append(l.objects, object)) = Len(l.objects) + 1
  BY <1>1, <1>2, AppendProperties
<1> HIDE DEF m
<1> QED
  BY <1>1, <1>3, <1>4 DEF m

\* Names and states that callers may give, and what registering the first n does.
Objects(objects) ==
  /\ Len(objects) \in Nat
  /\ \A i \in 1..Len(objects) : objects[i][1] \in Names /\ objects[i][2] \in States
NamesTo(objects, n) == {objects[i][1] : i \in 1..n}
Placed(l, m, objects, n) ==
  /\ Goes(l, m, NamesTo(objects, n))
  /\ m.next = l.next /\ Seen(m) = Seen(l)
  /\ Len(m.objects) =< Len(l.objects) + n
  /\ \A name \in Names : Shown(l, name) # {} => Shown(m, name) = Shown(l, name)
  /\ \A name \in Names : \A new \in Shown(m, name) :
       \/ new \in Shown(l, name)
       \/ \E i \in 1..n : objects[i][1] = name /\ new.state = objects[i][2] /\ new.rev = 1
  /\ \A i \in 1..n : Len(l.objects) + n =< ObjCap => Shown(m, objects[i][1]) # {}

LEMMA PlaceNext ==
  ASSUME NEW l, Fit(l), NEW parent \in Nat, NEW objects, Objects(objects),
         NEW n \in 1..Len(objects), NEW k, Placed(l, k, objects, n - 1), NEW m,
         m = RegisterNext(k, parent, objects[n], l.current)
  PROVE  Placed(l, m, objects, n)
<1> DEFINE name == objects[n][1]
           state == objects[n][2]
<1>1. /\ Fit(k) /\ Goes(l, k, NamesTo(objects, n - 1)) /\ l.current \in Nat
      /\ name \in Names /\ state \in States
      /\ name \in ObjectNames /\ state \in ObjectStates
      /\ k \in LedgerType /\ l \in LedgerType
  BY DEF Placed, Goes, Fit, Whole, LedgerType, Objects, ObjectNames, ObjectStates
<1>2. m = Register(k, name, parent, state, l.current)
  BY DEF RegisterNext
<1> HIDE DEF name, state
<1>3. /\ Goes(k, m, {name})
      /\ m.next = k.next /\ Seen(m) = Seen(k)
      /\ Shown(k, name) # {} => m = k
      /\ Shown(k, name) = {} =>
           \/ Shown(m, name) = {} /\ Len(k.objects) >= ObjCap
           \/ \E new : Shown(m, name) = {new} /\ new.state = state /\ new.rev = 1
  <2>1. Registers(k, m, name, state)
    BY <1>1, <1>2, RegisterGoes
  <2> QED
    BY <2>1 DEF Registers
<1>4. Len(m.objects) =< Len(k.objects) + 1
  BY <1>1, <1>2, RegisterLengthens
<1>5. n \in Nat /\ n - 1 \in Nat /\ 1..n = 1..(n - 1) \cup {n}
  BY DEF Objects
<1>6. Len(l.objects) \in Nat /\ Len(k.objects) \in Nat /\ Len(m.objects) \in Nat
  BY <1>1, <1>3, RegistryType DEF Goes, Fit, Whole
<1>7. Len(k.objects) =< Len(l.objects) + (n - 1)
  BY DEF Placed
<1>8. Goes(l, m, NamesTo(objects, n))
  <2>1. NamesTo(objects, n) = NamesTo(objects, n - 1) \cup {name}
    BY <1>5 DEF NamesTo, name
  <2> QED
    BY <1>1, <1>3, <2>1, GoesOn
<1>9. m.next = l.next /\ Seen(m) = Seen(l)
  BY <1>3 DEF Placed
<1>10. Len(m.objects) =< Len(l.objects) + n
  BY <1>4, <1>5, <1>6, <1>7
<1>11. \A other \in Names : Shown(k, other) # {} => Shown(m, other) = Shown(k, other)
  BY <1>3 DEF Goes
<1>12. ASSUME NEW other \in Names, Shown(l, other) # {}
       PROVE  Shown(m, other) = Shown(l, other)
  BY <1>11, <1>12 DEF Placed
<1>13. ASSUME NEW other \in Names, NEW new \in Shown(m, other)
       PROVE  \/ new \in Shown(l, other)
              \/ \E i \in 1..n : /\ objects[i][1] = other
                                 /\ new.state = objects[i][2] /\ new.rev = 1
  <2>1. CASE new \in Shown(k, other)
    <3>1. \/ new \in Shown(l, other)
          \/ \E i \in 1..(n - 1) : /\ objects[i][1] = other
                                   /\ new.state = objects[i][2] /\ new.rev = 1
      BY <2>1 DEF Placed
    <3> QED
      BY <1>5, <3>1
  <2>2. CASE new \notin Shown(k, other)
    <3>1. other = name
      BY <1>13, <2>2, <1>3 DEF Goes
    <3>2. Shown(k, name) = {}
      BY <1>13, <2>2, <3>1, <1>3
    <3>3. new.state = state /\ new.rev = 1
      BY <1>3, <1>13, <3>1, <3>2
    <3> QED
      BY <1>5, <3>1, <3>3 DEF name, state
  <2> QED
    BY <2>1, <2>2
<1>14. ASSUME NEW i \in 1..n, Len(l.objects) + n =< ObjCap
       PROVE  Shown(m, objects[i][1]) # {}
  <2>1. CASE i = n
    <3>1. ~ (Len(k.objects) >= ObjCap)
      BY <1>5, <1>6, <1>7, <1>14, CapacityAssumption
    <3>2. Shown(m, name) # {}
      BY <1>3, <3>1
    <3> QED
      BY <2>1, <3>2 DEF name
  <2>2. CASE i # n
    <3>1. i \in 1..(n - 1)
      BY <1>5, <2>2
    <3>2. Len(l.objects) + (n - 1) =< ObjCap
      BY <1>5, <1>6, <1>14, CapacityAssumption
    <3>3. Shown(k, objects[i][1]) # {}
      BY <3>1, <3>2 DEF Placed
    <3>4. objects[i][1] \in Names
      BY <1>5, <3>1 DEF Objects
    <3> QED
      BY <1>11, <3>3, <3>4
  <2> QED
    BY <2>1, <2>2
<1> QED
  BY <1>8, <1>9, <1>10, <1>12, <1>13, <1>14 DEF Placed

LEMMA RegisterAllGoes ==
  ASSUME NEW l, Fit(l), NEW parent \in Nat, NEW objects, Objects(objects)
  PROVE  Placed(l, RegisterAll(l, parent, objects), objects, Len(objects))
<1>1. PICK after :
        /\ RegisterAll(l, parent, objects) = after[Len(objects)]
        /\ after[0] = l
        /\ \A i \in 1..Len(objects) :
             after[i] = RegisterNext(after[i - 1], parent, objects[i], l.current)
  BY RegisterAllRuns DEF Objects
<1>2. Len(objects) \in Nat /\ l \in LedgerType /\ l.next \in Nat /\ Len(l.objects) \in Nat
  BY RegistryType DEF Objects, Fit, Whole, LedgerType
<1>3. Placed(l, l, objects, 0)
  <2>1. l.next =< l.next /\ Len(l.objects) =< Len(l.objects) + 0 /\ 1..0 = {}
    BY <1>2
  <2>2. Goes(l, l, NamesTo(objects, 0))
    BY <2>1, SameTableStands DEF Goes
  <2> QED
    BY <2>1, <2>2 DEF Placed
<1> DEFINE T == {n \in 0..Len(objects) : ~ Placed(l, after[n], objects, n)}
<1>4. T = {}
  <2>1. SUFFICES ASSUME T # {}
                 PROVE  FALSE
    OBVIOUS
  <2>2. T \in SUBSET Nat
    BY <1>2
  <2>3. PICK n : n \in T /\ \A k \in T : n =< k
    BY <2>1, <2>2, MinOfNaturals
  <2>4. n \in 0..Len(objects) /\ ~ Placed(l, after[n], objects, n)
    BY <2>3
  <2>5. n # 0
    BY <1>1, <1>3, <2>4
  <2>6. n \in 1..Len(objects) /\ n - 1 \in 0..Len(objects) /\ ~ (n =< n - 1)
    BY <1>2, <2>4, <2>5
  <2>7. Placed(l, after[n - 1], objects, n - 1)
    BY <2>3, <2>6
  <2>8. after[n] = RegisterNext(after[n - 1], parent, objects[n], l.current)
    BY <1>1, <2>6
  <2> QED
    BY <2>4, <2>6, <2>7, <2>8, PlaceNext
<1>5. Len(objects) \in 0..Len(objects)
  BY <1>2
<1> QED
  BY <1>1, <1>4, <1>5

(***************************************************************************)
(* Revisions, and the events that journal them.                            *)
(***************************************************************************)
\* The events that journal a change of that object, and calls that record one for
\* every revision they add to it: those with these numbers.
Journals(event, name) == event.op = "state_update" /\ event.target = name
Counts(l, m, name, updates) ==
  /\ updates \in SUBSET (l.next..(m.next - 1))
  /\ Revision(m, name) = Revision(l, name) + Cardinality(updates)
  /\ \A event \in Seen(m) \ Seen(l) : Journals(event, name) <=> event.seq \in updates
Spans(l, m, name) == \E updates : Counts(l, m, name, updates)

\* Calls that change no object and journal no change.
Quiet(l, m) ==
  /\ m.objects = l.objects
  /\ \A event \in Seen(m) \ Seen(l) : event.op # "state_update"

\* Calls record events with the numbers in between.
Later(l, m) ==
  /\ l.next \in Nat /\ m.next \in Nat /\ l.next =< m.next
  /\ \A event \in Seen(m) \ Seen(l) : event.seq \in l.next..(m.next - 1)

\* Numbers in a range are finitely many.
LEMMA NumbersAreFinite ==
  ASSUME NEW a \in Nat, NEW b \in Nat, NEW updates \in SUBSET (a..(b - 1))
  PROVE  IsFiniteSet(updates) /\ Cardinality(updates) \in Nat
<1>1. IsFiniteSet(a..(b - 1))
  BY FS_Interval
<1> QED
  BY <1>1, FS_Subset, FS_CardinalityType

\* Revisions are found in the registry.
LEMMA RevisionIsFound ==
  ASSUME NEW l \in LedgerType, NEW m, m.objects = l.objects, NEW name
  PROVE  Revision(m, name) = Revision(l, name) /\ Revision(l, name) \in Nat
<1>1. ObjectIndex(m, name) = ObjectIndex(l, name)
  BY DEF ObjectIndex
<1>2. Revision(l, name) \in Nat
  BY RevisionType DEF LedgerType
<1> QED
  BY <1>1, <1>2 DEF Revision, Known

LEMMA RevisionIsShown ==
  ASSUME NEW l, Whole(l), NEW name \in Names
  PROVE  /\ Shown(l, name) = {} => Revision(l, name) = 0
         /\ \A object \in Shown(l, name) :
              Revision(l, name) = object.rev /\ Shown(l, name) = {object}
<1>1. name \in ObjectNames
  BY DEF ObjectNames
<1>2. l \in LedgerType /\ Agreement(l)
  BY DEF Whole
<1>3. CASE Known(l, name)
  <2>1. /\ Shown(l, name) = {l.objects[ObjectIndex(l, name)]}
        /\ Revision(l, name) = l.objects[ObjectIndex(l, name)].rev
    BY <1>1, <1>2, <1>3, ShownIsFound DEF Revision
  <2> QED
    BY <2>1
<1>4. CASE ~ Known(l, name)
  <2>1. Shown(l, name) = {} /\ Revision(l, name) = 0
    BY <1>1, <1>2, <1>4, ShownIsFound DEF Revision
  <2> QED
    BY <2>1
<1> QED
  BY <1>3, <1>4

\* The same objects of that name, the same revision.
LEMMA ShownDeterminesRevision ==
  ASSUME NEW l, Whole(l), NEW m, Whole(m), NEW name \in Names, Shown(m, name) = Shown(l, name)
  PROVE  Revision(m, name) = Revision(l, name)
<1>1. CASE Shown(l, name) = {}
  BY <1>1, RevisionIsShown
<1>2. CASE Shown(l, name) # {}
  <2>1. PICK object \in Shown(l, name) : TRUE
    BY <1>2
  <2> QED
    BY <2>1, RevisionIsShown
<1> QED
  BY <1>1, <1>2

\* No revision more, and none journaled.
LEMMA SpansNone ==
  ASSUME NEW l \in LedgerType, NEW m, NEW name, Revision(m, name) = Revision(l, name),
         \A event \in Seen(m) \ Seen(l) : ~ Journals(event, name)
  PROVE  Spans(l, m, name)
<1>1. Cardinality({}) = 0
  BY FS_EmptySet
<1>2. Revision(l, name) \in Nat
  BY RevisionType DEF LedgerType
<1>3. Counts(l, m, name, {})
  BY <1>1, <1>2 DEF Counts
<1> QED
  BY <1>3 DEF Spans

LEMMA QuietSpans ==
  ASSUME NEW l \in LedgerType, NEW m, Quiet(l, m), NEW name
  PROVE  Spans(l, m, name)
<1>1. Revision(m, name) = Revision(l, name)
  BY RevisionIsFound DEF Quiet
<1> QED
  BY <1>1, SpansNone DEF Quiet, Journals

\* One revision more, and one event that journals it.
LEMMA SpansOne ==
  ASSUME NEW l \in LedgerType, NEW m, NEW name, Revision(m, name) = Revision(l, name) + 1,
         m.next = l.next + 1,
         \A event \in Seen(m) \ Seen(l) : event.seq = l.next /\ Journals(event, name)
  PROVE  Spans(l, m, name)
<1>1. Cardinality({l.next}) = 1
  BY FS_Singleton
<1>2. l.next \in Nat
  BY DEF LedgerType
<1>3. {l.next} \in SUBSET (l.next..(m.next - 1))
  BY <1>2
<1>4. Counts(l, m, name, {l.next})
  BY <1>1, <1>3 DEF Counts
<1> QED
  BY <1>4 DEF Spans

\* Such calls one after the other.
LEMMA SpansOn ==
  ASSUME NEW l \in LedgerType, NEW k \in LedgerType, NEW m, NEW name,
         Later(l, k), Later(k, m), Spans(l, k, name), Spans(k, m, name)
  PROVE  Spans(l, m, name)
<1>1. PICK first : Counts(l, k, name, first)
  BY DEF Spans
<1>2. PICK second : Counts(k, m, name, second)
  BY DEF Spans
<1>3. /\ l.next \in Nat /\ k.next \in Nat /\ m.next \in Nat
      /\ l.next =< k.next /\ k.next =< m.next
  BY DEF Later
<1>4. /\ first \in SUBSET (l.next..(k.next - 1)) /\ second \in SUBSET (k.next..(m.next - 1))
      /\ Revision(k, name) = Revision(l, name) + Cardinality(first)
      /\ Revision(m, name) = Revision(k, name) + Cardinality(second)
      /\ \A event \in Seen(k) \ Seen(l) : Journals(event, name) <=> event.seq \in first
      /\ \A event \in Seen(m) \ Seen(k) : Journals(event, name) <=> event.seq \in second
  BY <1>1, <1>2 DEF Counts
<1>5. /\ IsFiniteSet(first) /\ IsFiniteSet(second)
      /\ Cardinality(first) \in Nat /\ Cardinality(second) \in Nat
  BY <1>3, <1>4, NumbersAreFinite
<1>6. first \cap second = {}
  BY <1>3, <1>4
<1>7. Cardinality(first \cup second) = Cardinality(first) + Cardinality(second)
  <2>1. Cardinality(first \cup second)
          = Cardinality(first) + Cardinality(second) - Cardinality(first \cap second)
    BY <1>5, FS_Union
  <2>2. Cardinality(first \cap second) = 0
    BY <1>6, FS_EmptySet
  <2> QED
    BY <1>5, <2>1, <2>2
<1>8. first \cup second \in SUBSET (l.next..(m.next - 1))
  BY <1>3, <1>4
<1>9. Revision(m, name) = Revision(l, name) + Cardinality(first \cup second)
  <2>1. Revision(l, name) \in Nat
    BY RevisionType DEF LedgerType
  <2> QED
    BY <1>4, <1>5, <1>7, <2>1
<1>10. ASSUME NEW event \in Seen(m) \ Seen(l)
       PROVE  Journals(event, name) <=> event.seq \in first \cup second
  <2>1. CASE event \in Seen(k)
    <3>1. event.seq \in l.next..(k.next - 1)
      BY <1>10, <2>1 DEF Later
    <3>2. event.seq \notin second
      BY <1>3, <1>4, <3>1
    <3> QED
      BY <1>4, <1>10, <2>1, <3>2
  <2>2. CASE event \notin Seen(k)
    <3>1. event.seq \in k.next..(m.next - 1)
      BY <1>10, <2>2 DEF Later
    <3>2. event.seq \notin first
      BY <1>3, <1>4, <3>1
    <3> QED
      BY <1>4, <1>10, <2>2, <3>2
  <2> QED
    BY <2>1, <2>2
<1>11. Counts(l, m, name, first \cup second)
  BY <1>8, <1>9, <1>10 DEF Counts
<1> QED
  BY <1>11 DEF Spans

\* What the calls journal.
LEMMA RecordIsQuiet ==
  ASSUME NEW l, NEW m, NEW report, Records(l, m, report), report.op # "state_update"
  PROVE  Quiet(l, m)
BY DEF Records, Tells, Quiet

LEMMA SetsIsQuiet ==
  ASSUME NEW l, NEW m, NEW current, NEW tx, Sets(l, m, current, tx)
  PROVE  Quiet(l, m)
BY DEF Sets, Quiet

LEMMA QuietOn ==
  ASSUME NEW l, NEW k, NEW m, Quiet(l, k), Quiet(k, m)
  PROVE  Quiet(l, m)
BY DEF Quiet

LEMMA GoesIsLater ==
  ASSUME NEW l, Whole(l), NEW m, NEW changed, Goes(l, m, changed)
  PROVE  Later(l, m)
BY DEF Goes, Later, Whole, Fit, LedgerType

LEMMA UpdateSpans ==
  ASSUME NEW l, Whole(l), NEW m, NEW name \in Names, NEW state, Updates(l, m, name, state),
         NEW other \in Names
  PROVE  Spans(l, m, other)
<1>1. l \in LedgerType /\ Whole(m) /\ Goes(l, m, {name}) /\ l.next \in Nat
  BY DEF Updates, Goes, Fit, Whole, LedgerType
<1>2. \A event \in Seen(m) \ Seen(l) :
        event.op = "state_update" /\ event.target = name /\ event.seq \in l.next..(m.next - 1)
  BY DEF Updates, Goes, Tells, Report
<1>3. CASE other # name
  <2>1. Revision(m, other) = Revision(l, other)
    BY <1>1, <1>3, ShownDeterminesRevision DEF Goes
  <2> QED
    BY <1>1, <1>2, <1>3, <2>1, SpansNone DEF Journals
<1>4. CASE other = name /\ Shown(l, name) = {}
  <2>1. m = l
    BY <1>4 DEF Updates
  <2> QED
    BY <1>1, <2>1, SpansNone
<1>5. CASE other = name /\ Shown(l, name) # {}
  <2>1. PICK old \in Shown(l, name) : TRUE
    BY <1>5
  <2>2. PICK new : Shown(m, name) = {new} /\ new.rev = old.rev + 1 /\ m.next = l.next + 1
    BY DEF Updates
  <2>3. Revision(m, name) = Revision(l, name) + 1
    BY <1>1, <2>2, RevisionIsShown
  <2>4. \A event \in Seen(m) \ Seen(l) : event.seq = l.next
    BY <1>1, <1>2, <2>2
  <2> QED
    BY <1>1, <1>2, <1>5, <2>2, <2>3, <2>4, SpansOne DEF Journals
<1> QED
  BY <1>3, <1>4, <1>5

LEMMA RegisterSpans ==
  ASSUME NEW l, Whole(l), NEW m, NEW name \in Names, NEW state, Registers(l, m, name, state),
         NEW other \in Names, other # name \/ Shown(l, other) # {}
  PROVE  Spans(l, m, other)
<1>1. l \in LedgerType /\ Whole(m) /\ Goes(l, m, {name}) /\ Seen(m) = Seen(l)
  BY DEF Registers, Goes, Fit, Whole
<1>2. Shown(m, other) = Shown(l, other)
  BY <1>1 DEF Registers, Goes
<1>3. Revision(m, other) = Revision(l, other)
  BY <1>1, <1>2, ShownDeterminesRevision
<1> QED
  BY <1>1, <1>3, SpansNone

LEMMA PlacedSpans ==
  ASSUME NEW l, Whole(l), NEW m, NEW objects, NEW n, Placed(l, m, objects, n),
         NEW name \in Names, Shown(l, name) # {}
  PROVE  Spans(l, m, name)
<1>1. l \in LedgerType /\ Whole(m) /\ Seen(m) = Seen(l) /\ Shown(m, name) = Shown(l, name)
  BY DEF Placed, Goes, Fit, Whole
<1>2. Revision(m, name) = Revision(l, name)
  BY <1>1, ShownDeterminesRevision
<1> QED
  BY <1>1, <1>2, SpansNone

\* The transaction transaction_begin adds to the table.
Opens(m, t, id, target) ==
  /\ t.id = id /\ t.begin = id /\ t.target = target /\ t.status = "open"
  /\ t.started = Revision(m, target)
Enters(l, m, id, target) ==
  \A k \in DOMAIN m.txs : \/ k \in DOMAIN l.txs /\ Stands(l.txs[k], m.txs[k])
                          \/ Opens(m, m.txs[k], id, target)

LEMMA BeginEnters ==
  ASSUME NEW l, Whole(l), l.next \in 1..MaxSeq, NEW actor \in Labels,
         NEW target \in Labels, NEW parent \in 0..(l.next - 1), BeginResult(l) # 0
  PROVE  Enters(l, Begin(l, actor, target, parent), l.next, target)
<1> SUFFICES ASSUME NEW m, m = Begin(l, actor, target, parent)
             PROVE  Enters(l, m, l.next, target)
  OBVIOUS
<1> DEFINE name == TxName(l.next)
           named == Register(l, name, ObjectId(l, "events"), "open", parent)
           t == Opening(l, named, actor, target, parent)
           opened == Opened(l, named, actor, target, parent)
           report == BeginReport(l, actor, parent)
           k == SetTx(opened, l.next)
           n == Record(k, report)
<1>1. /\ l \in LedgerType /\ l.next \in Nat /\ parent \in Nat /\ l.tx \in Nat
      /\ name \in ObjectNames /\ "open" \in ObjectStates /\ ObjectId(l, "events") \in Nat
  BY ObjectIdType DEF Whole, LedgerType, ObjectNames, TxNames, ObjectStates, Statuses
<1>2. m = SetTx(n, l.tx)
  BY Zenon DEF Begin, n, k, opened, Opened, Opening, named, name, report, BeginReport
<1>3. named \in LedgerType /\ named.txs = l.txs
  BY <1>1, RegisterType, RegistryKeepsLog DEF SameLog, SameRing
<1>4. /\ t.id = l.next /\ t.begin = l.next /\ t.target = target /\ t.status = "open"
      /\ t.started = Revision(named, target)
  BY DEF Opening
<1> HIDE DEF named
<1>5. /\ t \in Transaction /\ opened \in LedgerType /\ SameRing(named, opened)
      /\ opened.objects = named.objects /\ opened.txs = Append(named.txs, t)
  <2>1. l \in LedgerType /\ named \in LedgerType /\ parent \in Nat
    BY <1>1, <1>3
  <2> QED
    BY <2>1, OpeningType
<1> HIDE DEF opened, t
<1>6. /\ k \in LedgerType /\ k.txs = opened.txs /\ k.objects = opened.objects
  BY <1>1, <1>5, SetTxType DEF SetTx, LedgerType
<1> HIDE DEF k, report
<1>7. n.objects = k.objects /\ TableStands(k, n)
  BY <1>6, RecordFrame, RecordKeepsOpen
<1> HIDE DEF n
<1>8. m.txs = n.txs /\ m.objects = n.objects
  BY <1>2 DEF SetTx
<1>9. Revision(m, target) = t.started
  BY <1>3, <1>4, <1>5, <1>6, <1>7, <1>8, RevisionIsFound
<1>10. /\ DOMAIN k.txs = DOMAIN l.txs \cup {Len(l.txs) + 1}
       /\ \A i \in DOMAIN l.txs : k.txs[i] = l.txs[i]
       /\ k.txs[Len(l.txs) + 1] = t
  <2>1. /\ l.txs \in Seq(Transaction) /\ Len(l.txs) \in Nat
        /\ DOMAIN l.txs = 1..Len(l.txs)
    BY <1>1, TableType
  <2>2. /\ DOMAIN k.txs = 1..(Len(l.txs) + 1)
        /\ \A i \in 1..Len(l.txs) : k.txs[i] = l.txs[i]
        /\ k.txs[Len(l.txs) + 1] = t
    BY <1>3, <1>5, <1>6, <2>1, AppendProperties
  <2> QED
    BY <2>1, <2>2
<1>11. ASSUME NEW i \in DOMAIN m.txs
       PROVE  \/ i \in DOMAIN l.txs /\ Stands(l.txs[i], m.txs[i])
              \/ Opens(m, m.txs[i], l.next, target)
  <2>1. i \in DOMAIN k.txs /\ Stands(k.txs[i], m.txs[i])
    BY <1>7, <1>8, <1>11 DEF TableStands
  <2>2. CASE i \in DOMAIN l.txs
    BY <1>10, <2>1, <2>2
  <2>3. CASE i \notin DOMAIN l.txs
    <3>1. k.txs[i] = t
      BY <1>10, <2>1, <2>3
    <3> QED
      BY <1>4, <1>9, <2>1, <3>1 DEF Stands, Opens
  <2> QED
    BY <2>2, <2>3
<1> QED
  BY <1>11 DEF Enters

\* What transaction_commit and transaction_abort leave of the one they close.
Settles(l, t, u, status) ==
  /\ u.id = t.id /\ u.begin = t.begin /\ u.started = t.started /\ u.target = t.target
  /\ u.status = status /\ u.committed = Revision(l, t.target)
Concludes(l, m, id, status) ==
  /\ DOMAIN m.txs = DOMAIN l.txs
  /\ \A k \in DOMAIN l.txs : IF l.txs[k].id = id THEN Settles(l, l.txs[k], m.txs[k], status)
                             ELSE Stands(l.txs[k], m.txs[k])

LEMMA CloseSettles ==
  ASSUME NEW l, Whole(l), NEW id \in OpenIds(l), NEW status \in {"committed", "aborted"},
         NEW op, NEW result
  PROVE  Concludes(l, Close(l, TxIndex(l, id), status, op, result), id, status)
<1> SUFFICES ASSUME NEW m, m = Close(l, TxIndex(l, id), status, op, result)
             PROVE  Concludes(l, m, id, status)
  OBVIOUS
<1> DEFINE index == TxIndex(l, id)
           t == l.txs[index]
           closing == Closing(l, index, status)
           report == CloseReport(l, id, op, result)
           n == Record(closing, report)
           direct == SetStateDirect(n, TxName(id), status, l.next)
<1>1. /\ l \in LedgerType /\ Books(l) /\ index \in DOMAIN l.txs /\ t.id = id
      /\ index \in 1..Len(l.txs) /\ status \in Statuses /\ t \in Transaction
  BY OpenIdsType, TableType DEF Whole, Statuses
<1>2. m = SetTx(direct, l.tx)
  BY <1>1, Zenon DEF Close, direct, n, closing, Closing, report, CloseReport, t, index
<1>3. /\ closing \in LedgerType
      /\ closing.txs = [l.txs EXCEPT ![index] = Closed(l, index, status)]
  BY <1>1, ClosingType
<1>4. Settles(l, t, Closed(l, index, status), status)
  BY <1>1 DEF Closed, Settles, Transaction
<1> HIDE DEF report, closing, index
<1>5. TableStands(closing, n)
  BY <1>3, RecordKeepsOpen
<1> HIDE DEF n
<1>6. m.txs = n.txs
  <2>1. direct.txs = n.txs
    BY DEF SetStateDirect, SetState, SetLast
  <2> QED
    BY <1>2, <2>1 DEF SetTx
<1>7. /\ DOMAIN closing.txs = DOMAIN l.txs /\ closing.txs[index] = Closed(l, index, status)
      /\ \A k \in DOMAIN l.txs : k # index => closing.txs[k] = l.txs[k]
  BY <1>1, <1>3
<1>8. \A k \in DOMAIN l.txs : l.txs[k].id = id <=> k = index
  BY <1>1 DEF Books, Numbered
<1>9. /\ DOMAIN m.txs = DOMAIN l.txs
      /\ \A k \in DOMAIN l.txs : Stands(closing.txs[k], m.txs[k])
  BY <1>5, <1>6, <1>7 DEF TableStands
<1>10. ASSUME NEW k \in DOMAIN l.txs
       PROVE  IF l.txs[k].id = id THEN Settles(l, l.txs[k], m.txs[k], status)
              ELSE Stands(l.txs[k], m.txs[k])
  <2>1. CASE k = index
    BY <1>4, <1>7, <1>8, <1>9, <2>1 DEF Settles, Stands
  <2>2. CASE k # index
    BY <1>7, <1>8, <1>9, <2>2
  <2> QED
    BY <2>1, <2>2
<1> QED
  BY <1>9, <1>10 DEF Concludes

LEMMA CommitSettles ==
  ASSUME NEW l, Whole(l), NEW id \in OpenIds(l)
  PROVE  Concludes(l, Commit(l, id), id, "committed") /\ Concludes(l, Abort(l, id), id, "aborted")
<1>1. TxIndex(l, id) # 0
  BY OpenIdsType, TableType DEF Whole
<1> QED
  BY <1>1, CloseSettles DEF Commit, Abort

(***************************************************************************)
(* What a closed transaction says it changed.                              *)
(***************************************************************************)
\* The events that journal a change of a transaction's target under it, and the
\* revisions up to that one they journal: these are their numbers.
JournalsFor(event, t) == event.tx = t.id /\ Journals(event, t.target)
Tallied(l, t, revision) ==
  \E updates \in SUBSET ((t.begin + 1)..(l.next - 1)) :
    /\ revision = t.started + Cardinality(updates)
    /\ \A event \in Seen(l) : JournalsFor(event, t) <=> event.seq \in updates

\* One that is closed has claimed what it journaled, and nothing if it aborted.
Tallies(l, t) ==
  /\ t.status = "aborted" => t.committed = t.started
  /\ t.status = "committed" => Tallied(l, t, t.committed)
AllTally(l) == \A k \in DOMAIN l.txs : Tallies(l, l.txs[k])

\* The one that is open has changed nothing yet; it has journaled every change, and
\* made none if it is to abort.
Unrevised(l, tx, target) ==
  \A k \in DOMAIN l.txs : l.txs[k].id = tx =>
    /\ l.txs[k].target = target /\ l.txs[k].started = Revision(l, target)
    /\ \A event \in Seen(l) : ~ JournalsFor(event, l.txs[k])
Ripe(l, tx, ok) ==
  \A k \in DOMAIN l.txs : l.txs[k].id = tx =>
    /\ Tallied(l, l.txs[k], Revision(l, l.txs[k].target))
    /\ ok \/ Revision(l, l.txs[k].target) = l.txs[k].started

\* Calls that journal nothing for a transaction leave what it claims.
LEMMA TalliedStays ==
  ASSUME NEW l, NEW m, Later(l, m), NEW t, NEW u, Stands(t, u), t.begin \in Nat,
         \A event \in Seen(m) \ Seen(l) : ~ JournalsFor(event, t),
         NEW revision, Tallied(l, t, revision)
  PROVE  Tallied(m, u, revision)
<1>1. /\ u.id = t.id /\ u.begin = t.begin /\ u.started = t.started /\ u.target = t.target
      /\ l.next \in Nat /\ m.next \in Nat /\ l.next =< m.next
      /\ \A event \in Seen(m) \ Seen(l) : event.seq \in l.next..(m.next - 1)
  BY DEF Stands, Later
<1>2. PICK updates \in SUBSET ((t.begin + 1)..(l.next - 1)) :
        /\ revision = t.started + Cardinality(updates)
        /\ \A event \in Seen(l) : JournalsFor(event, t) <=> event.seq \in updates
  BY DEF Tallied
<1>3. updates \in SUBSET ((u.begin + 1)..(m.next - 1))
  BY <1>1
<1>4. ASSUME NEW event \in Seen(m)
      PROVE  JournalsFor(event, u) <=> event.seq \in updates
  <2>1. JournalsFor(event, u) <=> JournalsFor(event, t)
    BY <1>1 DEF JournalsFor
  <2>2. CASE event \in Seen(l)
    BY <1>2, <2>1, <2>2
  <2>3. CASE event \notin Seen(l)
    <3>1. event.seq \in l.next..(m.next - 1)
      BY <1>1, <2>3
    <3>2. event.seq \notin updates
      BY <1>1, <3>1
    <3> QED
      BY <2>1, <2>3, <3>2
  <2> QED
    BY <2>2, <2>3
<1> QED
  BY <1>1, <1>2, <1>3, <1>4 DEF Tallied

LEMMA TalliesStay ==
  ASSUME NEW l, NEW m, Later(l, m), NEW t, NEW u, Stands(t, u), t.begin \in Nat,
         t.status # "open" => \A event \in Seen(m) \ Seen(l) : ~ JournalsFor(event, t),
         Tallies(l, t)
  PROVE  Tallies(m, u)
<1>1. u.status = t.status /\ u.committed = t.committed /\ u.started = t.started
  BY DEF Stands
<1>2. ASSUME t.status = "committed"
      PROVE  Tallied(m, u, u.committed)
  BY <1>1, <1>2, TalliedStays DEF Tallies
<1> QED
  BY <1>1, <1>2 DEF Tallies

\* An id that is open is not one of a closed transaction.
LEMMA OpenIsOpen ==
  ASSUME NEW l, Whole(l), NEW k \in DOMAIN l.txs
  PROVE  /\ l.txs[k].id # 0 /\ l.txs[k].id \in Nat /\ l.txs[k].begin = l.txs[k].id
         /\ l.txs[k].begin \in Nat /\ l.txs[k].id < l.next
         /\ l.txs[k].id \in OpenIds(l) <=> l.txs[k].status = "open"
<1>1. l \in LedgerType /\ Numbered(l)
  BY DEF Whole, Books
<1>2. l.txs[k].id \in Nat /\ l.txs[k].begin \in Nat
  BY <1>1, TableType
<1> QED
  BY <1>1, <1>2 DEF Numbered, OpenIds

\* Once what begins a transaction follows, the table is the one it had.
LEMMA EntersOn ==
  ASSUME NEW l, NEW k, NEW n, NEW m, NEW id, NEW target, n \in LedgerType,
         TableStands(l, k), Enters(k, n, id, target), m.txs = n.txs, m.objects = n.objects
  PROVE  Enters(l, m, id, target)
<1>1. Revision(m, target) = Revision(n, target)
  BY RevisionIsFound
<1>2. ASSUME NEW i \in DOMAIN m.txs
      PROVE  \/ i \in DOMAIN l.txs /\ Stands(l.txs[i], m.txs[i])
             \/ Opens(m, m.txs[i], id, target)
  <2>1. CASE i \in DOMAIN k.txs /\ Stands(k.txs[i], n.txs[i])
    <3>1. i \in DOMAIN l.txs /\ Stands(l.txs[i], k.txs[i])
      BY <2>1 DEF TableStands
    <3> QED
      BY <2>1, <3>1 DEF Stands
  <2>2. CASE Opens(n, n.txs[i], id, target)
    BY <1>1, <2>2 DEF Opens
  <2> QED
    BY <2>1, <2>2 DEF Enters
<1> QED
  BY <1>2 DEF Enters

\* A transaction is begun.
LEMMA TallyEnters ==
  ASSUME NEW l, Whole(l), NEW m, Whole(m), Later(l, m), OpenIds(l) = {}, AllTally(l),
         NEW tx, NEW target, Enters(l, m, tx, target), OpenIds(m) = {tx} \ {0},
         tx = 0 \/ l.next =< tx,
         \A event \in Seen(m) \ Seen(l) : event.op # "state_update"
  PROVE  AllTally(m) /\ Unrevised(m, tx, target)
<1>1. l.next \in Nat /\ \A event \in Seen(m) \ Seen(l) : \A t : ~ JournalsFor(event, t)
  BY DEF Later, JournalsFor, Journals
<1>2. ASSUME NEW k \in DOMAIN m.txs
      PROVE  Tallies(m, m.txs[k])
  <2>1. CASE k \in DOMAIN l.txs /\ Stands(l.txs[k], m.txs[k])
    <3>1. l.txs[k].begin \in Nat /\ Tallies(l, l.txs[k])
      BY <2>1, OpenIsOpen DEF AllTally
    <3> QED
      BY <1>1, <2>1, <3>1, TalliesStay
  <2>2. CASE Opens(m, m.txs[k], tx, target)
    BY <2>2 DEF Opens, Tallies
  <2> QED
    BY <2>1, <2>2 DEF Enters
<1>3. ASSUME NEW k \in DOMAIN m.txs, m.txs[k].id = tx
      PROVE  /\ m.txs[k].target = target /\ m.txs[k].started = Revision(m, target)
             /\ \A event \in Seen(m) : ~ JournalsFor(event, m.txs[k])
  <2>1. tx # 0 /\ tx \in Nat /\ l.next =< tx
    BY <1>3, OpenIsOpen
  <2>2. m.txs[k].status = "open"
    BY <1>3, <2>1, OpenIsOpen
  <2>3. ~ (k \in DOMAIN l.txs /\ Stands(l.txs[k], m.txs[k]))
    BY <2>2 DEF Stands, OpenIds
  <2>4. Opens(m, m.txs[k], tx, target)
    BY <2>3 DEF Enters
  <2>5. ASSUME NEW event \in Seen(m)
        PROVE  ~ JournalsFor(event, m.txs[k])
    <3>1. CASE event \in Seen(l)
      <4>1. event.seq \in Nat /\ event.seq < l.next
        <5>1. l \in LedgerType /\ Consecutive(l)
          BY DEF Whole, Sound
        <5> QED
          BY <3>1, <5>1, RetainedIsPast DEF Seen
      <4>2. ASSUME event.tx = tx
            PROVE  FALSE
        <5>1. PICK j \in DOMAIN m.txs : /\ m.txs[j].id = tx
                                        /\ event.seq \in m.txs[j].begin..m.txs[j].end
          BY <2>1, <4>2 DEF Whole, Books, Enveloped, Seen
        <5>2. m.txs[j].begin = tx /\ m.txs[j].begin \in Nat
          BY <5>1, OpenIsOpen
        <5> QED
          BY <1>1, <2>1, <4>1, <5>1, <5>2
      <4> QED
        BY <1>3, <4>2 DEF JournalsFor
    <3>2. CASE event \notin Seen(l)
      BY <1>1, <3>2
    <3> QED
      BY <3>1, <3>2
  <2> QED
    BY <2>4, <2>5 DEF Opens
<1> QED
  BY <1>2, <1>3 DEF AllTally, Unrevised

\* What is called under it changes its target, and journals that.
LEMMA TallyRuns ==
  ASSUME NEW l, Whole(l), NEW m, Whole(m), Later(l, m), TableStands(l, m), AllTally(l),
         NEW tx, NEW target, Unrevised(l, tx, target), OpenIds(l) = {tx} \ {0},
         \A event \in Seen(m) \ Seen(l) : event.tx = tx, Spans(l, m, target),
         NEW ok, tx # 0 => ok \/ Revision(m, target) = Revision(l, target)
  PROVE  AllTally(m) /\ Ripe(m, tx, ok)
<1>1. ASSUME NEW k \in DOMAIN m.txs
      PROVE  Tallies(m, m.txs[k])
  <2>1. k \in DOMAIN l.txs /\ Stands(l.txs[k], m.txs[k]) /\ Tallies(l, l.txs[k])
    BY DEF TableStands, AllTally
  <2>2. /\ l.txs[k].begin \in Nat /\ l.txs[k].id # 0
        /\ l.txs[k].id \in OpenIds(l) <=> l.txs[k].status = "open"
    BY <2>1, OpenIsOpen
  <2>3. l.txs[k].status # "open" => l.txs[k].id # tx
    BY <2>2
  <2>4. l.txs[k].status # "open" =>
          \A event \in Seen(m) \ Seen(l) : ~ JournalsFor(event, l.txs[k])
    BY <2>3 DEF JournalsFor
  <2> QED
    BY <2>1, <2>2, <2>4, TalliesStay
<1>2. ASSUME NEW k \in DOMAIN m.txs, m.txs[k].id = tx
      PROVE  /\ Tallied(m, m.txs[k], Revision(m, m.txs[k].target))
             /\ ok \/ Revision(m, m.txs[k].target) = m.txs[k].started
  <2> DEFINE t == m.txs[k]
  <2>1. k \in DOMAIN l.txs /\ Stands(l.txs[k], t)
    BY DEF TableStands
  <2>2. /\ t.target = target /\ t.started = Revision(l, target) /\ t.id = tx
        /\ \A event \in Seen(l) : ~ JournalsFor(event, t)
    BY <1>2, <2>1 DEF Stands, Unrevised, JournalsFor
  <2>3. t.begin \in Nat /\ t.begin < l.next /\ tx # 0
    BY <1>2, <2>1, OpenIsOpen DEF Stands
  <2>4. PICK updates : Counts(l, m, target, updates)
    BY DEF Spans
  <2>5. /\ l.next \in Nat /\ m.next \in Nat
        /\ \A event \in Seen(l) : event.seq \in Nat /\ event.seq < l.next
    <3>1. l \in LedgerType /\ Consecutive(l)
      BY DEF Whole, Sound
    <3> QED
      BY <3>1, RetainedIsPast DEF Seen, Later
  <2> HIDE DEF t
  <2>6. updates \in SUBSET ((t.begin + 1)..(m.next - 1))
    BY <2>3, <2>4, <2>5 DEF Counts
  <2>7. ASSUME NEW event \in Seen(m)
        PROVE  JournalsFor(event, t) <=> event.seq \in updates
    <3>1. CASE event \in Seen(l)
      BY <2>2, <2>4, <2>5, <3>1 DEF Counts
    <3>2. CASE event \notin Seen(l)
      BY <2>2, <2>4, <3>2 DEF Counts, JournalsFor
    <3> QED
      BY <3>1, <3>2
  <2>8. Revision(m, t.target) = t.started + Cardinality(updates)
    BY <2>2, <2>4 DEF Counts
  <2>9. Tallied(m, t, Revision(m, t.target))
    BY <2>6, <2>7, <2>8 DEF Tallied
  <2>10. ok \/ Revision(m, t.target) = t.started
    BY <2>2, <2>3
  <2> QED
    BY <2>9, <2>10 DEF t
<1> QED
  BY <1>1, <1>2 DEF AllTally, Ripe

\* It is closed.
LEMMA TallyEnds ==
  ASSUME NEW l, Whole(l), NEW m, Later(l, m), AllTally(l),
         NEW tx, NEW ok \in BOOLEAN, Ripe(l, tx, ok),
         Concludes(l, m, tx, IF ok THEN "committed" ELSE "aborted"),
         \A event \in Seen(m) \ Seen(l) : event.op # "state_update"
  PROVE  AllTally(m)
<1> DEFINE status == IF ok THEN "committed" ELSE "aborted"
<1>1. \A event \in Seen(m) \ Seen(l) : \A t : ~ JournalsFor(event, t)
  BY DEF JournalsFor, Journals
<1>2. ASSUME NEW k \in DOMAIN l.txs, l.txs[k].id # tx
      PROVE  Tallies(m, m.txs[k])
  <2>1. Stands(l.txs[k], m.txs[k])
    BY <1>2 DEF Concludes
  <2>2. l.txs[k].begin \in Nat /\ Tallies(l, l.txs[k])
    BY OpenIsOpen DEF AllTally
  <2> QED
    BY <1>1, <2>1, <2>2, TalliesStay
<1>3. ASSUME NEW k \in DOMAIN l.txs, l.txs[k].id = tx
      PROVE  Tallies(m, m.txs[k])
  <2> DEFINE t == l.txs[k]
             u == m.txs[k]
  <2>1. /\ u.id = t.id /\ u.begin = t.begin /\ u.started = t.started
        /\ u.target = t.target /\ u.status = status /\ u.committed = Revision(l, t.target)
    BY <1>3 DEF Concludes, Settles
  <2>2. /\ Tallied(l, t, Revision(l, t.target))
        /\ ok \/ Revision(l, t.target) = t.started
    BY <1>3 DEF Ripe
  <2>3. u.begin \in Nat
    BY <2>1, OpenIsOpen
  <2> HIDE DEF t, u
  <2>4. Tallied(l, u, u.committed)
    BY <2>1, <2>2 DEF Tallied, JournalsFor
  <2>5. Tallied(m, u, u.committed)
    <3>1. Stands(u, u)
      BY DEF Stands
    <3> QED
      BY <1>1, <2>3, <2>4, <3>1, TalliedStays
  <2>6. u.status = "aborted" => u.committed = u.started
    BY <2>1, <2>2
  <2>7. Tallies(m, u)
    BY <2>5, <2>6 DEF Tallies
  <2> QED
    BY <2>7 DEF u
<1>4. DOMAIN m.txs = DOMAIN l.txs
  BY DEF Concludes
<1> QED
  BY <1>2, <1>3, <1>4 DEF AllTally

\* Calls made while no transaction is open.
LEMMA TallyGoes ==
  ASSUME NEW l, Whole(l), l.tx = 0, NEW m, NEW changed, Goes(l, m, changed), AllTally(l)
  PROVE  AllTally(m)
<1>1. Later(l, m) /\ TableStands(l, m) /\ \A event \in Seen(m) \ Seen(l) : event.tx = 0
  BY GoesIsLater DEF Goes
<1>2. ASSUME NEW k \in DOMAIN m.txs
      PROVE  Tallies(m, m.txs[k])
  <2>1. k \in DOMAIN l.txs /\ Stands(l.txs[k], m.txs[k]) /\ Tallies(l, l.txs[k])
    BY <1>1 DEF TableStands, AllTally
  <2>2. l.txs[k].begin \in Nat /\ l.txs[k].id # 0
    BY <2>1, OpenIsOpen
  <2>3. \A event \in Seen(m) \ Seen(l) : ~ JournalsFor(event, l.txs[k])
    BY <1>1, <2>2 DEF JournalsFor
  <2> QED
    BY <1>1, <2>1, <2>2, <2>3, TalliesStay
<1> QED
  BY <1>2 DEF AllTally

\* The events of such a transaction are all retained if the one that begins it is.
LEMMA TalliedIsRetained ==
  ASSUME NEW l, Whole(l), NEW t, t.begin \in Nat, NEW revision, Tallied(l, t, revision),
         NEW i \in DOMAIN Retained(l), Retained(l)[i].seq = t.begin
  PROVE  revision = t.started
                      + Cardinality({j \in DOMAIN Retained(l) : JournalsFor(Retained(l)[j], t)})
<1> DEFINE window == Retained(l)
           journaled == {j \in DOMAIN window : JournalsFor(window[j], t)}
           number == [j \in journaled |-> window[j].seq]
           first == l.next - l.count
<1>1. /\ l.count \in Nat /\ l.next \in Nat /\ l.count < l.next
      /\ \A n \in 0..(l.count - 1) : l.entries[Slot(l, n)].seq = first + n
  BY CapacityAssumption DEF Whole, Sound, LedgerType, Consecutive
<1>2. DOMAIN window = 1..l.count
  BY DEF Retained
<1>3. \A j \in DOMAIN window : window[j].seq = first + (j - 1)
  BY <1>1, <1>2 DEF Retained
<1>4. PICK updates \in SUBSET ((t.begin + 1)..(l.next - 1)) :
        /\ revision = t.started + Cardinality(updates)
        /\ \A event \in Seen(l) : JournalsFor(event, t) <=> event.seq \in updates
  BY DEF Tallied
<1>5. \A j \in DOMAIN window : JournalsFor(window[j], t) <=> window[j].seq \in updates
  BY <1>4 DEF Seen
<1>6. first =< t.begin /\ first \in Nat
  BY <1>1, <1>2, <1>3
<1>7. IsFiniteSet(journaled)
  <2>1. IsFiniteSet(1..l.count)
    BY <1>1, FS_Interval
  <2> QED
    BY <1>2, <2>1, FS_Subset
<1> HIDE DEF window
<1>8. number \in [journaled -> updates]
  BY <1>5
<1>9. ASSUME NEW a \in journaled, NEW b \in journaled, number[a] = number[b]
      PROVE  a = b
  <2>1. a \in 1..l.count /\ b \in 1..l.count
    BY <1>2
  <2>2. first + (a - 1) = first + (b - 1)
    BY <1>3, <1>9
  <2> QED
    BY <1>1, <1>6, <2>1, <2>2
<1>10. ASSUME NEW n \in updates
       PROVE  \E j \in journaled : number[j] = n
  <2>1. n \in Nat /\ t.begin < n /\ n < l.next
    BY <1>1, <1>4
  <2>2. n - first + 1 \in 1..l.count /\ first + ((n - first + 1) - 1) = n
    BY <1>1, <1>6, <2>1
  <2>3. n - first + 1 \in DOMAIN window /\ window[n - first + 1].seq = n
    BY <1>2, <1>3, <2>2
  <2>4. n - first + 1 \in journaled
    BY <1>5, <2>3
  <2> QED
    BY <2>3, <2>4
<1> HIDE DEF journaled, number
<1>11. ExistsBijection(journaled, updates)
  <2>1. number \in Injection(journaled, updates)
    BY <1>8, <1>9 DEF Injection, IsInjective
  <2>2. number \in Surjection(journaled, updates)
    BY <1>8, <1>10 DEF Surjection
  <2> QED
    BY <2>1, <2>2 DEF ExistsBijection, Bijection
<1>12. Cardinality(updates) = Cardinality(journaled)
  BY <1>7, <1>11, FS_Bijection
<1> QED
  BY <1>4, <1>12 DEF journaled, window

\* A caller sets the transaction in force or the current event.
LEMMA TallySets ==
  ASSUME NEW l, NEW m, NEW current, NEW tx, Sets(l, m, current, tx), AllTally(l)
  PROVE  AllTally(m)
BY DEF Sets, AllTally, Tallies, Tallied

\* transaction_begin, and what its caller sets then.
LEMMA BeginTallies ==
  ASSUME NEW l, Whole(l), l.next \in 1..MaxSeq, OpenIds(l) = {}, AllTally(l),
         NEW actor \in Labels, NEW target \in Labels, NEW parent \in 0..(l.next - 1),
         NEW begun, begun = Begin(l, actor, target, parent),
         NEW tx, tx = BeginResult(l), NEW m, Whole(m), m.txs = begun.txs,
         m.objects = begun.objects, m.next = begun.next, Seen(m) = Seen(begun),
         OpenIds(m) = {tx} \ {0}
  PROVE  AllTally(m) /\ Unrevised(m, tx, target)
<1>1. Begins(l, begun, actor, parent)
  BY BeginGoes
<1>2. Whole(begun) /\ begun \in LedgerType /\ l.next \in Nat /\ begun.next \in Nat
      /\ l.next =< begun.next
  BY <1>1 DEF Begins, Whole, LedgerType
<1>3. Enters(l, m, tx, target)
  <2>1. TableStands(l, l)
    BY SameTableStands
  <2>2. CASE tx = 0
    <3>1. m.txs = l.txs
      BY <1>1, <2>2 DEF Begins
    <3> QED
      BY <2>1, <3>1 DEF Enters, TableStands
  <2>3. CASE tx # 0
    <3>1. tx = l.next
      BY <2>3 DEF BeginResult
    <3>2. Enters(l, begun, tx, target)
      BY <2>3, <3>1, BeginEnters
    <3> QED
      BY <1>2, <2>1, <3>2, EntersOn
  <2> QED
    BY <2>2, <2>3
<1>4. \A event \in Seen(m) \ Seen(l) :
        event.op # "state_update" /\ event.seq \in l.next..(m.next - 1)
  <2>1. CASE tx = 0
    BY <1>1, <2>1 DEF Begins
  <2>2. CASE tx # 0
    <3>1. /\ begun.next = l.next + 1
          /\ \A event \in Seen(begun) \ Seen(l) :
               event.seq = l.next /\ Tells(event, BeginReport(l, actor, parent))
      BY <1>1, <2>2 DEF Begins
    <3>2. l.next \in l.next..(m.next - 1)
      BY <1>2, <3>1
    <3> QED
      BY <3>1, <3>2 DEF Tells, BeginReport, Report
  <2> QED
    BY <2>1, <2>2
<1>5. Later(l, m)
  BY <1>2, <1>4 DEF Later
<1>6. tx = 0 \/ l.next =< tx
  BY <1>2 DEF BeginResult
<1> QED
  BY <1>3, <1>4, <1>5, <1>6, TallyEnters

\* transaction_commit and transaction_abort.
LEMMA CloseTallies ==
  ASSUME NEW l, Whole(l), AllTally(l), NEW tx, OpenIds(l) = {tx} \ {0}, NEW ok \in BOOLEAN,
         Ripe(l, tx, ok), NEW m, m = IF ok THEN Commit(l, tx) ELSE Abort(l, tx)
  PROVE  AllTally(m)
<1>1. CASE tx = 0
  <2>1. m = l
    BY <1>1, CommitOfNone
  <2> QED
    BY <2>1
<1>2. CASE tx # 0
  <2>1. tx \in OpenIds(l)
    BY <1>2
  <2>2. Closes(l, m, tx)
    BY <2>1, CommitGoes
  <2>3. Concludes(l, m, tx, IF ok THEN "committed" ELSE "aborted")
    BY <2>1, CommitSettles
  <2>4. l.next \in Nat /\ m.next = l.next + 1
    BY <2>2 DEF Closes, Whole, LedgerType
  <2>5. \A event \in Seen(m) \ Seen(l) : event.op # "state_update" /\ event.seq = l.next
    BY <2>2 DEF Closes, Tells, CloseReport, Report
  <2>6. Later(l, m)
    BY <2>4, <2>5 DEF Later
  <2> QED
    BY <2>3, <2>5, <2>6, TallyEnds
<1> QED
  BY <1>1, <1>2
=============================================================================
