---------------------------- MODULE LedgerProofs ----------------------------
(***************************************************************************)
(* Proofs about Ledger.tla, for every capacity and every caller it allows. *)
(*                                                                         *)
(* The inductive invariants are LedgerInvariant (the type, the gapless     *)
(* ring, and that the numbers the ledger keeps name events already         *)
(* recorded) and BooksInvariant (with it, the numbering of transactions    *)
(* and their envelopes).  What each call does to a ledger is shown in      *)
(* LedgerApiProofs, for any caller; here are the callers of Ledger.tla,    *)
(* one step per action.                                                    *)
(***************************************************************************)
EXTENDS Ledger, LedgerApiProofs

\* The callers of Ledger.tla are the settled callers of the lemmas.
LEMMA SettledHere ==
  /\ Settled <=> SettledIn(ledger)
  /\ \A id : IsOpen(id) <=> OpenIn(ledger, id)
BY DEF Settled, SettledIn, IsOpen, OpenIn

\* The zeroed ledger is typed, has no gap and names no event.
LEMMA InitIsSound == Init => TypeOK /\ Sound(ledger)
BY EmptyLedgerIsSound DEF Init, TypeOK

\* The report of the kernel's entry is typed.
LEMMA BootReportType == BootReport \in ReportType
<1>1. /\ "boot" \in Labels /\ "kernel" \in Labels
      /\ "enter" \in Operations
      /\ "ok" \in Results
      /\ "action" \in Kinds
      /\ 0 \in Nat
  BY NameAssumption, OperationAssumption DEF Labels, Results, Kinds
<1> QED
  BY <1>1, ReportIsTyped, Zenon DEF BootReport

\* The first event of the kernel keeps the invariant.
LEMMA EnterKernelKept ==
  ASSUME TypeOK, EnterKernel
  PROVE  Kept(ledger, ledger')
<1> DEFINE m == Record(ledger, BootReport)
           c == SetCurrent(m, 1)
           n == Register(c, "events", 0, "recording", 1)
<1>1. ledger \in LedgerType /\ ledger = EmptyLedger /\ ledger' = n
  BY DEF TypeOK, EnterKernel
<1>2. m \in LedgerType
  BY <1>1, BootReportType, RecordType
<1>3. /\ ledger.next = 1 /\ m.next = 2 /\ 1 \in 0..(m.next - 1)
      /\ BootReport.parent \in 0..(ledger.next - 1)
  BY <1>1, RecordFrame DEF EmptyLedger, BootReport, Report
<1>4. Kept(ledger, m)
  <2>1. SameRing(ledger, ledger) /\ SameLog(m, m)
    BY DEF SameRing, SameLog
  <2>2. Sound(ledger) => Pending(ledger)
    BY <1>1, RecordedIsPending DEF Sound
  <2> QED
    BY <1>1, <1>2, <1>3, <2>1, <2>2, BootReportType, RecordStep
<1> HIDE DEF m
<1>5. Kept(m, c) /\ c.next = m.next
  BY <1>2, <1>3, SetCurrentKept DEF SetCurrent, LedgerType
<1>6. c \in LedgerType
  BY <1>5 DEF Kept
<1> HIDE DEF c
<1>7. n \in LedgerType /\ SameLog(c, n)
  <2>1. "events" \in ObjectNames /\ "recording" \in ObjectStates
    BY NameAssumption DEF ObjectNames, ObjectStates
  <2> QED
    BY <1>6, <2>1, RegisterType, RegistryKeepsLog
<1> HIDE DEF n
<1>8. Kept(c, n) /\ n.next = c.next
  BY <1>6, <1>7, RegistryStep DEF SameLog, SameRing
<1>9. Retained(n) = Retained(m)
  <2>1. SameRing(m, c)
    BY <1>2 DEF c, SetCurrent, SameRing, LedgerType
  <2> QED
    BY <1>7, <2>1, RingDeterminesWindow DEF SameLog
<1> QED
  BY <1>1, <1>3, <1>4, <1>5, <1>7, <1>8, <1>9 DEF Kept, Advance, Notes

\* Every action of the state machine keeps the invariant and steps the window.
LEMMA NextKept ==
  ASSUME TypeOK, [Next]_vars
  PROVE  Kept(ledger, ledger')
<1>1. /\ ledger \in LedgerType
      /\ ledger.objects \in Seq(Object)
      /\ ledger.next \in Nat
      /\ ledger.current \in Nat
  BY DEF TypeOK, LedgerType
<1>2. Causes \subseteq 0..(ledger.next - 1) /\ Causes \subseteq Nat
  BY <1>1, TypeOK DEF Causes, TypeOK, LedgerType
<1>3. /\ \A name \in Names : name \in ObjectNames
      /\ \A state \in States : state \in ObjectStates
  BY DEF ObjectNames, ObjectStates
<1>4. CASE EnterKernel
  BY <1>4, EnterKernelKept
<1>5. CASE RecordEvent
  <2>1. PICK said \in Reports, parent \in Causes :
          ledger' = Record(ledger, Report(said.actor, said.target, said.op,
                                          said.result, parent, said.kind))
    BY <1>5 DEF RecordEvent
  <2> DEFINE report == Report(said.actor, said.target, said.op, said.result, parent,
                              said.kind)
  <2>2. /\ said.actor \in Labels /\ said.target \in Labels
        /\ said.op \in Operations /\ said.result \in Results
        /\ said.kind \in Kinds /\ parent \in Nat
    BY <1>2, CallerAssumption
  <2>3. report \in ReportType
    BY <2>2, ReportIsTyped, Zenon
  <2>4. report.parent \in 0..(ledger.next - 1)
    BY <1>2 DEF Report
  <2> HIDE DEF report
  <2>5. Record(ledger, report) \in LedgerType
    BY <1>1, <2>3, RecordType
  <2>6. SameRing(ledger, ledger) /\ SameLog(Record(ledger, report), Record(ledger, report))
    BY DEF SameRing, SameLog
  <2>7. Sound(ledger) => Pending(ledger)
    BY <1>1, RecordedIsPending DEF Sound
  <2>8. Kept(ledger, Record(ledger, report))
    BY <1>1, <2>3, <2>4, <2>5, <2>6, <2>7, RecordStep
  <2> QED
    BY <2>1, <2>8 DEF report
<1>6. CASE RegisterObject
  <2>1. ObjectId(ledger, "events") \in Nat
    BY <1>1, ObjectIdType
  <2>2. PICK name \in Names, state \in States :
          ledger' = Register(ledger, name, ObjectId(ledger, "events"), state,
                             ledger.current)
    BY <1>6 DEF RegisterObject
  <2>3. ledger' \in LedgerType /\ SameLog(ledger, ledger')
    BY <1>1, <1>3, <2>1, <2>2, RegisterType, RegistryKeepsLog
  <2> QED
    BY <2>3, RegistryStep
<1>7. CASE UpdateObject
  BY <1>1, <1>3, <1>7, UpdateStateKept DEF UpdateObject
<1>8. CASE BeginTransaction
  <2>1. PICK owner \in Owners, parent \in Causes :
          ledger' = Begin(ledger, owner.actor, owner.target, parent)
    BY <1>8 DEF BeginTransaction
  <2>2. /\ owner.actor \in Labels /\ owner.target \in Labels
        /\ parent \in 0..(ledger.next - 1)
    BY <1>2, CallerAssumption
  <2>3. ledger.next \in 1..MaxSeq
    BY <1>1, <1>8, CapacityAssumption DEF BeginTransaction, InRange
  <2> QED
    BY <1>1, <2>1, <2>2, <2>3, BeginKept
<1>9. CASE CommitTransaction
  BY <1>1, <1>9, CloseActionsKept DEF CommitTransaction
<1>10. CASE AbortTransaction
  BY <1>1, <1>10, CloseActionsKept DEF AbortTransaction
<1>11. CASE SetCurrentEvent
  BY <1>1, <1>2, <1>11, SetCurrentKept DEF SetCurrentEvent
<1>12. CASE SetCurrentTransaction
  <2>1. PICK id \in 0..MaxSeq : ledger' = SetTx(ledger, id)
    BY <1>12 DEF SetCurrentTransaction
  <2>2. id \in Nat
    BY CapacityAssumption
  <2>3. ledger' \in LedgerType /\ SameLog(ledger, ledger')
    BY <1>1, <2>1, <2>2, SetTxType, RegistryKeepsLog
  <2> QED
    BY <2>3, RegistryStep
<1>13. CASE UNCHANGED vars
  <2>1. ledger' \in LedgerType /\ SameLog(ledger, ledger')
    BY <1>1, <1>13 DEF vars, SameLog, SameRing
  <2> QED
    BY <2>1, RegistryStep
<1> QED
  BY <1>4, <1>5, <1>6, <1>7, <1>8, <1>9, <1>10, <1>11, <1>12, <1>13 DEF Next

\* Every state of the ledger is well typed (event.c, object.c).
THEOREM LedgerTypeCorrect == Spec => []TypeOK
<1>1. TypeOK /\ [Next]_vars => TypeOK'
  BY NextKept DEF Kept, TypeOK
<1> QED
  BY InitIsSound, <1>1, PTL DEF Spec

\* The inductive invariant: the ring is a gapless window, and the numbers the
\* ledger keeps name events it has recorded.
LedgerInvariant == TypeOK /\ Sound(ledger)

\* Whatever calls the kernel makes, the invariant holds (event.c:113-223,
\* object.c:43-93).
THEOREM LedgerInvariantHolds == Spec => []LedgerInvariant
<1>1. Init => LedgerInvariant
  BY InitIsSound DEF LedgerInvariant
<1>2. LedgerInvariant /\ [Next]_vars => LedgerInvariant'
  BY NextKept DEF LedgerInvariant, Kept, TypeOK
<1> QED
  BY <1>1, <1>2, PTL DEF Spec

\* The ring holds the newest events, oldest first and without a gap, for every
\* capacity (event.c:125-128).
THEOREM RingIsAlwaysWindow == Spec => []RingIsWindow
<1>1. LedgerInvariant => RingIsWindow
  BY DEF LedgerInvariant, Sound, RingIsWindow
<1> QED
  BY LedgerInvariantHolds, <1>1, PTL

\* The ledger implements the append-only window: no call rewrites, drops or
\* reorders a retained event, and every cause precedes its effect.
THEOREM LedgerImplementsWindow == Spec => ImplementsWindow
<1>1. Init => Window!Init
  BY DEF Init, EmptyLedger, Window!Init, Retained
<1>2. LedgerInvariant /\ [Next]_vars =>
        [Window!Note]_<<ledger.next - 1, Retained(ledger)>>
  <2> SUFFICES ASSUME LedgerInvariant, [Next]_vars
               PROVE  [Window!Note]_<<ledger.next - 1, Retained(ledger)>>
    OBVIOUS
  <2>1. Advance(ledger, ledger') /\ ledger \in LedgerType
    BY NextKept DEF LedgerInvariant, Kept, TypeOK
  <2>2. CASE Retained(ledger') = Retained(ledger) /\ ledger'.next = ledger.next
    BY <2>2
  <2>3. CASE Notes(ledger, ledger')
    <3>1. PICK event \in Event :
            /\ event.seq = ledger.next
            /\ event.parent \in 0..(ledger.next - 1)
            /\ Retained(ledger') = Window!Newest(Append(Retained(ledger), event))
      BY <2>3 DEF Notes, Newest, Window!Newest
    <3> DEFINE old == Retained(ledger)
               log == Append(old, event)
               new == Retained(ledger')
    <3>2. ledger'.next = ledger.next + 1 /\ ledger.next \in Nat
      BY <2>1, <2>3 DEF Notes, LedgerType
    <3>3. old \in Seq(Event)
      BY <2>1, RetainedType
    <3> HIDE DEF old
    <3>4. /\ log \in Seq(Event) /\ log # << >>
          /\ Len(log) = Len(old) + 1 /\ log[Len(old) + 1] = event
          /\ Len(old) \in Nat
      BY <3>3, AppendProperties, LenProperties
    <3> HIDE DEF log
    <3>5. new = IF Len(log) > EventCap THEN Tail(log) ELSE log
      BY <3>1 DEF Window!Newest, log, old
    <3> HIDE DEF new
    <3>6. new # << >> /\ new[Len(new)] = event
      <4>1. CASE Len(log) > EventCap
        <5>1. /\ Len(Tail(log)) = Len(old)
              /\ \A i \in 1..Len(Tail(log)) : Tail(log)[i] = log[i + 1]
              /\ Tail(log) \in Seq(Event)
          BY <3>4, HeadTailProperties
        <5>2. Len(old) \in 1..Len(Tail(log))
          BY <3>4, <4>1, <5>1, CapacityAssumption
        <5>3. Tail(log) # << >>
          BY <5>1, <5>2
        <5> QED
          BY <3>4, <3>5, <4>1, <5>1, <5>2, <5>3
      <4>2. CASE ~ (Len(log) > EventCap)
        BY <3>4, <3>5, <4>2
      <4> QED
        BY <4>1, <4>2
    <3>7. new = Window!Newest(Append(old, new[Len(new)]))
      BY <3>1, <3>6 DEF new, old
    <3> QED
      BY <3>1, <3>2, <3>6, <3>7 DEF Window!Note, new, old
  <2> QED
    BY <2>1, <2>2, <2>3 DEF Advance
<1> QED
  BY LedgerInvariantHolds, <1>1, <1>2, PTL DEF Spec, ImplementsWindow, Window!Spec

\* The first event of the kernel opens the books.
LEMMA EnterKernelAccounted ==
  ASSUME TypeOK, Sound(ledger), EnterKernel
  PROVE  Accounted(ledger, ledger')
<1> DEFINE m == Record(ledger, BootReport)
           c == SetCurrent(m, 1)
           n == Register(c, "events", 0, "recording", 1)
<1>1. ledger \in LedgerType /\ ledger = EmptyLedger /\ ledger' = n
  BY DEF TypeOK, EnterKernel
<1>2. /\ DOMAIN ledger.txs = {} /\ ledger.tx = 0
      /\ DOMAIN Retained(ledger) = {}
  BY <1>1 DEF EmptyLedger, Retained
<1>3. Ready(ledger, BootReport)
  BY <1>2 DEF Ready, Bound, Enveloped
<1>4. m \in LedgerType /\ Books(m)
  BY <1>1, <1>3, BootReportType, RecordType, RecordKeepsBooks DEF Sound
<1> HIDE DEF m
<1>5. /\ SameBooks(m, c) /\ c.tx = m.tx
      /\ c \in LedgerType
  BY <1>4, SettersKeepBooks, SetTxType
<1> HIDE DEF c
<1>6. SameBooks(c, n) /\ n.tx = c.tx
  BY <1>5, RegistryKeepsBooks
<1> HIDE DEF n
<1>7. SameBooks(m, n) /\ n.tx = m.tx
  BY <1>5, <1>6 DEF SameBooks, SameRing
<1>8. Books(n)
  BY <1>4, <1>7, SameBooksAccounted DEF Accounted
<1> QED
  BY <1>1, <1>2, <1>8 DEF Accounted, Final

\* The inductive invariant of the transactions.
BooksInvariant == LedgerInvariant /\ Books(ledger)

\* Every action accounts for the transactions, from the boot event on; before it
\* the table is empty.
LEMMA NextAccounted ==
  ASSUME BooksInvariant, [Next]_vars
  PROVE  Accounted(ledger, ledger')
<1>1. /\ ledger \in LedgerType /\ TypeOK /\ Sound(ledger) /\ Books(ledger)
      /\ Consecutive(ledger) /\ Recorded(ledger)
      /\ ledger.next \in Nat \ {0}
  BY DEF BooksInvariant, LedgerInvariant, TypeOK, LedgerType, Sound
<1>2. Causes \subseteq 0..(ledger.next - 1) /\ Causes \subseteq Nat
  BY <1>1 DEF Causes
<1>3. \A state \in States : state \in ObjectStates
  BY DEF ObjectStates
<1>4. Settled => \A i \in DOMAIN ledger.txs :
                   ledger.txs[i].id = ledger.tx => ledger.txs[i].status = "open"
  BY <1>1, SettledIsOpen, SettledHere
<1>5. CASE EnterKernel
  BY <1>1, <1>5, EnterKernelAccounted
<1>6. CASE RecordEvent
  <2>1. PICK said \in Reports, parent \in Causes :
          ledger' = Record(ledger, Report(said.actor, said.target, said.op,
                                          said.result, parent, said.kind))
    BY <1>6 DEF RecordEvent
  <2> DEFINE report == Report(said.actor, said.target, said.op, said.result, parent,
                              said.kind)
  <2>2. /\ said.actor \in Labels /\ said.target \in Labels
        /\ said.op \in Operations /\ said.result \in Results
        /\ said.kind \in Kinds /\ parent \in Nat
    BY <1>2, CallerAssumption
  <2>3. report \in ReportType
    BY <2>2, ReportIsTyped, Zenon
  <2>4. ledger' = Record(ledger, report)
    BY <2>1
  <2> HIDE DEF report
  <2>5. ledger'.tx = ledger.tx
    BY <1>1, <2>4, RecordFrame
  <2>6. SameLog(ledger, ledger) /\ SameBooks(ledger', ledger')
    BY DEF SameLog, SameBooks, SameRing
  <2>7. Settled
    BY <1>6 DEF RecordEvent
  <2> QED
    BY <1>1, <1>4, <2>3, <2>4, <2>5, <2>6, <2>7, RecordAccounted
<1>7. CASE RegisterObject
  <2>1. PICK name \in Names, state \in States :
          ledger' = Register(ledger, name, ObjectId(ledger, "events"), state,
                             ledger.current)
    BY <1>7 DEF RegisterObject
  <2> QED
    BY <1>1, <2>1, RegistryKeepsBooks, SameBooksAccounted
<1>8. CASE UpdateObject
  BY <1>1, <1>3, <1>4, <1>8, UpdateStateAccounted DEF UpdateObject
<1>9. CASE BeginTransaction
  <2>1. PICK owner \in Owners, parent \in Causes :
          ledger' = Begin(ledger, owner.actor, owner.target, parent)
    BY <1>9 DEF BeginTransaction
  <2>2. /\ owner.actor \in Labels /\ owner.target \in Labels
        /\ parent \in 0..(ledger.next - 1)
    BY <1>2, CallerAssumption
  <2>3. ledger.next \in 1..MaxSeq
    BY <1>1, <1>9, CapacityAssumption DEF BeginTransaction, InRange
  <2> QED
    BY <1>1, <2>1, <2>2, <2>3, BeginAccounted
<1>10. CASE CommitTransaction
  BY <1>1, <1>10, CloseActionsAccounted, SettledHere DEF CommitTransaction
<1>11. CASE AbortTransaction
  BY <1>1, <1>11, CloseActionsAccounted, SettledHere DEF AbortTransaction
<1>12. CASE SetCurrentEvent
  BY <1>1, <1>12, SettersKeepBooks, SameBooksAccounted DEF SetCurrentEvent
<1>13. CASE SetCurrentTransaction
  <2>1. PICK id \in 0..MaxSeq : (id = 0 \/ IsOpen(id)) /\ ledger' = SetTx(ledger, id)
    BY <1>13 DEF SetCurrentTransaction
  <2>2. Books(ledger')
    BY <1>1, <2>1, RestoreKeepsBooks DEF IsOpen
  <2>3. ledger'.txs = ledger.txs
    BY <1>1, <2>1, SettersKeepBooks DEF SameBooks
  <2> QED
    BY <2>2, <2>3 DEF Accounted, Final
<1>14. CASE UNCHANGED vars
  BY <1>1, <1>14, SameBooksAccounted DEF vars, SameBooks, SameRing
<1> QED
  BY <1>5, <1>6, <1>7, <1>8, <1>9, <1>10, <1>11, <1>12, <1>13, <1>14 DEF Next

\* Transactions are numbered by their begin events, no two alike, and the one in
\* force is in the table, whatever calls the kernel makes (event.c:141-223).
THEOREM BooksInvariantHolds == Spec => []BooksInvariant
<1>1. Init => Books(ledger)
  BY EmptyLedgerBooks DEF Init
<1>2. Init => BooksInvariant
  BY <1>1, InitIsSound DEF BooksInvariant, LedgerInvariant
<1>3. BooksInvariant /\ [Next]_vars => BooksInvariant'
  <2> SUFFICES ASSUME BooksInvariant, [Next]_vars
               PROVE  BooksInvariant'
    OBVIOUS
  <2>1. Books(ledger')
    BY NextAccounted DEF Accounted
  <2>2. LedgerInvariant'
    BY NextKept DEF BooksInvariant, LedgerInvariant, Kept, TypeOK
  <2> QED
    BY <2>1, <2>2 DEF BooksInvariant
<1> QED
  BY <1>2, <1>3, PTL DEF Spec

\* An event carries a transaction only between its begin and its end, and the
\* end is the last event carrying it (event.c:141-144, 154-181).
THEOREM TransactionsAreEnveloped == Spec => []TransactionEnvelope
<1>1. BooksInvariant => TransactionEnvelope
  BY DEF BooksInvariant, Books, TransactionEnvelope
<1> QED
  BY BooksInvariantHolds, <1>1, PTL

\* A closed transaction is never reopened, closed again or extended
\* (event.c:183-223).
THEOREM ClosedStaysFinal == Spec => ClosedIsFinal
<1>1. BooksInvariant /\ [Next]_vars =>
        [\A k \in DOMAIN ledger.txs :
           ledger.txs[k].status # "open" => ledger'.txs[k] = ledger.txs[k]]_vars
  BY NextAccounted DEF Accounted, Final
<1> QED
  BY BooksInvariantHolds, <1>1, PTL DEF Spec, ClosedIsFinal

\* Every action tracks the objects.
LEMMA NextTracked ==
  ASSUME TypeOK, [Next]_vars
  PROVE  Tracked(ledger, ledger')
<1>1. ledger \in LedgerType /\ ledger.next \in Nat \ {0} /\ ledger.objects \in Seq(Object)
      /\ ledger.current \in Nat
  BY DEF TypeOK, LedgerType
<1>2. /\ \A state \in States : state \in ObjectStates
      /\ \A name \in Names : name \in ObjectNames
  BY DEF ObjectStates, ObjectNames
<1>3. CASE EnterKernel
  <2>1. DOMAIN ledger.objects = {}
    BY <1>3 DEF EnterKernel, EmptyLedger
  <2> QED
    BY <2>1 DEF Tracked, Untouched
<1>4. CASE RecordEvent
  <2>1. ledger'.objects = ledger.objects
    BY <1>1, <1>4, RecordFrame DEF RecordEvent
  <2> QED
    BY <2>1 DEF Tracked, Untouched
<1>5. CASE RegisterObject
  <2>1. ObjectId(ledger, "events") \in Nat
    BY <1>1, ObjectIdType
  <2> QED
    BY <1>1, <1>2, <1>5, <2>1, RegisterTracked DEF RegisterObject, Tracked
<1>6. CASE UpdateObject
  BY <1>1, <1>2, <1>6, UpdateStateTracked DEF UpdateObject
<1>7. CASE BeginTransaction
  <2>1. PICK owner \in Owners, parent \in Causes :
          ledger' = Begin(ledger, owner.actor, owner.target, parent)
    BY <1>7 DEF BeginTransaction
  <2>2. parent \in 0..(ledger.next - 1)
    BY <1>1 DEF Causes
  <2>3. ledger.next \in 1..MaxSeq
    BY <1>1, <1>7, CapacityAssumption DEF BeginTransaction, InRange
  <2> QED
    BY <1>1, <2>1, <2>2, <2>3, BeginTracked DEF Tracked
<1>8. CASE CommitTransaction \/ AbortTransaction
  <2>1. PICK id \in 1..MaxSeq : \/ ledger' = Commit(ledger, id)
                                \/ ledger' = Abort(ledger, id)
    BY <1>8 DEF CommitTransaction, AbortTransaction
  <2>2. CASE TxIndex(ledger, id) = 0
    BY <2>1, <2>2 DEF Commit, Abort, Tracked, Untouched
  <2>3. CASE TxIndex(ledger, id) # 0
    <3>1. /\ TxIndex(ledger, id) \in 1..Len(ledger.txs)
          /\ ledger.txs[TxIndex(ledger, id)].id \in 1..MaxSeq
      BY <1>1, <2>1, <2>3, TxIndexMatches
    <3>2. /\ {"committed", "aborted"} \subseteq Statuses
          /\ {"ok", "denied"} \subseteq Results
      BY DEF Statuses, Results
    <3>3. /\ Tracked(ledger, Close(ledger, TxIndex(ledger, id), "committed", "commit", "ok"))
          /\ Tracked(ledger, Close(ledger, TxIndex(ledger, id), "aborted", "abort", "denied"))
      BY <1>1, <3>1, <3>2, CloseTracked, OperationAssumption
    <3> QED
      BY <2>1, <2>3, <3>3 DEF Commit, Abort
  <2> QED
    BY <2>2, <2>3
<1>9. CASE SetCurrentEvent
  BY <1>1, <1>9 DEF SetCurrentEvent, SetCurrent, Tracked, Untouched, LedgerType
<1>10. CASE SetCurrentTransaction
  BY <1>1, <1>10 DEF SetCurrentTransaction, SetTx, Tracked, Untouched, LedgerType
<1>11. CASE UNCHANGED vars
  BY <1>11 DEF vars, Tracked, Untouched
<1> QED
  BY <1>3, <1>4, <1>5, <1>6, <1>7, <1>8, <1>9, <1>10, <1>11 DEF Next

\* Objects are never dropped, renamed or given another id, and change only with
\* their revision, by the newest event (object.c:55-93).
THEOREM RevisionsAlwaysAccount == Spec => RevisionsAccountForChanges
<1> DEFINE Changes ==
      \A i \in DOMAIN ledger.objects :
        LET old == ledger.objects[i]
            new == ledger'.objects[i]
        IN  /\ new.id = old.id /\ new.name = old.name /\ new.created = old.created
            /\ new # old => /\ new.rev = old.rev + 1
                            /\ new.last = ledger'.next - 1
                            /\ ledger'.next = ledger.next + 1
<1>1. TypeOK /\ [Next]_vars => [Changes]_vars
  <2> SUFFICES ASSUME TypeOK, [Next]_vars
               PROVE  Changes
    OBVIOUS
  <2>1. Tracked(ledger, ledger') /\ ledger.next \in Nat
    BY NextTracked DEF TypeOK, LedgerType
  <2>2. CASE Untouched(ledger, ledger')
    BY <2>2 DEF Untouched
  <2>3. CASE /\ ledger'.next = ledger.next + 1
             /\ \A i \in DOMAIN ledger.objects :
                  Traced(ledger.objects[i], ledger'.objects[i], ledger.next)
    BY <2>1, <2>3 DEF Traced
  <2> QED
    BY <2>1, <2>2, <2>3 DEF Tracked
<1> QED
  BY LedgerTypeCorrect, <1>1, PTL DEF Spec, RevisionsAccountForChanges

\* Every action keeps the history in order.
LEMMA NextOrdered ==
  ASSUME TypeOK, OrderedById(ledger), [Next]_vars
  PROVE  OrderedById(ledger')
<1>1. ledger \in LedgerType /\ ledger.next \in Nat \ {0} /\ ledger.objects \in Seq(Object)
      /\ ledger.current \in Nat
  BY DEF TypeOK, LedgerType
<1>2. /\ \A state \in States : state \in ObjectStates
      /\ \A name \in Names : name \in ObjectNames
      /\ Causes \subseteq 0..(ledger.next - 1) /\ Causes \subseteq Nat
  BY <1>1 DEF ObjectStates, ObjectNames, Causes
<1>3. CASE EnterKernel
  <2> DEFINE m == Record(ledger, BootReport)
             c == SetCurrent(m, 1)
             n == Register(c, "events", 0, "recording", 1)
  <2>1. ledger' = n
    BY <1>3 DEF EnterKernel
  <2>2. m \in LedgerType /\ OrderedById(m)
    BY <1>1, BootReportType, RecordType, RecordKeepsOrder
  <2> HIDE DEF m
  <2>3. c \in LedgerType /\ OrderedById(c)
    BY <2>2, SetTxType, SettersKeepOrder
  <2> HIDE DEF c
  <2>4. "events" \in ObjectNames /\ "recording" \in ObjectStates
    BY NameAssumption DEF ObjectNames, ObjectStates
  <2>5. n \in LedgerType /\ SameRing(c, n) /\ Grows(c, n)
    BY <2>3, <2>4, RegisterType, RegisterGrows, RegistryKeepsLog DEF SameLog
  <2> HIDE DEF n
  <2> QED
    BY <2>1, <2>3, <2>5, GrowthKeepsOrder
<1>4. CASE RecordEvent
  <2>1. PICK said \in Reports, parent \in Causes :
          ledger' = Record(ledger, Report(said.actor, said.target, said.op,
                                          said.result, parent, said.kind))
    BY <1>4 DEF RecordEvent
  <2>2. /\ said.actor \in Labels /\ said.target \in Labels
        /\ said.op \in Operations /\ said.result \in Results
        /\ said.kind \in Kinds /\ parent \in Nat
    BY <1>2, CallerAssumption
  <2>3. Report(said.actor, said.target, said.op, said.result, parent, said.kind)
          \in ReportType
    BY <2>2, ReportIsTyped, Zenon
  <2> QED
    BY <1>1, <2>1, <2>3, RecordKeepsOrder
<1>5. CASE RegisterObject
  <2>1. ObjectId(ledger, "events") \in Nat
    BY <1>1, ObjectIdType
  <2>2. PICK name \in Names, state \in States :
          ledger' = Register(ledger, name, ObjectId(ledger, "events"), state,
                             ledger.current)
    BY <1>5 DEF RegisterObject
  <2>3. ledger' \in LedgerType /\ SameRing(ledger, ledger') /\ Grows(ledger, ledger')
    BY <1>1, <1>2, <2>1, <2>2, RegisterType, RegisterGrows, RegistryKeepsLog DEF SameLog
  <2> QED
    BY <1>1, <2>3, GrowthKeepsOrder
<1>6. CASE UpdateObject
  BY <1>1, <1>2, <1>6, UpdateStateOrdered DEF UpdateObject
<1>7. CASE BeginTransaction
  <2>1. PICK owner \in Owners, parent \in Causes :
          ledger' = Begin(ledger, owner.actor, owner.target, parent)
    BY <1>7 DEF BeginTransaction
  <2>2. /\ owner.actor \in Labels /\ owner.target \in Labels
        /\ parent \in 0..(ledger.next - 1)
    BY <1>2, CallerAssumption
  <2>3. ledger.next \in 1..MaxSeq
    BY <1>1, <1>7, CapacityAssumption DEF BeginTransaction, InRange
  <2> QED
    BY <1>1, <2>1, <2>2, <2>3, BeginOrdered
<1>8. CASE CommitTransaction \/ AbortTransaction
  <2>1. PICK id \in 1..MaxSeq : \/ ledger' = Commit(ledger, id)
                                \/ ledger' = Abort(ledger, id)
    BY <1>8 DEF CommitTransaction, AbortTransaction
  <2>2. CASE TxIndex(ledger, id) = 0
    BY <2>1, <2>2 DEF Commit, Abort
  <2>3. CASE TxIndex(ledger, id) # 0
    <3>1. /\ TxIndex(ledger, id) \in 1..Len(ledger.txs)
          /\ ledger.txs[TxIndex(ledger, id)].id \in 1..MaxSeq
      BY <1>1, <2>1, <2>3, TxIndexMatches
    <3>2. /\ {"committed", "aborted"} \subseteq Statuses
          /\ {"ok", "denied"} \subseteq Results
      BY DEF Statuses, Results
    <3>3. /\ OrderedById(Close(ledger, TxIndex(ledger, id), "committed", "commit", "ok"))
          /\ OrderedById(Close(ledger, TxIndex(ledger, id), "aborted", "abort", "denied"))
      BY <1>1, <3>1, <3>2, CloseOrdered, OperationAssumption
    <3> QED
      BY <2>1, <2>3, <3>3 DEF Commit, Abort
  <2> QED
    BY <2>2, <2>3
<1>9. CASE SetCurrentEvent
  BY <1>1, <1>2, <1>9, SettersKeepOrder DEF SetCurrentEvent
<1>10. CASE SetCurrentTransaction
  BY <1>1, <1>10, SettersKeepOrder, CapacityAssumption DEF SetCurrentTransaction
<1>11. CASE UNCHANGED vars
  BY <1>11 DEF vars
<1> QED
  BY <1>3, <1>4, <1>5, <1>6, <1>7, <1>8, <1>9, <1>10, <1>11 DEF Next

\* The history of an object never runs backwards, whoever updates it
\* (event.c:135, object.c:76-93).
THEOREM RevisionsStayInOrder == Spec => []RevisionsInOrder
<1>1. Init => OrderedById(ledger)
  BY EmptyLedgerAgrees DEF Init
<1>2. TypeOK /\ OrderedById(ledger) /\ [Next]_vars => OrderedById(ledger')
  BY NextOrdered
<1>3. OrderedById(ledger) => RevisionsInOrder
  BY DEF OrderedById, RevisionsInOrder
<1>4. OrderedById(ledger)' <=> OrderedById(ledger')
  OBVIOUS
<1> QED
  BY LedgerTypeCorrect, <1>1, <1>2, <1>3, <1>4, PTL DEF Spec

\* Every action keeps the agreement.
LEMMA NextAgrees ==
  ASSUME BooksInvariant, Agreement(ledger), [Next]_vars
  PROVE  Agreement(ledger')
<1>1. /\ ledger \in LedgerType /\ Sound(ledger) /\ Books(ledger)
      /\ Consecutive(ledger)
      /\ ledger.next \in Nat \ {0} /\ ledger.objects \in Seq(Object)
      /\ ledger.current \in Nat
  BY DEF BooksInvariant, LedgerInvariant, TypeOK, LedgerType, Sound
<1>2. /\ \A state \in States : state \in ObjectStates
      /\ Causes \subseteq 0..(ledger.next - 1) /\ Causes \subseteq Nat
  BY <1>1 DEF ObjectStates, Causes
<1>3. Settled => ClosedIsPast(ledger)
  BY <1>1, SettledIsPast, SettledHere
<1>4. CASE EnterKernel
  <2> DEFINE m == Record(ledger, BootReport)
             c == SetCurrent(m, 1)
             n == Register(c, "events", 0, "recording", 1)
  <2>1. ledger' = n /\ DOMAIN ledger.txs = {}
    BY <1>4 DEF EnterKernel, EmptyLedger
  <2>2. m \in LedgerType /\ Agreement(m)
    <3>1. \A k \in DOMAIN ledger.txs : ledger.txs[k].status # "open" =>
            ledger.txs[k].id # ledger.tx /\ ledger.txs[k].end < ledger.next
      BY <2>1
    <3> QED
      BY <1>1, <3>1, BootReportType, RecordType, RecordAgrees
  <2> HIDE DEF m
  <2>3. c \in LedgerType /\ SameBooks(m, c) /\ c.objects = m.objects
    BY <2>2, SetTxType, SettersKeepBooks DEF SetCurrent, LedgerType
  <2> HIDE DEF c
  <2>4. Agreement(c)
    BY <2>2, <2>3, SameAgreement
  <2>5. "events" \in Names /\ "recording" \in ObjectStates
    BY NameAssumption DEF ObjectStates
  <2>6. Agreement(n)
    BY <2>3, <2>4, <2>5, RegisterAgrees
  <2> QED
    BY <2>1, <2>6
<1>5. CASE RecordEvent
  <2>1. PICK said \in Reports, parent \in Causes :
          ledger' = Record(ledger, Report(said.actor, said.target, said.op,
                                          said.result, parent, said.kind))
    BY <1>5 DEF RecordEvent
  <2>2. /\ said.actor \in Labels /\ said.target \in Labels
        /\ said.op \in Operations /\ said.result \in Results
        /\ said.kind \in Kinds /\ parent \in Nat
    BY <1>2, CallerAssumption
  <2>3. Report(said.actor, said.target, said.op, said.result, parent, said.kind)
          \in ReportType
    BY <2>2, ReportIsTyped, Zenon
  <2>4. ClosedIsPast(ledger)
    BY <1>3, <1>5 DEF RecordEvent
  <2> QED
    BY <1>1, <2>1, <2>3, <2>4, RecordAgrees DEF ClosedIsPast
<1>6. CASE RegisterObject
  <2>1. ObjectId(ledger, "events") \in Nat
    BY <1>1, ObjectIdType
  <2>2. PICK name \in Names, state \in States :
          ledger' = Register(ledger, name, ObjectId(ledger, "events"), state,
                             ledger.current)
    BY <1>6 DEF RegisterObject
  <2> QED
    BY <1>1, <1>2, <2>1, <2>2, RegisterAgrees
<1>7. CASE UpdateObject
  BY <1>1, <1>2, <1>3, <1>7, UpdateStateAgrees DEF UpdateObject
<1>8. CASE BeginTransaction
  <2>1. PICK owner \in Owners, parent \in Causes :
          ledger' = Begin(ledger, owner.actor, owner.target, parent)
    BY <1>8 DEF BeginTransaction
  <2>2. /\ owner.actor \in Labels /\ owner.target \in Labels
        /\ parent \in 0..(ledger.next - 1)
    BY <1>2, CallerAssumption
  <2>3. ledger.next \in 1..MaxSeq
    BY <1>1, <1>8, CapacityAssumption DEF BeginTransaction, InRange
  <2> QED
    BY <1>1, <2>1, <2>2, <2>3, BeginAgrees
<1>9. CASE CommitTransaction
  BY <1>1, <1>9, CloseActionsAgree, SettledHere DEF CommitTransaction
<1>10. CASE AbortTransaction
  BY <1>1, <1>10, CloseActionsAgree, SettledHere DEF AbortTransaction
<1>11. CASE SetCurrentEvent \/ SetCurrentTransaction
  <2>1. SameBooks(ledger, ledger')
    BY <1>1, <1>11, SettersKeepBooks DEF SetCurrentEvent, SetCurrentTransaction
  <2>2. ledger'.objects = ledger.objects
    BY <1>1, <1>11 DEF SetCurrentEvent, SetCurrentTransaction, SetCurrent, SetTx,
                       LedgerType
  <2> QED
    BY <2>1, <2>2, SameAgreement
<1>12. CASE UNCHANGED vars
  BY <1>12 DEF vars
<1> QED
  BY <1>4, <1>5, <1>6, <1>7, <1>8, <1>9, <1>10, <1>11, <1>12 DEF Next

\* The ring, the transaction table and the registry tell the same story of a
\* closed transaction (event.c:183-223).
THEOREM ClosedTransactionsAlwaysAgree == Spec => []ClosedTransactionsAgree
<1>1. Init => Agreement(ledger)
  BY EmptyLedgerAgrees DEF Init
<1>2. BooksInvariant /\ Agreement(ledger) /\ [Next]_vars => Agreement(ledger')
  BY NextAgrees
<1>3. Agreement(ledger) => ClosedTransactionsAgree
  BY DEF Agreement, ClosedTransactionsAgree
<1>4. Agreement(ledger)' <=> Agreement(ledger')
  OBVIOUS
<1> QED
  BY BooksInvariantHolds, <1>1, <1>2, <1>3, <1>4, PTL DEF Spec
=============================================================================
