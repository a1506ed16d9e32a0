-------------------------- MODULE TruthShellProofs --------------------------
(***************************************************************************)
(* Proofs about the boot sequence and the shell of TruthShell.tla, from    *)
(* what LedgerApiProofs says of each call they compose.                    *)
(*                                                                         *)
(* The inductive invariant is ShellInvariant: the ledger is sound and has  *)
(* open what the shell has begun, and the policy and the store agree with  *)
(* the objects that show them.  CauseInvariant adds what is known of the   *)
(* causes of the events since the shell was ready.                         *)
(***************************************************************************)
EXTENDS TruthShell, LedgerApiProofs

(***************************************************************************)
(* What a command does between its begin and its end.                      *)
(***************************************************************************)
\* Events that tell of an effect or of a query, and the decision that allows one.
Effect(event) == \/ event.kind \in {"state", "query"}
                 \/ event.kind = "policy" /\ event.op # "policy_check"
Allows(decision, target) ==
  decision.op = "policy_check" /\ decision.result = "ok" /\ decision.target = target

\* The event of that number, if it is retained, allows effects on that target.
Decided(l, seq, target) == \A event \in Seen(l) : event.seq = seq => Allows(event, target)

\* Objects no command registers: the keys, and what is registered already.
Lasts(l, name) == name \in Names /\ (name \in DOMAIN FirstConfig \/ Revision(l, name) # 0)

\* Calls under the transaction in force that change no named object but those,
\* journal their revisions, and record events caused by what the command had done
\* before, the effects among them by a decision that allows them.
Does(l, m, changed, command) ==
  /\ Fit(m) /\ TableStands(l, m)
  /\ changed = {} => Quiet(l, m)
  /\ \A name : Lasts(l, name) => Spans(l, m, name)
  /\ m.tx = l.tx /\ OpenIds(m) = OpenIds(l) /\ l.next =< m.next
  /\ \A name \in Names \ changed : Shown(m, name) = Shown(l, name)
  /\ \A event \in Seen(m) \ Seen(l) :
       /\ event.seq \in l.next..(m.next - 1) /\ event.tx = l.tx
       /\ event.kind # "command"
       /\ event.op # "exception" =>
            event.parent \in {l.current, command} \cup l.next..(event.seq - 1)
       /\ Effect(event) => /\ event.op # "exception"
                           /\ Decided(m, event.parent, event.target)

\* Recorded numbers are below the next.
LEMMA SeenIsPast ==
  ASSUME NEW l, Whole(l), NEW event \in Seen(l)
  PROVE  event.seq \in Nat /\ event.seq < l.next
<1>1. l \in LedgerType /\ Consecutive(l)
  BY DEF Whole, Sound
<1> QED
  BY <1>1, RetainedIsPast DEF Seen

\* What a number was decided to allow is not undone by events of other numbers.
LEMMA DecidedStays ==
  ASSUME NEW l, NEW m, NEW seq, NEW target, Decided(l, seq, target),
         \A event \in Seen(m) \ Seen(l) : event.seq # seq
  PROVE  Decided(m, seq, target)
BY DEF Decided

\* Doing nothing.
LEMMA DoesNothing ==
  ASSUME NEW l, Fit(l), NEW command
  PROVE  Does(l, l, {}, command)
<1>1. l.next =< l.next /\ TableStands(l, l) /\ Quiet(l, l)
  BY SameTableStands DEF Fit, Whole, LedgerType, Quiet
<1>2. \A name : Spans(l, l, name)
  BY <1>1, QuietSpans DEF Fit, Whole
<1> QED
  BY <1>1, <1>2 DEF Does

\* The events of such calls come later.
LEMMA DoesIsLater ==
  ASSUME NEW l, Whole(l), NEW m, NEW changed, NEW command, Does(l, m, changed, command)
  PROVE  Later(l, m)
BY DEF Does, Later, Whole, Fit, LedgerType

\* What lasts goes on lasting.
LEMMA LastsOn ==
  ASSUME NEW l, Whole(l), NEW m, NEW changed, NEW command, Does(l, m, changed, command),
         NEW name, Lasts(l, name)
  PROVE  Lasts(m, name)
<1>1. PICK updates : Counts(l, m, name, updates)
  BY DEF Does, Spans
<1>2. l.next \in Nat /\ m.next \in Nat
  BY DoesIsLater DEF Later
<1>3. Cardinality(updates) \in Nat
  BY <1>1, <1>2, NumbersAreFinite DEF Counts
<1>4. Revision(l, name) \in Nat
  BY RevisionIsFound DEF Whole
<1>5. Revision(m, name) = Revision(l, name) + Cardinality(updates)
  BY <1>1 DEF Counts
<1> HIDE DEF Lasts
<1>6. Revision(l, name) # 0 => Revision(m, name) # 0
  BY <1>3, <1>4, <1>5
<1> QED
  BY <1>6 DEF Lasts

\* One call more, whose events have causes no older than the command.
Follows(l, k, command, event) ==
  /\ event.kind # "command"
  /\ event.op # "exception" =>
       event.parent \in {l.current, command} \cup l.next..(k.next - 1)
  /\ Effect(event) => event.op # "exception" /\ Decided(k, event.parent, event.target)

LEMMA DoesMore ==
  ASSUME NEW l, NEW k, NEW m, NEW changed, NEW more, NEW command,
         Whole(l), Does(l, k, changed, command), Goes(k, m, more),
         command \in 0..(l.next - 1), more = {} => Quiet(k, m),
         \A name : Lasts(k, name) => Spans(k, m, name),
         \A event \in Seen(m) \ Seen(k) : Follows(l, k, command, event)
  PROVE  Does(l, m, changed \cup more, command)
<1>1. /\ Fit(k) /\ Whole(k) /\ l.next \in Nat /\ k.next \in Nat /\ m.next \in Nat
      /\ l.current \in Nat /\ l.current < l.next /\ l.next =< k.next /\ k.next =< m.next
  BY DEF Does, Goes, Fit, Whole, LedgerType, Sound, Recorded
<1>2. \A event \in Seen(m) \ Seen(k) :
        event.seq \in k.next..(m.next - 1) /\ event.tx = k.tx
  BY DEF Goes
<1>3. l.next =< m.next
  BY <1>1
<1>4. ASSUME NEW event \in Seen(m) \ Seen(l)
      PROVE  /\ event.seq \in l.next..(m.next - 1) /\ event.tx = l.tx
             /\ event.kind # "command"
             /\ event.op # "exception" =>
                  event.parent \in {l.current, command} \cup l.next..(event.seq - 1)
             /\ Effect(event) => /\ event.op # "exception"
                                 /\ Decided(m, event.parent, event.target)
  <2>1. CASE event \in Seen(k)
    <3>1. /\ event.seq \in l.next..(k.next - 1) /\ event.tx = l.tx
          /\ event.kind # "command"
          /\ event.op # "exception" =>
               event.parent \in {l.current, command} \cup l.next..(event.seq - 1)
          /\ Effect(event) => /\ event.op # "exception"
                              /\ Decided(k, event.parent, event.target)
      BY <1>4, <2>1 DEF Does
    <3>2. event.seq \in l.next..(m.next - 1)
      BY <1>1, <3>1
    <3>3. ASSUME Effect(event)
          PROVE  Decided(m, event.parent, event.target)
      <4>1. event.parent \in {l.current, command} \cup l.next..(event.seq - 1)
        BY <3>1, <3>3
      <4>2. event.parent \notin k.next..(m.next - 1)
        BY <1>1, <3>1, <4>1
      <4>3. \A later \in Seen(m) \ Seen(k) : later.seq # event.parent
        BY <1>2, <4>2
      <4> QED
        BY <3>1, <3>3, <4>3, DecidedStays
    <3> QED
      BY <3>1, <3>2, <3>3
  <2>2. CASE event \notin Seen(k)
    <3>1. Follows(l, k, command, event) /\ event.seq \in k.next..(m.next - 1) /\ event.tx = k.tx
      BY <1>2, <1>4, <2>2
    <3>2. event.seq \in l.next..(m.next - 1)
      BY <1>1, <3>1
    <3>3. event.op # "exception" =>
            event.parent \in {l.current, command} \cup l.next..(event.seq - 1)
      BY <1>1, <3>1 DEF Follows
    <3>4. ASSUME Effect(event)
          PROVE  event.op # "exception" /\ Decided(m, event.parent, event.target)
      <4>1. event.op # "exception" /\ Decided(k, event.parent, event.target)
        BY <3>1, <3>4 DEF Follows
      <4>2. event.parent \notin k.next..(m.next - 1)
        BY <1>1, <3>1, <4>1 DEF Follows
      <4>3. \A later \in Seen(m) \ Seen(k) : later.seq # event.parent
        BY <1>2, <4>2
      <4> QED
        BY <4>1, <4>3, DecidedStays
    <3>5. event.tx = l.tx /\ event.kind # "command"
      BY <3>1 DEF Does, Follows
    <3> QED
      BY <3>2, <3>3, <3>4, <3>5
  <2> QED
    BY <2>1, <2>2
<1>5. /\ Fit(m) /\ m.tx = l.tx /\ OpenIds(m) = OpenIds(l)
      /\ \A name \in Names \ (changed \cup more) : Shown(m, name) = Shown(l, name)
  BY DEF Does, Goes
<1>6. TableStands(l, m)
  BY DEF Does, Goes, TableStands, Stands
<1>7. ASSUME changed \cup more = {}
      PROVE  Quiet(l, m)
  <2>1. Quiet(l, k) /\ Quiet(k, m)
    BY <1>7 DEF Does
  <2> QED
    BY <2>1, QuietOn
<1>8. ASSUME NEW name, Lasts(l, name)
      PROVE  Spans(l, m, name)
  <2>1. Later(l, k) /\ Later(k, m) /\ l \in LedgerType /\ k \in LedgerType
    BY <1>1, DoesIsLater, GoesIsLater DEF Whole
  <2>2. Spans(l, k, name) /\ Spans(k, m, name)
    BY <1>8, LastsOn DEF Does
  <2> QED
    BY <2>1, <2>2, SpansOn
<1> QED
  BY <1>3, <1>4, <1>5, <1>6, <1>7, <1>8 DEF Does

\* One event more.
LEMMA DoesRecord ==
  ASSUME NEW l, NEW k, NEW changed, NEW command, NEW report,
         Whole(l), Does(l, k, changed, command), report \in ReportType,
         command \in 0..(l.next - 1), report.parent \in 0..(k.next - 1),
         Follows(l, k, command, report), report.op # "state_update"
  PROVE  /\ Does(l, Record(k, report), changed, command)
         /\ Record(k, report).current = k.current
         /\ Record(k, report).next = k.next + 1
<1> DEFINE m == Record(k, report)
<1>1. /\ Fit(k) /\ l.next \in Nat /\ k.next \in Nat /\ l.current \in Nat
      /\ l.current < l.next /\ l.next =< k.next
  BY DEF Does, Fit, Whole, LedgerType, Sound, Recorded
<1>2. Records(k, m, report)
  BY <1>1, RecordGoes
<1> HIDE DEF m
<1>4. /\ Goes(k, m, {}) /\ m.current = k.current /\ m.next = k.next + 1
      /\ \A event \in Seen(m) \ Seen(k) : event.seq = k.next /\ Tells(event, report)
  BY <1>2 DEF Records, Goes
<1>5. \A event \in Seen(m) \ Seen(k) : Follows(l, k, command, event)
  BY <1>4 DEF Tells, Follows, Effect
<1>8. Quiet(k, m) /\ \A name : Spans(k, m, name)
  BY <1>1, <1>2, RecordIsQuiet, QuietSpans DEF Fit, Whole
<1>6. Does(l, m, changed \cup {}, command)
  BY <1>4, <1>5, <1>8, DoesMore
<1>7. changed \cup {} = changed
  OBVIOUS
<1> QED
  BY <1>4, <1>6, <1>7 DEF m

\* An event more leaves what other numbers allow.
LEMMA RecordKeepsDecided ==
  ASSUME NEW k, NEW report, NEW seq, NEW target, Whole(k), report \in ReportType,
         seq # k.next, Decided(k, seq, target)
  PROVE  Decided(Record(k, report), seq, target)
<1>1. k \in LedgerType
  BY DEF Whole
<1>2. \A event \in Seen(Record(k, report)) \ Seen(k) : event.seq = k.next
  BY <1>1, RecordSeen
<1> QED
  BY <1>2, DecidedStays

\* One object of a caller changed, by an event of the decision in force.
LEMMA DoesUpdate ==
  ASSUME NEW l, NEW k, NEW changed, NEW command, NEW name, NEW state,
         Whole(l), Does(l, k, changed, command), name \in Names, state \in States,
         command \in 0..(l.next - 1), k.current \in l.next..(k.next - 1),
         Decided(k, k.current, name)
  PROVE  /\ Does(l, UpdateState(k, name, state), changed \cup {name}, command)
         /\ UpdateState(k, name, state).current = k.current
         /\ k.next =< UpdateState(k, name, state).next
         /\ Updates(k, UpdateState(k, name, state), name, state)
<1> DEFINE m == UpdateState(k, name, state)
           report == Report("object", name, "state_update", "ok", k.current, "state")
<1>1. Fit(k)
  BY DEF Does
<1>2. Updates(k, m, name, state)
  BY <1>1, UpdateGoes
<1> HIDE DEF m
<1>3. /\ Goes(k, m, {name}) /\ m.current = k.current /\ k.next =< m.next
      /\ \A event \in Seen(m) \ Seen(k) : Tells(event, report)
  BY <1>2 DEF Updates, Goes
<1>4. \A event \in Seen(m) \ Seen(k) :
        /\ event.parent = k.current /\ event.kind = "state" /\ event.op = "state_update"
        /\ event.target = name
  BY <1>3 DEF Tells, Report
<1>5. \A event \in Seen(m) \ Seen(k) : Follows(l, k, command, event)
  BY <1>4 DEF Follows
<1>7. \A other : Lasts(k, other) => Spans(k, m, other)
  BY <1>1, <1>2, UpdateSpans DEF Fit, Lasts
<1>6. Does(l, m, changed \cup {name}, command)
  BY <1>3, <1>5, <1>7, DoesMore
<1> QED
  BY <1>2, <1>3, <1>6 DEF m

\* One object more.
LEMMA DoesRegister ==
  ASSUME NEW l, NEW k, NEW changed, NEW command, NEW name, NEW parent \in Nat,
         NEW state, NEW created \in Nat,
         Whole(l), Does(l, k, changed, command), name \in Names \ DOMAIN FirstConfig,
         state \in States, command \in 0..(l.next - 1)
  PROVE  LET m == Register(k, name, parent, state, created)
         IN  /\ Does(l, m, changed \cup {name}, command)
             /\ m.current = k.current /\ m.next = k.next /\ Seen(m) = Seen(k)
             /\ Registers(k, m, name, state)
<1> DEFINE m == Register(k, name, parent, state, created)
<1>1. Fit(k)
  BY DEF Does
<1>2. Registers(k, m, name, state)
  BY <1>1, RegisterGoes
<1> HIDE DEF m
<1>3. Goes(k, m, {name}) /\ m.current = k.current /\ m.next = k.next /\ Seen(m) = Seen(k)
  BY <1>2 DEF Registers, Goes
<1>4. \A event \in Seen(m) \ Seen(k) : Follows(l, k, command, event)
  BY <1>3
<1>6. ASSUME NEW other, Lasts(k, other)
      PROVE  Spans(k, m, other)
  <2>1. Whole(k) /\ other \in Names
    BY <1>1, <1>6 DEF Fit, Lasts
  <2>2. other # name \/ Shown(k, other) # {}
    BY <1>6, <2>1, RevisionIsShown DEF Lasts
  <2> QED
    BY <1>2, <2>1, <2>2, RegisterSpans
<1>5. Does(l, m, changed \cup {name}, command)
  BY <1>3, <1>4, <1>6, DoesMore
<1> QED
  BY <1>2, <1>3, <1>5 DEF m

\* Another current event.
LEMMA DoesSetCurrent ==
  ASSUME NEW l, NEW k, NEW changed, NEW command, NEW event, Whole(l),
         Does(l, k, changed, command), event \in 0..(k.next - 1)
  PROVE  LET m == SetCurrent(k, event)
         IN  /\ Does(l, m, changed, command)
             /\ m.current = event /\ m.next = k.next /\ Seen(m) = Seen(k)
             /\ \A name : Shown(m, name) = Shown(k, name)
<1> DEFINE m == SetCurrent(k, event)
<1>1. Fit(k) /\ Whole(k)
  BY DEF Does, Fit
<1>2. Sets(k, m, event, k.tx)
  BY <1>1, SetCurrentSets
<1> HIDE DEF m
<1>3. /\ Whole(m) /\ m.current = event /\ m.tx = k.tx /\ m.next = k.next
      /\ OpenIds(m) = OpenIds(k) /\ Seen(m) = Seen(k)
      /\ \A name : Shown(m, name) = Shown(k, name)
  BY <1>2 DEF Sets
<1>4. Fit(m)
  BY <1>1, <1>3, FitIsSettled
<1>5. \A seq, target : Decided(k, seq, target) => Decided(m, seq, target)
  BY <1>3 DEF Decided
<1>6. Quiet(k, m) /\ m.txs = k.txs
  BY <1>2, SetsIsQuiet DEF Sets
<1>7. TableStands(l, m) /\ (changed = {} => Quiet(l, m))
  BY <1>6, QuietOn DEF Does, TableStands
<1>8. ASSUME NEW name, Lasts(l, name)
      PROVE  Spans(l, m, name)
  <2>1. l \in LedgerType /\ k \in LedgerType /\ Later(l, k) /\ Spans(l, k, name)
    BY <1>1, <1>8, DoesIsLater DEF Does, Whole
  <2>2. Later(k, m)
    BY <1>1, <1>3, <2>1 DEF Later
  <2>3. Spans(k, m, name)
    BY <1>6, <2>1, QuietSpans
  <2> QED
    BY <2>1, <2>2, <2>3, SpansOn
<1> QED
  BY <1>3, <1>4, <1>5, <1>7, <1>8 DEF Does, m

(***************************************************************************)
(* The bodies of the commands.                                             *)
(***************************************************************************)
\* Words the bodies report with are typed.
LEMMA WordsAreTyped ==
  /\ Names \subseteq Labels
  /\ {"shell", "config", "ramfs", "memory", "kernel", "window", "cpu", "system", "boot",
      "interrupts", "scheduler", "heap", "page_allocator", "/config", "policy",
      ThePolicy} \subseteq Labels
  /\ {"ok", "denied", "fault"} \subseteq Results
  /\ {"action", "state", "query", "command", "policy"} \subseteq Kinds
  /\ Names \subseteq ObjectNames /\ States \subseteq ObjectStates
BY BootWordAssumption, PolicyWordAssumption DEF Labels, ObjectNames, ObjectStates, Results, Kinds

\* policy_check: an event, after which effects on the target are allowed if the
\* policy permits them.
LEMMA DoesCheck ==
  ASSUME NEW l, NEW k, NEW changed, NEW command, NEW target, NEW operation,
         Whole(l), Does(l, k, changed, command), k.current = l.current,
         target \in Labels, command \in 0..(l.next - 1)
  PROVE  /\ Does(l, Check(k, target, operation), changed, command)
         /\ Check(k, target, operation).current = k.current
         /\ Check(k, target, operation).next = k.next + 1
         /\ Permitted(target, operation) =>
              Decided(Check(k, target, operation), k.next, target)
<1> DEFINE result == IF Allowed(policy, "shell", target, operation) THEN "ok" ELSE "denied"
           report == Report("shell", target, "policy_check", result, k.current, "policy")
           m == Record(k, report)
<1>1. /\ Fit(k) /\ Whole(k) /\ l.next \in Nat /\ k.next \in Nat
      /\ k.current \in Nat /\ k.current < k.next
  BY DEF Does, Fit, Whole, LedgerType, Sound, Recorded
<1>2. result \in Results
  BY WordsAreTyped
<1> HIDE DEF result
<1>3. report \in ReportType
  BY <1>1, <1>2, WordsAreTyped, PolicyWordAssumption, ReportIsTyped
<1>4. Check(k, target, operation) = m
  BY DEF Check, PolicyCheck, result
<1>5. /\ report.kind = "policy" /\ report.op = "policy_check" /\ report.parent = k.current
      /\ report.target = target /\ report.result = result
  BY DEF Report
<1>6. report.parent \in 0..(k.next - 1)
  BY <1>1, <1>5
<1> HIDE DEF report
<1>12. report.op # "state_update"
  BY <1>5
<1>7. Follows(l, k, command, report)
  BY <1>5 DEF Follows, Effect
<1>8. /\ Does(l, m, changed, command) /\ m.current = k.current /\ m.next = k.next + 1
  <2>1. Does(l, m, changed, command)
    BY <1>3, <1>6, <1>7, <1>12, DoesRecord
  <2>2. m.current = k.current /\ m.next = k.next + 1
    BY <1>1, RecordFrame DEF Whole
  <2> QED
    BY <2>1, <2>2
<1>9. Records(k, m, report)
  BY <1>1, <1>3, <1>6, RecordGoes
<1> HIDE DEF m
<1>10. ASSUME Permitted(target, operation), NEW event \in Seen(m), event.seq = k.next
       PROVE  Allows(event, target)
  <2>1. event \notin Seen(k)
    BY <1>1, <1>10, SeenIsPast
  <2>2. Tells(event, report)
    BY <1>9, <1>10, <2>1 DEF Records
  <2>3. result = "ok"
    BY <1>10 DEF Permitted, result
  <2> QED
    BY <1>5, <2>2, <2>3 DEF Tells, Allows
<1>11. Permitted(target, operation) => Decided(m, k.next, target)
  BY <1>10 DEF Decided
<1> QED
  BY <1>4, <1>8, <1>11

\* One effect, recorded as caused by a decision that allows it.
LEMMA DoesEffect ==
  ASSUME NEW l, NEW k, NEW changed, NEW command, NEW decision, NEW actor, NEW target,
         NEW op, NEW result, NEW kind,
         Whole(l), Does(l, k, changed, command), command \in 0..(l.next - 1),
         decision \in l.next..(k.next - 1), Decided(k, decision, target),
         actor \in Labels, target \in Labels, op \in Operations,
         op \notin {"exception", "state_update"},
         result \in Results, kind \in Kinds, kind # "command"
  PROVE  LET m == Record(k, Report(actor, target, op, result, decision, kind))
         IN  /\ Does(l, m, changed, command)
             /\ m.current = k.current /\ m.next = k.next + 1
             /\ Decided(m, decision, target)
<1> DEFINE report == Report(actor, target, op, result, decision, kind)
           m == Record(k, report)
<1>1. /\ l.next \in Nat /\ k.next \in Nat /\ decision \in Nat /\ decision # k.next
  BY DEF Does, Fit, Whole, LedgerType
<1>2. report \in ReportType
  BY <1>1, ReportIsTyped, Zenon
<1>3. /\ report.kind = kind /\ report.op = op /\ report.parent = decision
      /\ report.target = target
  BY DEF Report
<1> HIDE DEF report
<1>4. Follows(l, k, command, report)
  BY <1>3 DEF Follows
<1>5. /\ Does(l, m, changed, command) /\ m.current = k.current /\ m.next = k.next + 1
  <2>1. k.next \in Nat
    BY DEF Does, Fit, Whole, LedgerType
  <2>2. report.parent \in 0..(k.next - 1)
    BY <1>1, <1>3, <2>1
  <2>3. report.op # "state_update"
    BY <1>3
  <2> QED
    BY <1>2, <1>4, <2>2, <2>3, DoesRecord
<1>6. Whole(k)
  BY DEF Does, Fit
<1>7. Decided(m, decision, target)
  BY <1>1, <1>2, <1>6, RecordKeepsDecided
<1> QED
  BY <1>5, <1>7 DEF m, report

\* A check and, if it allows, its effect.
LEMMA DoesChecked ==
  ASSUME NEW l, NEW k, NEW changed, NEW command, NEW target, NEW operation, NEW actor,
         NEW op, NEW kind,
         Whole(l), Does(l, k, changed, command), k.current = l.current,
         command \in 0..(l.next - 1),
         target \in Labels, actor \in Labels, op \in Operations,
         op \notin {"exception", "state_update"}, kind \in {"state", "query"}
  PROVE  /\ Does(l, Checked(k, target, operation, actor, op, kind), changed, command)
         /\ Checked(k, target, operation, actor, op, kind).current = k.current
<1> DEFINE decided == Check(k, target, operation)
           m == Record(decided, Report(actor, target, op, "ok", k.next, kind))
<1>1. /\ Does(l, decided, changed, command) /\ decided.current = k.current
      /\ decided.next = k.next + 1
      /\ Permitted(target, operation) => Decided(decided, k.next, target)
  <2>1. /\ Does(l, decided, changed, command) /\ decided.current = k.current
        /\ decided.next = k.next + 1
    BY DoesCheck
  <2>2. Permitted(target, operation) => Decided(decided, k.next, target)
    BY DoesCheck
  <2> QED
    BY <2>1, <2>2
<1>2. Checked(k, target, operation, actor, op, kind)
        = IF Permitted(target, operation) THEN m ELSE decided
  BY DEF Checked
<1> HIDE DEF decided
<1>3. l.next \in Nat /\ k.next \in Nat /\ l.next =< k.next
  BY DEF Does, Fit, Whole, LedgerType
<1>4. k.next \in l.next..(decided.next - 1)
  BY <1>1, <1>3
<1>5. "ok" \in Results /\ kind \in Kinds /\ kind # "command"
  BY WordsAreTyped
<1>6. ASSUME Permitted(target, operation)
      PROVE  Does(l, m, changed, command) /\ m.current = decided.current
  <2>1. Decided(decided, k.next, target)
    BY <1>1, <1>6
  <2>2. Does(l, m, changed, command)
    BY <1>1, <1>4, <1>5, <2>1, DoesEffect
  <2>3. m.current = decided.current
    BY <1>1, RecordFrame DEF Does, Fit, Whole
  <2> QED
    BY <2>2, <2>3
<1> HIDE DEF m
<1> QED
  BY <1>1, <1>2, <1>6

(***************************************************************************)
(* The inductive invariant of the shell.                                   *)
(***************************************************************************)
\* Between commands no transaction is open and events are caused by the boot.
Idle(l) == l.tx = 0 /\ l.current = 1 /\ OpenIds(l) = {}

\* In a command they are caused by its begin event, or by the command itself if
\* the table of transactions had no room, and its transaction alone is open.
Busy(l, turn) ==
  /\ l.tx = turn.tx /\ OpenIds(l) = {turn.tx} \ {0}
  /\ l.current = IF turn.tx = 0 THEN turn.event ELSE turn.tx
  /\ turn.event \in 1..(l.next - 1)
  /\ turn.tx # 0 => turn.event < turn.tx

LedgerPart ==
  /\ phase = "enter" => ledger = EmptyLedger
  /\ phase # "enter" => Whole(ledger) /\ 1 < ledger.next /\ Shown(ledger, "shell") # {}
  /\ phase \in (BootPhases \ {"enter"}) \cup {"prompt", "panicked"} => Idle(ledger)
  /\ phase \in {"execute", "finish"} => Busy(ledger, job)
  /\ phase = "policy" =>
       ledger.next = 2 /\ Len(ledger.objects) =< 7 /\ Shown(ledger, ThePolicy) = {}

PolicyPart ==
  IF phase \in {"enter", "policy"}
  THEN policy = [rules |-> << >>, revision |-> 0]
  ELSE /\ policy \in [rules : Seq(Rules), revision : Nat]
       /\ Len(policy.rules) \in Len(BaseRules)..RuleCap
       /\ policy.revision = BaseRevision + (Len(policy.rules) - Len(BaseRules))
       /\ Shown(ledger, ThePolicy) # {}
       /\ \A object \in Shown(ledger, ThePolicy) :
            object.rev = policy.revision - BaseRevision + 2

\* What the objects of the keys show, if they are registered.
ConfigPart ==
  /\ config \in [DOMAIN FirstConfig -> States]
  /\ phase \in BootPhases => config = FirstConfig
  /\ \A key \in DOMAIN FirstConfig : \A object \in Shown(ledger, key) :
       /\ object.state = config[key] /\ object.rev \in Nat \ {0}
       /\ object.rev = 1 => config[key] = FirstConfig[key]

ShellPart ==
  /\ phase \in BootPhases \cup {"prompt", "execute", "finish", "panicked", "halted"}
  /\ job \in [line : Lines \cup {NoLine}, tx : Nat, event : Nat, ok : BOOLEAN]
  /\ phase = "execute" => job.line \in Lines

ShellInvariant == LedgerPart /\ PolicyPart /\ ConfigPart /\ ShellPart

(***************************************************************************)
(* The boot.                                                               *)
(***************************************************************************)
\* The calls of the boot, one by one.
LEMMA GoesNowhere ==
  ASSUME NEW l, Fit(l), NEW changed
  PROVE  Goes(l, l, changed)
<1>1. l.next =< l.next /\ TableStands(l, l)
  BY SameTableStands DEF Fit, Whole, LedgerType
<1> QED
  BY <1>1 DEF Goes

LEMMA GoesFurther ==
  ASSUME NEW l, NEW k, NEW m, NEW changed, NEW more,
         Fit(l), Goes(l, k, changed), Goes(k, m, more), more \subseteq changed
  PROVE  Goes(l, m, changed)
<1>1. Goes(l, m, changed \cup more)
  BY GoesOn
<1>2. changed \cup more = changed
  OBVIOUS
<1> QED
  BY <1>1, <1>2

LEMMA GoesReport ==
  ASSUME NEW l, Fit(l), NEW k, NEW changed, Goes(l, k, changed),
         NEW actor \in Labels, NEW target \in Labels,
         NEW op \in Operations, NEW result \in Results, NEW kind \in Kinds
  PROVE  Goes(l, Record(k, Report(actor, target, op, result, l.current, kind)), changed)
<1> DEFINE report == Report(actor, target, op, result, l.current, kind)
           m == Record(k, report)
<1>1. /\ Fit(k) /\ k.current = l.current /\ k.current \in Nat /\ k.next \in Nat
      /\ k.current < k.next
  BY DEF Goes, Fit, Whole, LedgerType, Sound, Recorded
<1>2. report \in ReportType
  BY <1>1, ReportIsTyped
<1>3. report.parent \in 0..(k.next - 1)
  BY <1>1 DEF Report
<1> HIDE DEF report
<1>4. Goes(k, m, {})
  BY <1>1, <1>2, <1>3, RecordGoes DEF Records
<1> HIDE DEF m
<1>5. Goes(l, m, changed)
  BY <1>4, GoesFurther
<1> QED
  BY <1>5 DEF m, report

LEMMA GoesAnnounce ==
  ASSUME NEW l, Fit(l), NEW k, NEW changed, Goes(l, k, changed),
         NEW actor \in Labels, NEW target \in Labels,
         NEW op \in Operations, NEW result \in Results
  PROVE  Goes(l, Announce(k, actor, target, op, result), changed)
<1>1. k.current = l.current /\ "action" \in Kinds
  BY WordsAreTyped DEF Goes
<1>2. Goes(l, Record(k, Report(actor, target, op, result, l.current, "action")), changed)
  BY <1>1, GoesReport
<1> QED
  BY <1>1, <1>2 DEF Announce

LEMMA GoesUpdate ==
  ASSUME NEW l, Fit(l), NEW k, NEW changed, Goes(l, k, changed),
         NEW name \in Names, name \in changed, NEW state \in States
  PROVE  Goes(l, UpdateState(k, name, state), changed)
<1> DEFINE m == UpdateState(k, name, state)
<1>1. Fit(k)
  BY DEF Goes
<1>2. Goes(k, m, {name})
  BY <1>1, UpdateGoes DEF Updates
<1> HIDE DEF m
<1> QED
  BY <1>2, GoesFurther DEF m

LEMMA GoesRegister ==
  ASSUME NEW l, Fit(l), NEW k, NEW changed, Goes(l, k, changed),
         NEW name \in Names, name \in changed, NEW parent \in Nat, NEW state \in States,
         NEW created \in Nat
  PROVE  Goes(l, Register(k, name, parent, state, created), changed)
<1> DEFINE m == Register(k, name, parent, state, created)
<1>1. Fit(k)
  BY DEF Goes
<1>2. Goes(k, m, {name})
  BY <1>1, RegisterGoes DEF Registers
<1> HIDE DEF m
<1> QED
  BY <1>2, GoesFurther DEF m

LEMMA GoesRegisterAll ==
  ASSUME NEW l, Fit(l), NEW k, NEW changed, Goes(l, k, changed),
         NEW parent \in Nat, NEW objects, Objects(objects),
         NamesTo(objects, Len(objects)) \subseteq changed
  PROVE  Goes(l, RegisterAll(k, parent, objects), changed)
<1> DEFINE m == RegisterAll(k, parent, objects)
<1>1. Fit(k)
  BY DEF Goes
<1>2. Goes(k, m, NamesTo(objects, Len(objects)))
  BY <1>1, RegisterAllGoes DEF Placed
<1> HIDE DEF m
<1> QED
  BY <1>2, GoesFurther DEF m

\* What ids its caller reads from a ledger that calls left.
LEMMA GoesIds ==
  ASSUME NEW l, NEW k, NEW changed, Goes(l, k, changed)
  PROVE  /\ \A name : ObjectId(k, name) \in Nat
         /\ k.current \in Nat /\ k.next \in Nat
BY ObjectIdType DEF Goes, Fit, Whole, LedgerType

\* The objects of the keys are those there were, or new ones with the first values.
FirstShown(object, key) == object.state = FirstConfig[key] /\ object.rev = 1
KeysKept(l, m) ==
  \A key \in DOMAIN FirstConfig : \A object \in Shown(m, key) :
    object \in Shown(l, key) \/ FirstShown(object, key)

LEMMA KeysApart ==
  ASSUME NEW l, NEW m, NEW changed, Goes(l, m, changed), changed \cap DOMAIN FirstConfig = {}
  PROVE  KeysKept(l, m)
<1>1. DOMAIN FirstConfig \subseteq Names
  BY BootWordAssumption
<1>2. \A key \in DOMAIN FirstConfig : Shown(m, key) = Shown(l, key)
  BY <1>1 DEF Goes
<1>3. ASSUME NEW key \in DOMAIN FirstConfig, NEW object \in Shown(m, key)
      PROVE  object \in Shown(l, key)
  BY <1>2, <1>3
<1> QED
  BY <1>3 DEF KeysKept

\* What every step of the boot keeps.
BootKeeps == ShellInvariant' /\ (AllTally(ledger) => AllTally(ledger'))

\* A boot step after the policy is loaded.
LEMMA BootStep ==
  ASSUME ShellInvariant, phase \in BootPhases \ {"enter", "policy"},
         phase' \in (BootPhases \ {"enter", "policy"}) \cup {"prompt", "panicked"},
         NEW changed, Goes(ledger, ledger', changed),
         ThePolicy \notin changed, KeysKept(ledger, ledger'),
         Shown(ledger', "shell") # {},
         UNCHANGED <<policy, config, job>>
  PROVE  BootKeeps
<1>1. LedgerPart'
  <2>1. Whole(ledger') /\ 1 < ledger'.next
    <3>1. ledger.next \in Nat /\ ledger'.next \in Nat
      BY DEF Goes, Fit, Whole, LedgerType, ShellInvariant, LedgerPart
    <3>2. ledger.next =< ledger'.next /\ 1 < ledger.next
      BY DEF Goes, ShellInvariant, LedgerPart
    <3> QED
      BY <3>1, <3>2 DEF Goes, Fit
  <2>2. Idle(ledger)
    BY DEF ShellInvariant, LedgerPart
  <2>3. Idle(ledger')
    BY <2>2 DEF Goes, Idle
  <2>4. phase' \notin {"enter", "policy", "execute", "finish"}
    BY DEF BootPhases
  <2> QED
    BY <2>1, <2>3, <2>4 DEF LedgerPart
<1>2. PolicyPart'
  <2>1. ThePolicy \in Names
    BY PolicyWordAssumption
  <2>2. Shown(ledger', ThePolicy) = Shown(ledger, ThePolicy)
    BY <2>1 DEF Goes
  <2> QED
    BY <2>2 DEF ShellInvariant, PolicyPart
<1>3. ConfigPart'
  BY DEF ShellInvariant, ConfigPart, KeysKept, FirstShown
<1>4. ShellPart'
  BY DEF ShellInvariant, ShellPart, BootPhases
<1>5. AllTally(ledger) => AllTally(ledger')
  <2>1. Whole(ledger) /\ ledger.tx = 0
    BY DEF ShellInvariant, LedgerPart, Idle
  <2> QED
    BY <2>1, TallyGoes
<1> QED
  BY <1>1, <1>2, <1>3, <1>4, <1>5 DEF ShellInvariant, BootKeeps

\* Every boot step but the first runs outside transactions, with the shell's
\* object registered.
LEMMA BootFits ==
  ASSUME ShellInvariant, phase \in BootPhases \ {"enter"}
  PROVE  Fit(ledger)
<1>1. Whole(ledger) /\ ledger.tx = 0
  BY DEF ShellInvariant, LedgerPart, Idle
<1> QED
  BY <1>1, FitIsSettled

LEMMA ShellStays ==
  ASSUME ShellInvariant, phase # "enter", NEW m, NEW changed, Goes(ledger, m, changed),
         "shell" \notin changed
  PROVE  Shown(m, "shell") # {}
<1>1. "shell" \in Names
  BY BootWordAssumption
<1> QED
  BY <1>1 DEF Goes, ShellInvariant, LedgerPart

\* The two objects memory_init registers.
LEMMA MemoryGoes ==
  ASSUME NEW l, Fit(l)
  PROVE  Goes(l, RegisterMemory(l), {"page_allocator", "heap", "memory"})
<1> DEFINE objects == << <<"page_allocator", "initializing">>, <<"heap", "initializing">> >>
<1>1. Objects(objects)
  <2>1. Len(objects) = 2
    OBVIOUS
  <2>2. {"page_allocator", "heap"} \subseteq Names /\ "initializing" \in States
    BY BootWordAssumption
  <2>3. \A i \in 1..2 : objects[i][1] \in Names /\ objects[i][2] \in States
    BY <2>2
  <2> QED
    BY <2>1, <2>3 DEF Objects
<1>2. NamesTo(objects, Len(objects)) \subseteq {"page_allocator", "heap", "memory"}
  BY DEF NamesTo
<1> HIDE DEF objects
<1>3. ObjectId(l, "memory") \in Nat
  BY ObjectIdType DEF Fit, Whole, LedgerType
<1>4. Goes(l, RegisterAll(l, ObjectId(l, "memory"), objects),
           {"page_allocator", "heap", "memory"})
  BY <1>1, <1>2, <1>3, GoesNowhere, GoesRegisterAll
<1> QED
  BY <1>4 DEF RegisterMemory, objects

\* memory_init.
LEMMA StartMemoryStep ==
  ASSUME ShellInvariant, StartMemory
  PROVE  BootKeeps
<1> DEFINE l == ledger
           named == RegisterMemory(l)
           granted == Announce(named, "memory", "page_allocator", "allocate", "ok")
           first == UpdateState(granted, "page_allocator", "ready")
           ready == UpdateState(first, "heap", "ready")
           heap == Announce(ready, "memory", "heap", "allocate_pages", "ok")
           map == Announce(heap, "memory", "memory", "parse_multiboot", "ok")
           final == UpdateState(map, "memory", "ready")
           changed == {"page_allocator", "heap", "memory"}
<1>1. /\ ledger' = final /\ phase = "memory" /\ phase' = "ramfs"
      /\ UNCHANGED <<policy, config, job>>
  BY DEF StartMemory
<1>2. Fit(l)
  BY <1>1, BootFits DEF BootPhases
<1>3. /\ changed \subseteq Names /\ changed \subseteq Labels
      /\ "ready" \in States /\ "ok" \in Results
      /\ {"allocate", "allocate_pages", "parse_multiboot"} \subseteq Operations
  BY BootWordAssumption, WordsAreTyped
<1>4. "memory" \in changed /\ "heap" \in changed /\ "page_allocator" \in changed
  OBVIOUS
<1>5. /\ ThePolicy \notin changed /\ "shell" \notin changed
      /\ changed \cap DOMAIN FirstConfig = {}
  BY DEF ThePolicy, FirstConfig
<1>6. Goes(l, named, changed)
  BY <1>2, MemoryGoes
<1> HIDE DEF changed, named
<1>7. Goes(l, granted, changed)
  BY <1>2, <1>3, <1>4, <1>6, GoesAnnounce
<1> HIDE DEF granted
<1>8. Goes(l, first, changed)
  BY <1>2, <1>3, <1>4, <1>7, GoesUpdate
<1> HIDE DEF first
<1>9. Goes(l, ready, changed)
  BY <1>2, <1>3, <1>4, <1>8, GoesUpdate
<1> HIDE DEF ready
<1>10. Goes(l, heap, changed)
  BY <1>2, <1>3, <1>4, <1>9, GoesAnnounce
<1> HIDE DEF heap
<1>11. Goes(l, map, changed)
  BY <1>2, <1>3, <1>4, <1>10, GoesAnnounce
<1> HIDE DEF map
<1>12. Goes(l, final, changed)
  BY <1>2, <1>3, <1>4, <1>11, GoesUpdate
<1> HIDE DEF final
<1>13. phase \in BootPhases \ {"enter", "policy"} /\ phase' \in BootPhases \ {"enter", "policy"}
  BY <1>1 DEF BootPhases
<1>14. Shown(ledger', "shell") # {}
  BY <1>1, <1>5, <1>12, ShellStays
<1>15. KeysKept(ledger, ledger')
  BY <1>1, <1>5, <1>12, KeysApart
<1> QED
  BY <1>1, <1>5, <1>12, <1>13, <1>14, <1>15, BootStep

\* The first event and the first objects.
LEMMA EnterKernelStep ==
  ASSUME ShellInvariant, EnterKernel
  PROVE  BootKeeps
<1> DEFINE report == Report("boot", "kernel", "enter", "ok", ledger.current, "action")
           noted == Record(ledger, report)
           entered == SetCurrent(noted, 1)
           first == Register(entered, "system", 0, "booting", 1)
           objects == << <<"boot", "entered kernel">>, <<"memory", "initializing">>,
                         <<"interrupts", "pending">>, <<"ramfs", "pending">>,
                         <<"shell", "pending">>, <<"events", "recording">> >>
           final == RegisterAll(first, 1, objects)
<1>1. /\ phase = "enter" /\ phase' = "policy" /\ ledger' = final
      /\ UNCHANGED <<policy, config, job>>
  BY DEF EnterKernel, Announce
<1>2. ledger = EmptyLedger
  BY <1>1 DEF ShellInvariant, LedgerPart
<1>3. /\ Fit(ledger) /\ OpenIds(ledger) = {} /\ Seen(ledger) = {}
      /\ \A name : Shown(ledger, name) = {}
      /\ ledger.next = 1 /\ ledger.current = 0 /\ ledger.tx = 0
      /\ ledger.objects = << >>
  BY <1>2, EmptyLedgerFits DEF EmptyLedger
<1>4. report \in ReportType /\ report.parent \in 0..(ledger.next - 1)
  <2>1. "enter" \in Operations
    BY OperationAssumption
  <2>2. report \in ReportType
    BY <1>3, <2>1, WordsAreTyped, ReportIsTyped
  <2> QED
    BY <1>3, <2>2 DEF Report
<1> HIDE DEF report
<1>5. Records(ledger, noted, report)
  BY <1>3, <1>4, RecordGoes
<1>6. noted.objects = << >>
  BY <1>3, RecordFrame DEF Fit, Whole
<1> HIDE DEF noted
<1>7. /\ Whole(noted) /\ noted.next = 2 /\ noted.tx = 0 /\ OpenIds(noted) = {}
      /\ \A name \in Names : Shown(noted, name) = {}
  BY <1>3, <1>5 DEF Records, Goes, Fit
<1>8. Sets(noted, entered, 1, 0)
  BY <1>7, SetCurrentSets
<1>9. entered.objects = << >>
  BY <1>6 DEF SetCurrent
<1> HIDE DEF entered
<1>10. /\ Fit(entered) /\ entered.next = 2 /\ entered.tx = 0 /\ entered.current = 1
       /\ OpenIds(entered) = {} /\ \A name \in Names : Shown(entered, name) = {}
  BY <1>7, <1>8, FitIsSettled DEF Sets
<1>11. "system" \in Names /\ "booting" \in States
  BY BootWordAssumption
<1>12. Registers(entered, first, "system", "booting")
  BY <1>10, <1>11, RegisterGoes
<1>13. Len(first.objects) =< 1
  <2>1. entered \in LedgerType
    BY <1>10 DEF Fit, Whole
  <2>2. "system" \in ObjectNames /\ "booting" \in ObjectStates
    BY <1>11, WordsAreTyped
  <2>3. Len(first.objects) =< Len(entered.objects) + 1
    BY <2>1, <2>2, RegisterLengthens
  <2> QED
    BY <1>9, <2>3
<1> HIDE DEF first
<1> DEFINE names == {"boot", "memory", "interrupts", "ramfs", "shell", "events"}
           states == {"entered kernel", "initializing", "pending", "recording"}
<1>14. /\ Len(objects) = 6 /\ objects[5][1] = "shell"
       /\ \A i \in 1..6 : objects[i][1] \in names /\ objects[i][2] \in states
  <2>1. Len(objects) = 6
    OBVIOUS
  <2>2. /\ objects[1][1] = "boot" /\ objects[2][1] = "memory" /\ objects[3][1] = "interrupts"
        /\ objects[4][1] = "ramfs" /\ objects[5][1] = "shell" /\ objects[6][1] = "events"
    OBVIOUS
  <2>3. /\ objects[1][2] = "entered kernel" /\ objects[2][2] = "initializing"
        /\ objects[3][2] = "pending" /\ objects[4][2] = "pending"
        /\ objects[5][2] = "pending" /\ objects[6][2] = "recording"
    OBVIOUS
  <2> HIDE DEF objects
  <2>4. \A i \in {1, 2, 3, 4, 5, 6} : objects[i][1] \in names
    BY <2>2
  <2>5. \A i \in {1, 2, 3, 4, 5, 6} : objects[i][2] \in states
    BY <2>3
  <2> HIDE DEF names, states
  <2>9. 1..6 = {1, 2, 3, 4, 5, 6}
    OBVIOUS
  <2> QED
    BY <2>1, <2>2, <2>4, <2>5, <2>9
<1> HIDE DEF objects
<1>14a. names \subseteq Names /\ states \subseteq States
  BY BootWordAssumption, NameAssumption
<1> HIDE DEF names, states
<1>15. Objects(objects)
  BY <1>14, <1>14a DEF Objects
<1>15a. ThePolicy \notin NamesTo(objects, 6) /\ NamesTo(objects, 6) \cap DOMAIN FirstConfig = {}
  <2>1. NamesTo(objects, 6) \subseteq names
    BY <1>14 DEF NamesTo
  <2>2. ThePolicy \notin names /\ names \cap DOMAIN FirstConfig = {}
    BY DEF ThePolicy, FirstConfig, names
  <2> QED
    BY <2>1, <2>2
<1>16. Fit(first) /\ first.next = 2 /\ first.tx = 0 /\ first.current = 1 /\ OpenIds(first) = {}
  BY <1>10, <1>12 DEF Registers, Goes
<1>17. Placed(first, final, objects, 6)
  <2>1. Placed(first, final, objects, Len(objects))
    BY <1>15, <1>16, RegisterAllGoes
  <2> HIDE DEF final
  <2> QED
    BY <1>14, <2>1
<1> HIDE DEF final
<1>18. /\ Whole(final) /\ final.next = 2 /\ Idle(final)
  BY <1>16, <1>17 DEF Placed, Goes, Fit, Idle
<1>19. Len(final.objects) =< 7
  <2>1. Len(first.objects) \in Nat /\ Len(final.objects) \in Nat
    BY <1>16, <1>18 DEF Fit, Whole, LedgerType
  <2>2. Len(final.objects) =< Len(first.objects) + 6
    BY <1>17 DEF Placed
  <2> QED
    BY <1>13, <2>1, <2>2
<1>20. Shown(final, "shell") # {}
  <2>1. Len(first.objects) \in Nat /\ ObjCap \in Nat
    BY <1>16, CapacityAssumption DEF Fit, Whole, LedgerType
  <2>2. Len(first.objects) + 6 =< ObjCap
    BY <1>13, <2>1, BootCapacityAssumption
  <2>3. 5 \in 1..6
    OBVIOUS
  <2>4. Shown(final, objects[5][1]) # {}
    BY <1>17, <2>2, <2>3 DEF Placed
  <2> QED
    BY <1>14, <2>4
<1>21. ASSUME NEW name \in {ThePolicy} \cup DOMAIN FirstConfig
       PROVE  Shown(final, name) = {}
  <2>1. name \in Names /\ name # "system" /\ name \notin NamesTo(objects, 6)
    BY <1>15a, <1>21, PolicyWordAssumption, BootWordAssumption DEF ThePolicy, FirstConfig
  <2>2. Shown(first, name) = Shown(entered, name)
    BY <1>12, <2>1 DEF Registers, Goes
  <2>3. Shown(final, name) = Shown(first, name)
    BY <1>17, <2>1 DEF Placed, Goes
  <2> QED
    BY <1>10, <2>1, <2>2, <2>3
<1>22. LedgerPart'
  BY <1>1, <1>18, <1>19, <1>20, <1>21 DEF LedgerPart, BootPhases
<1>23. PolicyPart'
  BY <1>1 DEF ShellInvariant, PolicyPart
<1>24. ConfigPart'
  BY <1>1, <1>21 DEF ShellInvariant, ConfigPart, BootPhases
<1>25. ShellPart'
  BY <1>1 DEF ShellInvariant, ShellPart, BootPhases
<1>26. AllTally(final)
  <2>1. AllTally(ledger)
    BY <1>2 DEF AllTally, EmptyLedger
  <2>2. Whole(ledger) /\ Goes(ledger, noted, {})
    BY <1>3, <1>5 DEF Fit, Records
  <2>3. AllTally(noted)
    BY <1>3, <2>1, <2>2, TallyGoes
  <2>4. AllTally(entered)
    BY <1>8, <2>3, TallySets
  <2>5. Whole(entered) /\ Goes(entered, first, {"system"}) /\ Whole(first)
    BY <1>10, <1>12, <1>16 DEF Registers, Fit
  <2>6. AllTally(first)
    BY <1>10, <2>4, <2>5, TallyGoes
  <2> QED
    BY <1>16, <1>17, <2>5, <2>6, TallyGoes DEF Placed
<1> QED
  BY <1>1, <1>22, <1>23, <1>24, <1>25, <1>26 DEF ShellInvariant, BootKeeps

\* The files the image holds.
RamfsObjects ==
  << <<"/README.TXT", "read-only">>, <<"/modules/ABOUT.MOD", "read-only">>,
     <<"/modules/MEMORY.MOD", "read-only">>, <<"/bin/hello", "read-only">> >>

LEMMA RamfsObjectsAreFiles ==
  /\ Objects(RamfsObjects)
  /\ NamesTo(RamfsObjects, Len(RamfsObjects)) \subseteq Files
<1>1. Len(RamfsObjects) = 4
  BY DEF RamfsObjects
<1>2. \A i \in {1, 2, 3, 4} : RamfsObjects[i][1] \in Files
  BY DEF RamfsObjects, Files, Modules
<1>3. \A i \in {1, 2, 3, 4} : RamfsObjects[i][2] = "read-only"
  BY DEF RamfsObjects
<1>4. 1..4 = {1, 2, 3, 4}
  OBVIOUS
<1>5. Files \subseteq Names /\ "read-only" \in States
  BY BootWordAssumption
<1>6. Objects(RamfsObjects)
  BY <1>1, <1>2, <1>3, <1>4, <1>5 DEF Objects
<1>7. NamesTo(RamfsObjects, 4) \subseteq Files
  BY <1>2, <1>4 DEF NamesTo
<1> QED
  BY <1>1, <1>6, <1>7

\* ramfs_init.
LEMMA StartRamfsStep ==
  ASSUME ShellInvariant, StartRamfs
  PROVE  BootKeeps
<1> DEFINE l == ledger
           listed == RegisterAll(l, ObjectId(l, "ramfs"), RamfsObjects)
           said == Announce(listed, "ramfs", "ramfs", "initialize", "ok")
           final == UpdateState(said, "ramfs", "ready")
           changed == Files \cup {"ramfs"}
<1>1. /\ ledger' = final /\ phase = "ramfs" /\ phase' = "config"
      /\ UNCHANGED <<policy, config, job>>
  BY DEF StartRamfs, RamfsObjects
<1>2. Fit(l)
  BY <1>1, BootFits DEF BootPhases
<1>3. /\ "ramfs" \in Names /\ "ramfs" \in Labels /\ "initialize" \in Operations
      /\ "ok" \in Results /\ "ready" \in States /\ "ramfs" \in changed
  BY BootWordAssumption, WordsAreTyped
<1>4. /\ ThePolicy \notin changed /\ "shell" \notin changed
      /\ changed \cap DOMAIN FirstConfig = {}
  BY DEF ThePolicy, FirstConfig, Files, Modules
<1>5. Files \subseteq changed
  OBVIOUS
<1> HIDE DEF changed
<1>6. Goes(l, listed, changed)
  <2>1. ObjectId(l, "ramfs") \in Nat
    BY <1>2, ObjectIdType DEF Fit, Whole, LedgerType
  <2>2. Goes(l, l, changed)
    BY <1>2, GoesNowhere
  <2>3. Objects(RamfsObjects) /\ NamesTo(RamfsObjects, Len(RamfsObjects)) \subseteq changed
    BY <1>5, RamfsObjectsAreFiles
  <2> QED
    BY <1>2, <2>1, <2>2, <2>3, GoesRegisterAll
<1> HIDE DEF listed
<1>7. Goes(l, said, changed)
  BY <1>2, <1>3, <1>6, GoesAnnounce
<1> HIDE DEF said
<1>8. Goes(l, final, changed)
  BY <1>2, <1>3, <1>7, GoesUpdate
<1> HIDE DEF final
<1>9. phase \in BootPhases \ {"enter", "policy"} /\ phase' \in BootPhases \ {"enter", "policy"}
  BY <1>1 DEF BootPhases
<1>10. Shown(ledger', "shell") # {} /\ KeysKept(ledger, ledger')
  BY <1>1, <1>4, <1>8, ShellStays, KeysApart
<1> QED
  BY <1>1, <1>4, <1>8, <1>9, <1>10, BootStep

\* config_init.
ConfigObjects ==
  << <<"/config/theme", FirstConfig["/config/theme"]>>,
     <<"/config/prompt", FirstConfig["/config/prompt"]>> >>

LEMMA ConfigObjectsAreKeys ==
  /\ Objects(ConfigObjects) /\ Len(ConfigObjects) = 2
  /\ NamesTo(ConfigObjects, 2) \subseteq DOMAIN FirstConfig
  /\ \A i \in 1..2 : ConfigObjects[i][2] = FirstConfig[ConfigObjects[i][1]]
<1>1. Len(ConfigObjects) = 2
  BY DEF ConfigObjects
<1>2. \A i \in {1, 2} : /\ ConfigObjects[i][1] \in DOMAIN FirstConfig
                        /\ ConfigObjects[i][2] = FirstConfig[ConfigObjects[i][1]]
  BY DEF ConfigObjects, FirstConfig
<1>3. 1..2 = {1, 2}
  OBVIOUS
<1>4. \A key \in DOMAIN FirstConfig : key \in Names /\ FirstConfig[key] \in States
  BY BootWordAssumption DEF FirstConfig
<1>5. Objects(ConfigObjects)
  BY <1>1, <1>2, <1>3, <1>4 DEF Objects
<1>6. NamesTo(ConfigObjects, 2) \subseteq DOMAIN FirstConfig
  BY <1>2, <1>3 DEF NamesTo
<1> QED
  BY <1>1, <1>2, <1>3, <1>5, <1>6

LEMMA StartConfigStep ==
  ASSUME ShellInvariant, StartConfig
  PROVE  BootKeeps
<1> DEFINE l == ledger
           named == Register(l, "/config", ObjectId(l, "system"), "ready", l.current)
           keyed == RegisterAll(named, ObjectId(named, "/config"), ConfigObjects)
           final == Announce(keyed, "config", "/config", "initialize", "ok")
           changed == {"/config"} \cup DOMAIN FirstConfig
<1>1. /\ phase = "config" /\ phase' = "user" /\ UNCHANGED <<policy, config, job>>
  BY DEF StartConfig
<1>2. config = FirstConfig
  BY <1>1 DEF ShellInvariant, ConfigPart, BootPhases
<1>3. ledger' = final
  BY <1>2 DEF StartConfig, ConfigObjects
<1>4. Fit(l)
  BY <1>1, BootFits DEF BootPhases
<1>5. /\ "/config" \in Names /\ "ready" \in States /\ "/config" \in changed
      /\ "config" \in Labels /\ "/config" \in Labels
      /\ "initialize" \in Operations /\ "ok" \in Results
  BY BootWordAssumption, WordsAreTyped
<1>6. /\ ThePolicy \notin changed /\ "shell" \notin changed
      /\ "/config" \notin DOMAIN FirstConfig
  BY DEF ThePolicy, FirstConfig
<1>7. DOMAIN FirstConfig \subseteq changed
  OBVIOUS
<1> HIDE DEF changed
<1>8. ObjectId(l, "system") \in Nat /\ l.current \in Nat
  BY <1>4, ObjectIdType DEF Fit, Whole, LedgerType
<1>9. Goes(l, named, changed) /\ Goes(l, named, {"/config"})
  BY <1>4, <1>5, <1>8, RegisterGoes, GoesNowhere, GoesRegister DEF Registers
<1> HIDE DEF named
<1>10. ObjectId(named, "/config") \in Nat /\ Fit(named)
  BY <1>9, GoesIds DEF Goes
<1>11. Placed(named, keyed, ConfigObjects, 2) /\ Goes(l, keyed, changed)
  <2>1. NamesTo(ConfigObjects, Len(ConfigObjects)) \subseteq changed
    BY <1>7, ConfigObjectsAreKeys
  <2>2. Goes(l, keyed, changed)
    BY <1>4, <1>9, <1>10, <2>1, ConfigObjectsAreKeys, GoesRegisterAll
  <2>3. Placed(named, keyed, ConfigObjects, Len(ConfigObjects))
    BY <1>10, ConfigObjectsAreKeys, RegisterAllGoes
  <2> HIDE DEF keyed
  <2> QED
    BY <2>2, <2>3, ConfigObjectsAreKeys
<1> HIDE DEF keyed
<1>12. Goes(l, final, changed) /\ Goes(keyed, final, {})
  <2>1. Fit(keyed)
    BY <1>11 DEF Goes
  <2>2. Goes(keyed, keyed, {})
    BY <2>1, GoesNowhere
  <2> QED
    BY <1>4, <1>5, <1>11, <2>1, <2>2, GoesAnnounce
<1> HIDE DEF final
<1>13. KeysKept(l, final)
  <2>1. DOMAIN FirstConfig \subseteq Names
    BY BootWordAssumption
  <2>2. ASSUME NEW key \in DOMAIN FirstConfig, NEW object \in Shown(final, key)
        PROVE  object \in Shown(l, key) \/ FirstShown(object, key)
    <3>1. Shown(final, key) = Shown(keyed, key) /\ Shown(named, key) = Shown(l, key)
      BY <1>6, <1>9, <1>12, <2>1, <2>2 DEF Goes
    <3>2. \/ object \in Shown(named, key)
          \/ \E i \in 1..2 : /\ ConfigObjects[i][1] = key /\ object.state = ConfigObjects[i][2]
                             /\ object.rev = 1
      BY <1>11, <2>1, <2>2, <3>1 DEF Placed
    <3>3. ASSUME NEW i \in 1..2, ConfigObjects[i][1] = key, object.state = ConfigObjects[i][2],
                 object.rev = 1
          PROVE  FirstShown(object, key)
      <4>1. ConfigObjects[i][2] = FirstConfig[ConfigObjects[i][1]]
        BY ConfigObjectsAreKeys
      <4> QED
        BY <3>3, <4>1 DEF FirstShown
    <3> QED
      BY <3>1, <3>2, <3>3
  <2> QED
    BY <2>2 DEF KeysKept
<1>14. phase \in BootPhases \ {"enter", "policy"} /\ phase' \in BootPhases \ {"enter", "policy"}
  BY <1>1 DEF BootPhases
<1>15. Shown(ledger', "shell") # {} /\ KeysKept(ledger, ledger')
  BY <1>3, <1>1, <1>6, <1>12, <1>13, ShellStays
<1> QED
  BY <1>1, <1>3, <1>6, <1>12, <1>14, <1>15, BootStep

\* user_init.
LEMMA StartUserStep ==
  ASSUME ShellInvariant, StartUser
  PROVE  BootKeeps
<1> DEFINE l == ledger
           scheduler == Register(l, "scheduler", ObjectId(l, "system"), "cooperative",
                                 l.current)
           ready == Register(scheduler, "user_transition", ObjectId(scheduler, "scheduler"),
                             "scaffold-ready", l.current)
           final == Record(ready, Report("scheduler", "scheduler", "initialize", "ok",
                                         l.current, "state"))
           changed == {"scheduler", "user_transition"}
<1>1. /\ ledger' = final /\ phase = "user" /\ phase' = "interrupts"
      /\ UNCHANGED <<policy, config, job>>
  BY DEF StartUser
<1>2. Fit(l)
  BY <1>1, BootFits DEF BootPhases
<1>3. /\ "scheduler" \in Names /\ "user_transition" \in Names
      /\ "cooperative" \in States /\ "scaffold-ready" \in States
      /\ "scheduler" \in Labels /\ "initialize" \in Operations
      /\ "ok" \in Results /\ "state" \in Kinds
  BY BootWordAssumption, WordsAreTyped
<1>4. /\ ThePolicy \notin changed /\ "shell" \notin changed
      /\ changed \cap DOMAIN FirstConfig = {}
  BY DEF ThePolicy, FirstConfig
<1>5. "scheduler" \in changed /\ "user_transition" \in changed
  OBVIOUS
<1> HIDE DEF changed
<1>6. Goes(l, l, changed)
  BY <1>2, GoesNowhere
<1>7. ObjectId(l, "system") \in Nat /\ l.current \in Nat
  BY <1>6, GoesIds
<1>8. Goes(l, scheduler, changed)
  BY <1>2, <1>3, <1>5, <1>6, <1>7, GoesRegister
<1> HIDE DEF scheduler
<1>9. ObjectId(scheduler, "scheduler") \in Nat
  BY <1>8, GoesIds
<1>10. Goes(l, ready, changed)
  BY <1>2, <1>3, <1>5, <1>7, <1>8, <1>9, GoesRegister
<1> HIDE DEF ready
<1>11. Goes(l, final, changed)
  BY <1>2, <1>3, <1>10, GoesReport
<1> HIDE DEF final
<1>12. phase \in BootPhases \ {"enter", "policy"} /\ phase' \in BootPhases \ {"enter", "policy"}
  BY <1>1 DEF BootPhases
<1>13. Shown(ledger', "shell") # {} /\ KeysKept(ledger, ledger')
  BY <1>1, <1>4, <1>11, ShellStays, KeysApart
<1> QED
  BY <1>1, <1>4, <1>11, <1>12, <1>13, BootStep

\* timer_init and keyboard_init.
LEMMA StartInterruptsStep ==
  ASSUME ShellInvariant, StartInterrupts
  PROVE  BootKeeps
<1> DEFINE l == ledger
           ready == UpdateState(l, "interrupts", "ready")
           final == Announce(ready, "boot", "interrupts", "initialize", "ok")
           changed == {"interrupts"}
<1>1. /\ ledger' = final /\ phase = "interrupts" /\ phase' = "shell"
      /\ UNCHANGED <<policy, config, job>>
  BY DEF StartInterrupts
<1>2. Fit(l)
  BY <1>1, BootFits DEF BootPhases
<1>3. /\ "interrupts" \in Names /\ "interrupts" \in Labels /\ "ready" \in States
      /\ "boot" \in Labels /\ "initialize" \in Operations /\ "ok" \in Results
  BY BootWordAssumption, WordsAreTyped
<1>4. /\ ThePolicy \notin changed /\ "shell" \notin changed
      /\ changed \cap DOMAIN FirstConfig = {} /\ "interrupts" \in changed
  BY DEF ThePolicy, FirstConfig
<1> HIDE DEF changed
<1>5. Goes(l, ready, changed)
  BY <1>2, <1>3, <1>4, GoesNowhere, GoesUpdate
<1> HIDE DEF ready
<1>6. Goes(l, final, changed)
  BY <1>2, <1>3, <1>5, GoesAnnounce
<1> HIDE DEF final
<1>7. phase \in BootPhases \ {"enter", "policy"} /\ phase' \in BootPhases \ {"enter", "policy"}
  BY <1>1 DEF BootPhases
<1>8. Shown(ledger', "shell") # {} /\ KeysKept(ledger, ledger')
  BY <1>1, <1>4, <1>6, ShellStays, KeysApart
<1> QED
  BY <1>1, <1>4, <1>6, <1>7, <1>8, BootStep

\* The shell is ready.
LEMMA StartShellStep ==
  ASSUME ShellInvariant, StartShell
  PROVE  BootKeeps
<1> DEFINE l == ledger
           final == UpdateState(l, "shell", "ready")
           changed == {"shell"}
<1>1. /\ ledger' = final /\ phase = "shell" /\ phase' = "prompt"
      /\ UNCHANGED <<policy, config, job>>
  BY DEF StartShell
<1>2. Fit(l)
  BY <1>1, BootFits DEF BootPhases
<1>3. "shell" \in Names /\ "ready" \in States
  BY BootWordAssumption
<1>4. ThePolicy \notin changed /\ changed \cap DOMAIN FirstConfig = {}
  BY DEF ThePolicy, FirstConfig
<1>5. Updates(l, final, "shell", "ready")
  BY <1>2, <1>3, UpdateGoes
<1> HIDE DEF final
<1>6. Goes(l, final, changed)
  BY <1>5 DEF Updates
<1>7. Shown(l, "shell") # {}
  BY <1>1 DEF ShellInvariant, LedgerPart
<1>8. Shown(final, "shell") # {}
  <2>1. PICK old \in Shown(l, "shell") : TRUE
    BY <1>7
  <2>2. \E new : Shown(final, "shell") = {new}
    BY <1>5, <2>1 DEF Updates
  <2> QED
    BY <2>2
<1> HIDE DEF changed
<1>9. phase \in BootPhases \ {"enter", "policy"} /\ KeysKept(ledger, ledger')
  BY <1>1, <1>4, <1>6, KeysApart DEF BootPhases
<1> QED
  BY <1>1, <1>4, <1>6, <1>8, <1>9, BootStep

\* memory_init fails: what it recorded before.
LEMMA FailMemoryStep ==
  ASSUME ShellInvariant, FailMemory
  PROVE  BootKeeps
<1> DEFINE l == ledger
           named == RegisterMemory(l)
           denied == Announce(named, "memory", "page_allocator", "allocate", "denied")
           changed == {"page_allocator", "heap", "memory"}
<1>1. /\ phase = "memory" /\ phase' = "panicked" /\ UNCHANGED <<policy, config, job>>
      /\ \/ ledger' = Announce(l, "memory", "memory", "parse_multiboot", "fault")
         \/ ledger' = Announce(named, "memory", "memory", "parse_multiboot", "fault")
         \/ ledger' = Announce(denied, "memory", "heap", "allocate_pages", "fault")
  BY DEF FailMemory
<1>2. Fit(l)
  BY <1>1, BootFits DEF BootPhases
<1>3. /\ {"page_allocator", "heap", "memory"} \subseteq Labels
      /\ {"denied", "fault"} \subseteq Results
      /\ {"allocate", "allocate_pages", "parse_multiboot"} \subseteq Operations
  BY BootWordAssumption, WordsAreTyped
<1>4. /\ ThePolicy \notin changed /\ "shell" \notin changed
      /\ changed \cap DOMAIN FirstConfig = {}
  BY DEF ThePolicy, FirstConfig
<1>5. Goes(l, named, changed) /\ Goes(l, l, changed)
  BY <1>2, MemoryGoes, GoesNowhere
<1> HIDE DEF changed, named
<1>6. Goes(l, denied, changed)
  BY <1>2, <1>3, <1>5, GoesAnnounce
<1> HIDE DEF denied
<1>7. /\ Goes(l, Announce(l, "memory", "memory", "parse_multiboot", "fault"), changed)
      /\ Goes(l, Announce(named, "memory", "memory", "parse_multiboot", "fault"), changed)
      /\ Goes(l, Announce(denied, "memory", "heap", "allocate_pages", "fault"), changed)
  BY <1>2, <1>3, <1>5, <1>6, GoesAnnounce
<1>8. Goes(l, ledger', changed)
  BY <1>1, <1>7
<1>9. phase \in BootPhases \ {"enter", "policy"}
  BY <1>1 DEF BootPhases
<1>10. Shown(ledger', "shell") # {} /\ KeysKept(ledger, ledger')
  BY <1>1, <1>4, <1>8, ShellStays, KeysApart
<1> QED
  BY <1>1, <1>4, <1>8, <1>9, <1>10, BootStep

\* The capabilities of the base policy.
BaseCapabilities == [i \in DOMAIN BaseRules |-> Capability(BasePolicy, i)]

LEMMA BaseCapabilitiesAreObjects ==
  /\ Objects(BaseCapabilities)
  /\ NamesTo(BaseCapabilities, Len(BaseCapabilities)) \cap DOMAIN FirstConfig = {}
<1>1. Len(BaseCapabilities) = Len(BaseRules) /\ DOMAIN BaseRules = 1..Len(BaseRules)
      /\ Len(BaseRules) \in Nat
  BY PolicyAssumption DEF BaseCapabilities
<1>2. ASSUME NEW i \in DOMAIN BaseRules
      PROVE  /\ BaseCapabilities[i][1] \in Names \ DOMAIN FirstConfig
             /\ BaseCapabilities[i][2] \in States
  <2>1. /\ BaseCapabilities[i][1] = CapabilityName(BaseRules[i])
        /\ BaseCapabilities[i][2] = CapabilityState(BaseRules[i].allow, i, BaseRevision)
    BY <1>2 DEF BaseCapabilities, Capability, BasePolicy
  <2> QED
    BY <1>2, <2>1, PolicyAssumption, LineWordAssumption
<1>3. Objects(BaseCapabilities)
  BY <1>1, <1>2 DEF Objects
<1>4. NamesTo(BaseCapabilities, Len(BaseCapabilities)) \subseteq Names \ DOMAIN FirstConfig
  BY <1>1, <1>2 DEF NamesTo
<1> QED
  BY <1>3, <1>4

\* policy_init: its transaction is closed again, and the policy's object shows
\* the revision after the load.
LEMMA PolicyInitGoes ==
  ASSUME NEW l, Fit(l), l.next = 2, l.tx = 0, OpenIds(l) = {}, Len(l.objects) =< 7,
         Shown(l, ThePolicy) = {}
  PROVE  /\ Whole(PolicyInit(l)) /\ Idle(PolicyInit(l)) /\ 1 < PolicyInit(l).next
         /\ \A name \in Names \ {ThePolicy} :
              /\ Shown(l, name) # {} => Shown(PolicyInit(l), name) # {}
              /\ name \in DOMAIN FirstConfig => Shown(PolicyInit(l), name) = Shown(l, name)
         /\ \E new : Shown(PolicyInit(l), ThePolicy) = {new} /\ new.rev = 2
         /\ AllTally(l) => AllTally(PolicyInit(l))
<1> DEFINE named == Register(l, ThePolicy, ObjectId(l, "system"), "loading", 1)
           id == BeginResult(named)
           opened == Begin(named, "policy", ThePolicy, 1)
           current == SetCurrent(opened, id)
           begun == SetTx(current, id)
           granted == RegisterAll(begun, ObjectId(named, ThePolicy), BaseCapabilities)
           report == Report("policy", ThePolicy, "load", "ok", 1, "state")
           loaded == Record(granted, report)
           updated == UpdateState(loaded, ThePolicy, "loaded")
           closed == Commit(updated, id)
           apart == SetTx(closed, 0)
           final == SetCurrent(apart, 1)
<1>1. PolicyInit(l) = final
  BY DEF PolicyInit, BaseCapabilities
<1>2. /\ ThePolicy \in Names /\ ThePolicy \in Labels /\ "policy" \in Labels
      /\ "loading" \in States /\ "loaded" \in States /\ "load" \in Operations
      /\ "ok" \in Results /\ "state" \in Kinds
  BY PolicyWordAssumption, WordsAreTyped
<1>3. ObjectId(l, "system") \in Nat
  BY ObjectIdType DEF Fit, Whole, LedgerType
<1>4. Registers(l, named, ThePolicy, "loading")
  BY <1>2, <1>3, RegisterGoes
<1> HIDE DEF named
<1>5. /\ Fit(named) /\ Whole(named) /\ named.next = 2 /\ named.tx = 0 /\ OpenIds(named) = {}
      /\ \A name \in Names \ {ThePolicy} : Shown(named, name) = Shown(l, name)
  BY <1>4 DEF Registers, Goes, Fit
<1>6. \E new : Shown(named, ThePolicy) = {new} /\ new.rev = 1
  <2>1. Len(l.objects) \in Nat /\ ObjCap \in Nat
    BY CapacityAssumption DEF Fit, Whole, LedgerType
  <2>2. ~ (Len(l.objects) >= ObjCap)
    BY <2>1, BootCapacityAssumption
  <2> QED
    BY <1>4, <2>2 DEF Registers
<1>7. Begins(named, opened, "policy", 1)
  <2>1. named.next \in 1..MaxSeq /\ 1 \in 0..(named.next - 1)
    BY <1>5, CapacityAssumption, LineAssumption
  <2> QED
    BY <1>2, <1>5, <2>1, BeginGoes
<1>8. id \in {0, 2}
  BY <1>5 DEF BeginResult
<1>32. ASSUME AllTally(l), NEW m, Whole(m), m.txs = opened.txs, m.objects = opened.objects,
              m.next = opened.next, Seen(m) = Seen(opened), OpenIds(m) = {id} \ {0}
       PROVE  AllTally(m) /\ Unrevised(m, id, ThePolicy)
  <2>1. AllTally(named)
    <3>1. Whole(l) /\ Goes(l, named, {ThePolicy})
      BY <1>4 DEF Fit, Registers
    <3> QED
      BY <1>32, <3>1, TallyGoes
  <2>2. named.next \in 1..MaxSeq /\ 1 \in 0..(named.next - 1)
    BY <1>5, CapacityAssumption, LineAssumption
  <2> QED
    BY <1>2, <1>5, <1>32, <2>1, <2>2, BeginTallies
<1> HIDE DEF opened, id
<1>9. /\ Whole(opened) /\ opened.tx = 0 /\ 2 =< opened.next /\ opened.next \in Nat
      /\ id < opened.next /\ OpenIds(opened) = {id} \ {0}
      /\ \A name \in Names : Shown(opened, name) = Shown(named, name)
  <2>1. opened.next \in Nat
    BY <1>7 DEF Begins, Whole, LedgerType
  <2>2. CASE id = 0
    <3>1. opened = named
      BY <1>7, <2>2 DEF Begins, id
    <3> QED
      BY <1>5, <2>2, <3>1, <2>1
  <2>3. CASE id = 2
    <3>1. opened.next = 3 /\ OpenIds(opened) = {2}
      BY <1>5, <1>7, <2>3 DEF Begins, id
    <3> QED
      BY <1>5, <1>7, <2>1, <2>3, <3>1 DEF Begins
  <2> QED
    BY <1>8, <2>2, <2>3
<1>10. Sets(opened, current, id, 0)
  <2>1. id \in 0..(opened.next - 1)
    BY <1>8, <1>9
  <2> QED
    BY <1>9, <2>1, SetCurrentSets
<1> HIDE DEF current
<1>11. /\ Whole(current) /\ current.tx = 0 /\ current.next = opened.next
       /\ OpenIds(current) = {id} \ {0}
       /\ \A name \in Names : Shown(current, name) = Shown(named, name)
  BY <1>9, <1>10 DEF Sets
<1>12. Sets(current, begun, current.current, id)
  BY <1>11, SetTxSets
<1> HIDE DEF begun
<1>13. /\ Whole(begun) /\ begun.tx = id /\ begun.next = opened.next
       /\ OpenIds(begun) = {id} \ {0}
       /\ \A name \in Names : Shown(begun, name) = Shown(named, name)
  BY <1>11, <1>12 DEF Sets
<1>14. Fit(begun)
  BY <1>13, FitIsSettled
<1>33. AllTally(l) => AllTally(begun) /\ Unrevised(begun, id, ThePolicy)
  BY <1>10, <1>12, <1>13, <1>32 DEF Sets
<1>15. Placed(begun, granted, BaseCapabilities, Len(BaseCapabilities))
  <2>1. ObjectId(named, ThePolicy) \in Nat
    BY <1>5, ObjectIdType DEF Whole, LedgerType
  <2> QED
    BY <1>14, <2>1, BaseCapabilitiesAreObjects, RegisterAllGoes
<1> HIDE DEF granted
<1>16. /\ Fit(granted) /\ granted.tx = id /\ OpenIds(granted) = {id} \ {0}
       /\ granted.next \in Nat /\ 2 =< granted.next
  BY <1>9, <1>13, <1>15 DEF Placed, Goes, Fit, Whole, LedgerType
<1>17. \A name \in Names :
         /\ Shown(named, name) # {} => Shown(granted, name) = Shown(named, name)
         /\ name \in DOMAIN FirstConfig => Shown(granted, name) = Shown(named, name)
  BY <1>13, <1>15, BaseCapabilitiesAreObjects DEF Placed, Goes
<1>18. report \in ReportType /\ report.parent \in 0..(granted.next - 1)
  <2>1. report \in ReportType
    BY <1>2, ReportIsTyped
  <2> QED
    BY <1>16, <2>1 DEF Report
<1> HIDE DEF report
<1>19. Goes(granted, loaded, {})
  BY <1>16, <1>18, RecordGoes DEF Records
<1> HIDE DEF loaded
<1>20. Fit(loaded)
  BY <1>19 DEF Goes
<1>21. Updates(loaded, updated, ThePolicy, "loaded")
  BY <1>2, <1>20, UpdateGoes
<1> HIDE DEF updated
<1>22. /\ Whole(updated) /\ updated.tx = id /\ OpenIds(updated) = {id} \ {0}
       /\ updated.next \in Nat /\ 2 =< updated.next
  <2>1. Goes(loaded, updated, {ThePolicy})
    BY <1>21 DEF Updates
  <2>2. loaded.next \in Nat /\ updated.next \in Nat
    BY <1>20, <2>1 DEF Goes, Fit, Whole, LedgerType
  <2> QED
    BY <1>16, <1>19, <2>1, <2>2 DEF Goes, Fit
<1>34. AllTally(l) => AllTally(updated) /\ Ripe(updated, id, TRUE)
  <2>1. /\ Goes(begun, granted, NamesTo(BaseCapabilities, Len(BaseCapabilities)))
        /\ Goes(granted, loaded, {}) /\ Goes(loaded, updated, {ThePolicy})
    BY <1>15, <1>19, <1>21 DEF Placed, Updates
  <2>2. /\ Whole(begun) /\ Whole(granted) /\ Whole(loaded)
        /\ begun \in LedgerType /\ granted \in LedgerType /\ loaded \in LedgerType
    BY <1>13, <1>16, <1>20 DEF Fit, Whole
  <2>3. Later(begun, granted) /\ Later(granted, loaded) /\ Later(loaded, updated)
    BY <2>1, <2>2, GoesIsLater
  <2>4. Spans(begun, granted, ThePolicy)
    <3>1. Shown(begun, ThePolicy) # {}
      BY <1>2, <1>6, <1>13
    <3> QED
      BY <1>2, <1>15, <2>2, <3>1, PlacedSpans
  <2>5. Spans(granted, loaded, ThePolicy)
    <3>1. Records(granted, loaded, report)
      BY <1>16, <1>18, RecordGoes DEF loaded
    <3>2. report.op # "state_update"
      BY DEF report, Report
    <3> QED
      BY <2>2, <3>1, <3>2, RecordIsQuiet, QuietSpans
  <2>6. Spans(loaded, updated, ThePolicy)
    BY <1>2, <1>21, <2>2, UpdateSpans
  <2>7. Goes(begun, loaded, NamesTo(BaseCapabilities, Len(BaseCapabilities)))
    BY <1>14, <2>1, GoesFurther
  <2>8. Later(begun, loaded) /\ Spans(begun, loaded, ThePolicy)
    BY <2>2, <2>3, <2>4, <2>5, <2>7, SpansOn, GoesIsLater
  <2>9. Spans(begun, updated, ThePolicy)
    BY <2>2, <2>3, <2>6, <2>8, SpansOn
  <2>10. Goes(begun, updated, NamesTo(BaseCapabilities, Len(BaseCapabilities)) \cup {ThePolicy})
    BY <1>14, <2>1, <2>7, GoesOn
  <2>11. /\ Later(begun, updated) /\ TableStands(begun, updated)
         /\ \A event \in Seen(updated) \ Seen(begun) : event.tx = id
    BY <1>13, <2>2, <2>10, GoesIsLater DEF Goes
  <2> QED
    BY <1>13, <1>22, <1>33, <2>9, <2>11, TallyRuns
<1>23. \A name \in Names \ {ThePolicy} :
         /\ Shown(named, name) # {} => Shown(updated, name) = Shown(named, name)
         /\ name \in DOMAIN FirstConfig => Shown(updated, name) = Shown(named, name)
  BY <1>17, <1>19, <1>21 DEF Updates, Goes
<1>24. \E new : Shown(updated, ThePolicy) = {new} /\ new.rev = 2
  <2>1. PICK old : Shown(named, ThePolicy) = {old} /\ old.rev = 1
    BY <1>6
  <2>2. Shown(loaded, ThePolicy) = {old}
    BY <1>2, <1>17, <1>19, <2>1 DEF Goes
  <2>3. PICK new : Shown(updated, ThePolicy) = {new} /\ new.rev = old.rev + 1
    BY <1>21, <2>2 DEF Updates
  <2> QED
    BY <2>1, <2>3
<1>25. /\ Whole(closed) /\ closed.tx = id /\ OpenIds(closed) = {} /\ closed.next \in Nat
       /\ 2 =< closed.next /\ \A name \in Names : Shown(closed, name) = Shown(updated, name)
  <2>1. CASE id = 0
    <3>1. closed = updated
      BY <1>22, <2>1, CommitOfNone
    <3> HIDE DEF closed
    <3> QED
      BY <1>22, <2>1, <3>1
  <2>2. CASE id # 0
    <3>1. id \in OpenIds(updated)
      BY <1>22, <2>2
    <3>2. Closes(updated, closed, id)
      BY <1>22, <3>1, CommitGoes
    <3> HIDE DEF closed
    <3>3. closed.next = updated.next + 1
      BY <3>2 DEF Closes
    <3>4. 2 =< closed.next /\ closed.next \in Nat
      BY <1>22, <3>3
    <3> QED
      BY <1>22, <3>2, <3>4 DEF Closes
  <2> QED
    BY <2>1, <2>2
<1>35. AllTally(l) => AllTally(closed)
  BY <1>22, <1>34, CloseTallies
<1> HIDE DEF closed
<1>26. Sets(closed, apart, closed.current, 0)
  BY <1>25, SetTxSets
<1> HIDE DEF apart
<1>27. /\ Whole(apart) /\ apart.tx = 0 /\ apart.next = closed.next /\ OpenIds(apart) = {}
       /\ \A name \in Names : Shown(apart, name) = Shown(updated, name)
  BY <1>25, <1>26 DEF Sets
<1>28. Sets(apart, final, 1, 0)
  <2>1. 1 \in 0..(apart.next - 1)
    BY <1>25, <1>27
  <2> QED
    BY <1>27, <2>1, SetCurrentSets
<1> HIDE DEF final
<1>29. /\ Whole(final) /\ Idle(final) /\ 1 < final.next
       /\ \A name \in Names : Shown(final, name) = Shown(updated, name)
  BY <1>25, <1>27, <1>28 DEF Sets, Idle
<1>30. \A name \in Names \ {ThePolicy} :
         /\ Shown(l, name) # {} => Shown(final, name) # {}
         /\ name \in DOMAIN FirstConfig => Shown(final, name) = Shown(l, name)
  BY <1>5, <1>23, <1>29
<1>36. AllTally(l) => AllTally(final)
  BY <1>26, <1>28, <1>35, TallySets
<1>31. \E new : Shown(final, ThePolicy) = {new} /\ new.rev = 2
  BY <1>2, <1>24, <1>29
<1> QED
  BY <1>1, <1>29, <1>30, <1>31, <1>36

\* policy_init in the boot.
LEMMA LoadPolicyStep ==
  ASSUME ShellInvariant, LoadPolicy
  PROVE  BootKeeps
<1>1. /\ phase = "policy" /\ phase' = "memory" /\ ledger' = PolicyInit(ledger)
      /\ policy' = BasePolicy /\ UNCHANGED <<config, job>>
  BY DEF LoadPolicy
<1>2. /\ Fit(ledger) /\ Idle(ledger) /\ ledger.next = 2 /\ Len(ledger.objects) =< 7
      /\ Shown(ledger, ThePolicy) = {} /\ Shown(ledger, "shell") # {}
  BY <1>1, BootFits DEF BootPhases, ShellInvariant, LedgerPart
<1>3. /\ Whole(ledger') /\ Idle(ledger') /\ 1 < ledger'.next
      /\ \A name \in Names \ {ThePolicy} :
           /\ Shown(ledger, name) # {} => Shown(ledger', name) # {}
           /\ name \in DOMAIN FirstConfig => Shown(ledger', name) = Shown(ledger, name)
      /\ \E new : Shown(ledger', ThePolicy) = {new} /\ new.rev = 2
  BY <1>1, <1>2, PolicyInitGoes DEF Idle
<1>4. "shell" \in Names \ {ThePolicy} /\ DOMAIN FirstConfig \subseteq Names \ {ThePolicy}
  BY BootWordAssumption DEF ThePolicy, FirstConfig
<1>5. LedgerPart'
  BY <1>1, <1>2, <1>3, <1>4 DEF LedgerPart
<1>6. PolicyPart'
  <2>1. /\ policy'.rules = BaseRules /\ policy'.revision = BaseRevision
        /\ BaseRules \in Seq(Rules) /\ BaseRevision \in Nat
        /\ Len(BaseRules) \in Nat /\ RuleCap \in Nat /\ Len(BaseRules) =< RuleCap
    BY <1>1, PolicyAssumption DEF BasePolicy
  <2>2. policy' \in [rules : Seq(Rules), revision : Nat]
    BY <1>1, <2>1 DEF BasePolicy
  <2>3. Len(BaseRules) \in Len(BaseRules)..RuleCap
        /\ BaseRevision = BaseRevision + (Len(BaseRules) - Len(BaseRules))
        /\ BaseRevision - BaseRevision + 2 = 2
    BY <2>1
  <2> QED
    BY <1>1, <1>3, <2>1, <2>2, <2>3 DEF PolicyPart
<1>7. ConfigPart'
  BY <1>1, <1>3, <1>4 DEF ShellInvariant, ConfigPart, BootPhases
<1>8. ShellPart'
  BY <1>1 DEF ShellInvariant, ShellPart, BootPhases
<1>9. AllTally(ledger) => AllTally(ledger')
  BY <1>1, <1>2, PolicyInitGoes DEF Idle
<1> QED
  BY <1>5, <1>6, <1>7, <1>8, <1>9 DEF ShellInvariant, BootKeeps

LEMMA BootPreserves ==
  ASSUME ShellInvariant, Boot
  PROVE  BootKeeps
BY EnterKernelStep, LoadPolicyStep, StartMemoryStep, FailMemoryStep, StartRamfsStep,
   StartConfigStep, StartUserStep, StartInterruptsStep, StartShellStep DEF Boot

(***************************************************************************)
(* A turn of the loop.                                                     *)
(***************************************************************************)
\* The parts of a line that the commands use.
LEMMA LinesAreTyped ==
  ASSUME NEW line \in Lines
  PROVE  /\ line.verb \in Labels /\ line.arg \in Labels /\ Target(line) \in Labels
         /\ line.value \in States \cup {""} /\ line.rule \in Seq(Rules)
         /\ line \in Line
BY LineAssumption, LineWordAssumption DEF Line

\* What a command records when it is accepted: its own event, caused by the boot,
\* and the begin event of its transaction, if the table has room for one.
Accepts(l, m, command, tx) ==
  \A event \in Seen(m) \ Seen(l) :
    \/ /\ event.seq = command /\ event.parent = 1
       /\ event.kind = "command" /\ event.op # "exception"
    \/ /\ tx # 0 /\ event.seq = tx /\ event.tx = tx /\ event.parent = command
       /\ event.kind = "transaction" /\ event.op # "exception"

\* The ledger at the start of a command.
Accepted(l, m, tx, target) ==
  /\ Whole(m) /\ 1 < m.next
  /\ tx \in {0, l.next + 1} /\ m.tx = tx /\ OpenIds(m) = {tx} \ {0}
  /\ m.current = (IF tx = 0 THEN l.next ELSE tx) /\ l.next \in 1..(m.next - 1)
  /\ \A name \in Names : Shown(m, name) = Shown(l, name)
  /\ Accepts(l, m, l.next, tx)
  /\ AllTally(l) => AllTally(m) /\ Unrevised(m, tx, target)

\* The command event and its transaction.
LEMMA AcceptGoes ==
  ASSUME NEW l, Fit(l), Idle(l), 1 < l.next, l.next + 2 =< MaxSeq + 1, NEW line \in Lines,
         NEW noted, noted = Record(l, Report("shell", Target(line), "command", "ok",
                                             l.current, "command")),
         NEW tx, tx = BeginResult(noted),
         NEW m, m = SetTx(SetCurrent(Begin(noted, "shell", Target(line), l.next),
                                     IF tx = 0 THEN l.next ELSE tx), tx)
  PROVE  Accepted(l, m, tx, Target(line))
<1> DEFINE report == Report("shell", Target(line), "command", "ok", l.current, "command")
           begun == Begin(noted, "shell", Target(line), l.next)
           cause == IF tx = 0 THEN l.next ELSE tx
           set == SetCurrent(begun, cause)
<1>1. l.next \in Nat /\ MaxSeq \in Nat /\ l.current = 1 /\ l.tx = 0 /\ OpenIds(l) = {}
  BY CapacityAssumption DEF Fit, Whole, LedgerType, Idle
<1>2. report \in ReportType /\ report.parent \in 0..(l.next - 1)
  <2>1. "command" \in Operations
    BY BootWordAssumption
  <2>2. report \in ReportType
    BY <1>1, <2>1, WordsAreTyped, LinesAreTyped, ReportIsTyped
  <2> QED
    BY <1>1, <2>2 DEF Report
<1>3. noted = Record(l, report)
  OBVIOUS
<1>16. report.parent = 1 /\ report.kind = "command" /\ report.op = "command"
  BY <1>1 DEF Report
<1> HIDE DEF report
<1>4. Goes(l, noted, {}) /\ noted.next = l.next + 1
  BY <1>2, <1>3, RecordGoes DEF Records
<1>17. \A event \in Seen(noted) \ Seen(l) :
         /\ event.seq = l.next /\ event.parent = 1
         /\ event.kind = "command" /\ event.op # "exception"
  BY <1>2, <1>3, <1>16, RecordGoes DEF Records, Tells
<1>5. Fit(noted) /\ Whole(noted) /\ noted.tx = 0 /\ OpenIds(noted) = {}
      /\ \A name \in Names : Shown(noted, name) = Shown(l, name)
  BY <1>1, <1>4 DEF Goes, Fit
<1>6. Begins(noted, begun, "shell", l.next)
  <2>1. noted.next \in 1..MaxSeq /\ l.next \in 0..(noted.next - 1)
    BY <1>1, <1>4
  <2> QED
    BY <1>5, <2>1, WordsAreTyped, LinesAreTyped, BeginGoes
<1>7. tx \in {0, l.next + 1}
  BY <1>4 DEF BeginResult
<1>18. \A event \in Seen(begun) \ Seen(noted) :
         /\ tx # 0 /\ event.seq = tx /\ event.tx = tx /\ event.parent = l.next
         /\ event.kind = "transaction" /\ event.op # "exception"
  <2>1. CASE tx = 0
    BY <1>6, <2>1 DEF Begins
  <2>2. CASE tx # 0
    BY <1>6, <2>2 DEF Begins, Tells, BeginReport, Report
  <2> QED
    BY <2>1, <2>2
<1>21. ASSUME AllTally(l), NEW n, Whole(n), n.txs = begun.txs, n.objects = begun.objects,
              n.next = begun.next, Seen(n) = Seen(begun), OpenIds(n) = {tx} \ {0}
       PROVE  AllTally(n) /\ Unrevised(n, tx, Target(line))
  <2>1. AllTally(noted)
    <3>1. Whole(l)
      BY DEF Fit
    <3> QED
      BY <1>1, <1>4, <1>21, <3>1, TallyGoes
  <2>2. noted.next \in 1..MaxSeq /\ l.next \in 0..(noted.next - 1)
    BY <1>1, <1>4
  <2>3. "shell" \in Labels /\ Target(line) \in Labels
    BY WordsAreTyped, LinesAreTyped
  <2>4. begun = Begin(noted, "shell", Target(line), l.next)
    OBVIOUS
  <2> HIDE DEF begun
  <2> QED
    BY <1>5, <1>21, <2>1, <2>2, <2>3, <2>4, BeginTallies
<1> HIDE DEF begun
<1>8. /\ Whole(begun) /\ begun.tx = 0 /\ begun.next \in Nat /\ l.next + 1 =< begun.next
      /\ OpenIds(begun) = {tx} \ {0} /\ tx < begun.next
      /\ \A name \in Names : Shown(begun, name) = Shown(l, name)
  <2>1. begun.next \in Nat
    BY <1>6 DEF Begins, Whole, LedgerType
  <2>2. CASE tx = 0
    <3>1. begun = noted
      BY <1>6, <2>2 DEF Begins
    <3> QED
      BY <1>1, <1>4, <1>5, <2>2, <3>1, <2>1
  <2>3. CASE tx = l.next + 1
    <3>1. tx # 0
      BY <1>1, <2>3
    <3>2. begun.next = l.next + 2 /\ OpenIds(begun) = {tx}
      BY <1>1, <1>4, <1>5, <1>6, <2>3, <3>1 DEF Begins
    <3> QED
      BY <1>1, <1>5, <1>6, <2>1, <2>3, <3>1, <3>2 DEF Begins
  <2> QED
    BY <1>7, <2>2, <2>3
<1>9. cause \in 0..(begun.next - 1)
  BY <1>1, <1>7, <1>8
<1> HIDE DEF cause
<1>10. Sets(begun, set, cause, 0)
  BY <1>8, <1>9, SetCurrentSets
<1>11. m = SetTx(set, tx)
  BY DEF cause, begun
<1> HIDE DEF set
<1>12. /\ Whole(set) /\ set.next = begun.next /\ OpenIds(set) = {tx} \ {0} /\ set.current = cause
       /\ \A name \in Names : Shown(set, name) = Shown(l, name)
  BY <1>8, <1>10 DEF Sets
<1>13. Sets(set, m, cause, tx)
  BY <1>11, <1>12, SetTxSets
<1>14. /\ Whole(m) /\ m.next = begun.next /\ m.tx = tx /\ OpenIds(m) = {tx} \ {0}
       /\ m.current = cause /\ \A name \in Names : Shown(m, name) = Shown(l, name)
  BY <1>12, <1>13 DEF Sets
<1>15. 1 < m.next /\ l.next \in 1..(m.next - 1)
  BY <1>1, <1>8, <1>14
<1>19. Seen(m) = Seen(begun)
  BY <1>10, <1>13 DEF Sets
<1>20. Accepts(l, m, l.next, tx)
  BY <1>17, <1>18, <1>19 DEF Accepts
<1>22. AllTally(l) => AllTally(m) /\ Unrevised(m, tx, Target(line))
  BY <1>10, <1>13, <1>14, <1>19, <1>21 DEF Sets
<1> QED
  BY <1>7, <1>14, <1>15, <1>20, <1>22 DEF cause, Accepted

LEMMA AcceptStep ==
  ASSUME ShellInvariant, Accept
  PROVE  /\ ShellInvariant' /\ phase = "prompt" /\ phase' = "execute"
         /\ Accepts(ledger, ledger', job'.event, job'.tx) /\ job'.event = ledger.next
         /\ job'.tx \in {0, ledger.next + 1}
         /\ Shown(ledger', "shell") = Shown(ledger, "shell")
         /\ AllTally(ledger) =>
              AllTally(ledger') /\ Unrevised(ledger', job'.tx, Target(job'.line))
         /\ job'.ok = (job'.tx # 0)
<1>1. PICK line \in Lines :
        LET command == ledger.next
            noted == Record(ledger, Report("shell", Target(line), "command", "ok",
                                           ledger.current, "command"))
            tx == BeginResult(noted)
            begun == Begin(noted, "shell", Target(line), command)
        IN  /\ ledger' = SetTx(SetCurrent(begun, IF tx = 0 THEN command ELSE tx), tx)
            /\ job' = [line |-> line, tx |-> tx, event |-> command, ok |-> tx # 0]
  BY DEF Accept
<1> DEFINE noted == Record(ledger, Report("shell", Target(line), "command", "ok",
                                          ledger.current, "command"))
           tx == BeginResult(noted)
<1>2. /\ ledger' = SetTx(SetCurrent(Begin(noted, "shell", Target(line), ledger.next),
                                    IF tx = 0 THEN ledger.next ELSE tx), tx)
      /\ job' = [line |-> line, tx |-> tx, event |-> ledger.next, ok |-> tx # 0]
  BY <1>1
<1>3. /\ phase = "prompt" /\ phase' = "execute" /\ UNCHANGED <<policy, config>>
      /\ ledger.next + CommandCost =< MaxSeq + 1
  BY DEF Accept
<1>4. Idle(ledger) /\ Fit(ledger) /\ 1 < ledger.next
  <2>1. Idle(ledger) /\ Whole(ledger) /\ 1 < ledger.next
    BY <1>3 DEF ShellInvariant, LedgerPart
  <2> QED
    BY <2>1, FitIsSettled DEF Idle
<1>5. ledger.next \in Nat /\ ledger.next + 2 =< MaxSeq + 1
  <2>1. ledger.next \in Nat
    BY <1>4 DEF Fit, Whole, LedgerType
  <2> QED
    BY <1>3, <2>1, LineAssumption, CapacityAssumption
<1>18. /\ noted = Record(ledger, Report("shell", Target(line), "command", "ok",
                                       ledger.current, "command"))
       /\ tx = BeginResult(noted)
  OBVIOUS
<1> HIDE DEF tx, noted
<1>19. Accepted(ledger, ledger', tx, Target(line))
  BY <1>2, <1>4, <1>5, <1>18, AcceptGoes
<1>6. /\ Whole(ledger') /\ 1 < ledger'.next
      /\ tx \in {0, ledger.next + 1} /\ ledger'.tx = tx /\ OpenIds(ledger') = {tx} \ {0}
      /\ ledger'.current = (IF tx = 0 THEN ledger.next ELSE tx)
      /\ ledger.next \in 1..(ledger'.next - 1)
      /\ \A name \in Names : Shown(ledger', name) = Shown(ledger, name)
      /\ Accepts(ledger, ledger', ledger.next, tx)
  BY <1>19 DEF Accepted
<1>17. AllTally(ledger) => AllTally(ledger') /\ Unrevised(ledger', tx, Target(line))
  BY <1>19 DEF Accepted
<1>7. /\ job'.tx = tx /\ job'.event = ledger.next /\ job'.line = line /\ job'.ok = (tx # 0)
      /\ job' \in [line : Lines \cup {NoLine}, tx : Nat, event : Nat, ok : BOOLEAN]
  <2>1. tx \in Nat
    BY <1>5, <1>6
  <2> QED
    BY <1>2, <1>5, <2>1
<1>8. Busy(ledger', job')
  <2>1. tx # 0 => ledger.next < tx
    BY <1>5, <1>6
  <2> QED
    BY <1>6, <1>7, <2>1 DEF Busy
<1>9. /\ "shell" \in Names /\ DOMAIN FirstConfig \subseteq Names /\ ThePolicy \in Names
  BY BootWordAssumption, PolicyWordAssumption
<1>10. LedgerPart'
  BY <1>3, <1>6, <1>8, <1>9 DEF LedgerPart, ShellInvariant, BootPhases
<1>11. PolicyPart'
  BY <1>3, <1>6, <1>9 DEF PolicyPart, ShellInvariant
<1>12. ConfigPart'
  BY <1>3, <1>6, <1>9 DEF ConfigPart, ShellInvariant, BootPhases
<1>13. ShellPart'
  BY <1>3, <1>7 DEF ShellPart, ShellInvariant
<1>14. Accepts(ledger, ledger', job'.event, job'.tx)
  BY <1>6, <1>7
<1>15. ShellInvariant'
  BY <1>10, <1>11, <1>12, <1>13 DEF ShellInvariant
<1>16. AllTally(ledger) => AllTally(ledger') /\ Unrevised(ledger', job'.tx, Target(job'.line))
  BY <1>7, <1>17
<1> QED
  BY <1>3, <1>6, <1>7, <1>9, <1>14, <1>15, <1>16

\* What it records when it ends: the end of its transaction, if it has one, caused
\* by the last event of that.
Finishes(l, m, tx) ==
  \A event \in Seen(m) \ Seen(l) :
    /\ tx # 0 /\ event.seq = l.next /\ event.tx = tx
    /\ event.kind = "transaction" /\ event.op # "exception"
    /\ event.parent \in tx..(l.next - 1)
    /\ \A cause \in Seen(l) : cause.seq = event.parent => cause.tx = tx

\* The end of the turn.
LEMMA CloseJobGoes ==
  ASSUME NEW l, Whole(l), NEW tx, OpenIds(l) = {tx} \ {0}, 1 < l.next,
         NEW ok \in BOOLEAN
  PROVE  /\ Whole(CloseJob(l, tx, ok)) /\ Idle(CloseJob(l, tx, ok))
         /\ 1 < CloseJob(l, tx, ok).next
         /\ \A name \in Names : Shown(CloseJob(l, tx, ok), name) = Shown(l, name)
         /\ Finishes(l, CloseJob(l, tx, ok), tx)
         /\ AllTally(l) /\ Ripe(l, tx, ok) => AllTally(CloseJob(l, tx, ok))
<1> DEFINE closed == IF ok THEN Commit(l, tx) ELSE Abort(l, tx)
           apart == SetTx(closed, 0)
           final == SetCurrent(apart, 1)
<1>1. CloseJob(l, tx, ok) = final
  BY DEF CloseJob
<1>2. l.next \in Nat
  BY DEF Whole, LedgerType
<1>8. ASSUME tx # 0, NEW event, NEW op, NEW result,
             Tells(event, CloseReport(l, tx, op, result))
      PROVE  /\ event.kind = "transaction" /\ event.op = op
             /\ event.parent \in tx..(l.next - 1)
             /\ \A cause \in Seen(l) : cause.seq = event.parent => cause.tx = tx
  <2> DEFINE k == TxIndex(l, tx)
  <2>1. tx \in OpenIds(l)
    BY <1>8
  <2>2. k \in DOMAIN l.txs /\ l.txs[k].id = tx
    BY <2>1, OpenIdsType
  <2>3. event.kind = "transaction" /\ event.op = op /\ event.parent = l.txs[k].end
    BY <1>8 DEF Tells, CloseReport, Report
  <2> HIDE DEF k
  <2>4. l.txs[k].end \in Nat /\ l.txs[k].id \in Nat /\ l.txs[k].begin \in Nat
    BY <2>2, TableType DEF Whole, Transaction
  <2>5. tx =< l.txs[k].end /\ l.txs[k].end < l.next
    BY <2>2 DEF Whole, Sound, Recorded, Books, Numbered
  <2>6. \A cause \in Seen(l) : cause.seq = l.txs[k].end => cause.tx = tx
    BY <2>2 DEF Whole, Books, Enveloped, Seen
  <2> QED
    BY <1>2, <2>2, <2>3, <2>4, <2>5, <2>6
<1>3. /\ Whole(closed) /\ OpenIds(closed) = {} /\ closed.next \in Nat /\ 1 < closed.next
      /\ \A name \in Names : Shown(closed, name) = Shown(l, name)
      /\ Finishes(l, closed, tx)
  <2>1. CASE tx = 0
    <3>1. closed = l
      BY <2>1, CommitOfNone
    <3> HIDE DEF closed
    <3> QED
      BY <1>2, <2>1, <3>1 DEF Finishes
  <2>2. CASE tx # 0
    <3>1. tx \in OpenIds(l)
      BY <2>2
    <3>2. Closes(l, closed, tx)
      BY <3>1, CommitGoes
    <3> HIDE DEF closed
    <3>3. closed.next \in Nat /\ 1 < closed.next
      BY <1>2, <3>2 DEF Closes
    <3>4. \A event \in Seen(closed) \ Seen(l) :
            /\ event.seq = l.next /\ event.tx = tx
            /\ \/ Tells(event, CloseReport(l, tx, "commit", "ok"))
               \/ Tells(event, CloseReport(l, tx, "abort", "denied"))
      BY <3>2 DEF Closes
    <3>5. Finishes(l, closed, tx)
      BY <1>8, <2>2, <3>4 DEF Finishes
    <3> QED
      BY <3>2, <3>3, <3>5 DEF Closes
  <2> QED
    BY <2>1, <2>2
<1>10. AllTally(l) /\ Ripe(l, tx, ok) => AllTally(closed)
  BY CloseTallies
<1> HIDE DEF closed
<1>4. Sets(closed, apart, closed.current, 0)
  BY <1>3, SetTxSets
<1> HIDE DEF apart
<1>5. /\ Whole(apart) /\ apart.tx = 0 /\ apart.next = closed.next /\ OpenIds(apart) = {}
      /\ \A name \in Names : Shown(apart, name) = Shown(l, name)
  BY <1>3, <1>4 DEF Sets
<1>6. Sets(apart, final, 1, 0)
  BY <1>3, <1>5, SetCurrentSets
<1> HIDE DEF final
<1>7. /\ Whole(final) /\ Idle(final) /\ 1 < final.next
      /\ \A name \in Names : Shown(final, name) = Shown(l, name)
  BY <1>3, <1>5, <1>6 DEF Sets, Idle
<1>9. Finishes(l, final, tx)
  <2>1. Seen(final) = Seen(closed)
    BY <1>4, <1>6 DEF Sets
  <2> QED
    BY <1>3, <2>1 DEF Finishes
<1>11. AllTally(l) /\ Ripe(l, tx, ok) => AllTally(final)
  BY <1>4, <1>6, <1>10, TallySets
<1> QED
  BY <1>1, <1>7, <1>9, <1>11

LEMMA FinishStep ==
  ASSUME ShellInvariant, Finish
  PROVE  /\ ShellInvariant' /\ phase = "finish" /\ phase' = "prompt"
         /\ Finishes(ledger, ledger', job.tx)
         /\ Shown(ledger', "shell") = Shown(ledger, "shell")
         /\ AllTally(ledger) /\ Ripe(ledger, job.tx, job.ok) => AllTally(ledger')
<1>1. /\ phase = "finish" /\ phase' = "prompt" /\ job' = NoJob
      /\ ledger' = CloseJob(ledger, job.tx, job.ok) /\ UNCHANGED <<policy, config>>
  BY DEF Finish
<1>2. /\ Whole(ledger) /\ Busy(ledger, job) /\ 1 < ledger.next /\ Shown(ledger, "shell") # {}
      /\ job.ok \in BOOLEAN
  BY <1>1 DEF ShellInvariant, LedgerPart, ShellPart
<1>3. /\ Whole(ledger') /\ Idle(ledger') /\ 1 < ledger'.next
      /\ \A name \in Names : Shown(ledger', name) = Shown(ledger, name)
      /\ Finishes(ledger, ledger', job.tx)
      /\ AllTally(ledger) /\ Ripe(ledger, job.tx, job.ok) => AllTally(ledger')
  BY <1>1, <1>2, CloseJobGoes DEF Busy
<1>4. /\ "shell" \in Names /\ DOMAIN FirstConfig \subseteq Names /\ ThePolicy \in Names
  BY BootWordAssumption, PolicyWordAssumption
<1>5. LedgerPart'
  BY <1>1, <1>2, <1>3, <1>4 DEF LedgerPart
<1>6. PolicyPart'
  BY <1>1, <1>3, <1>4 DEF PolicyPart, ShellInvariant
<1>7. ConfigPart'
  BY <1>1, <1>3, <1>4 DEF ConfigPart, ShellInvariant, BootPhases
<1>8. ShellPart'
  BY <1>1 DEF ShellPart, NoJob
<1>9. ShellInvariant'
  BY <1>5, <1>6, <1>7, <1>8 DEF ShellInvariant
<1> QED
  BY <1>1, <1>3, <1>4, <1>9

(***************************************************************************)
(* The bodies: what each does to the ledger.                               *)
(***************************************************************************)
\* A body runs in a command whose calls change those objects only, and leaves
\* the current event as it was.
Body(changed) ==
  /\ phase = "execute" /\ phase' \in {"finish", "halted"}
  /\ Does(ledger, ledger', changed, job.event)
  /\ ledger'.current = ledger.current
  /\ job' = [job EXCEPT !.ok = job'.ok] /\ job'.ok \in BOOLEAN

\* The target of the command is revised as the body journals, and not at all if
\* the body failed.
RevisesTarget ==
  /\ Spans(ledger, ledger', Target(job.line))
  /\ \/ job'.ok = job.ok
     \/ Revision(ledger', Target(job.line)) = Revision(ledger, Target(job.line))

\* Whatever it changes, the shell's own object is not among it.
RunsBody ==
  /\ \E changed : Body(changed)
  /\ Shown(ledger', "shell") = Shown(ledger, "shell")
  /\ RevisesTarget

\* The command so far.
Under(m, changed) ==
  Does(ledger, m, changed, job.event) /\ m.current = ledger.current

LEMMA TurnBegins ==
  ASSUME ShellInvariant, phase = "execute"
  PROVE  /\ Whole(ledger) /\ Fit(ledger) /\ Under(ledger, {})
         /\ job.event \in 0..(ledger.next - 1) /\ ledger.next \in Nat
         /\ job.line \in Lines /\ job.line.verb \in Labels /\ job.line.arg \in Labels
         /\ Target(job.line) \in Labels
         /\ ledger.current \in 0..(ledger.next - 1)
<1>1. Whole(ledger) /\ Busy(ledger, job) /\ job.line \in Lines
  BY DEF ShellInvariant, LedgerPart, ShellPart
<1>2. ledger.next \in Nat /\ job.event \in 0..(ledger.next - 1)
  <2>1. ledger.next \in Nat
    BY <1>1 DEF Whole, LedgerType
  <2>2. job.event \in 1..(ledger.next - 1)
    BY <1>1 DEF Busy
  <2> QED
    BY <2>1, <2>2
<1>3. Fit(ledger)
  BY <1>1, FitIsSettled DEF Busy
<1>4. Does(ledger, ledger, {}, job.event)
  BY <1>3, DoesNothing
<1>5. ledger.current \in 0..(ledger.next - 1)
  BY <1>1 DEF Whole, LedgerType, Sound, Recorded
<1> QED
  BY <1>1, <1>2, <1>3, <1>4, <1>5, LinesAreTyped DEF Under

LEMMA BodyCompletes ==
  ASSUME ShellInvariant, phase = "execute", NEW m, NEW ok, Completes(m, ok), NEW changed,
         Under(m, changed)
  PROVE  Body(changed)
<1>1. phase' = "finish" /\ ledger' = m /\ job' = [job EXCEPT !.ok = job.ok /\ ok]
  BY DEF Completes
<1>2. job \in [line : Lines \cup {NoLine}, tx : Nat, event : Nat, ok : BOOLEAN]
  BY DEF ShellInvariant, ShellPart
<1>3. job'.ok = (job.ok /\ ok)
  BY <1>1, <1>2
<1>4. job' = [job EXCEPT !.ok = job'.ok]
  BY <1>1, <1>3
<1>5. job'.ok \in BOOLEAN
  BY <1>3
<1> QED
  BY <1>1, <1>4, <1>5 DEF Body, Under

\* What a body leaves of the invariant whatever objects it changes.
LEMMA BodyKeeps ==
  ASSUME ShellInvariant, NEW changed, Body(changed), Shown(ledger', "shell") # {}
  PROVE  LedgerPart' /\ ShellPart'
<1>1. /\ phase = "execute" /\ phase' \in {"finish", "halted"}
      /\ Does(ledger, ledger', changed, job.event) /\ ledger'.current = ledger.current
      /\ job' = [job EXCEPT !.ok = job'.ok] /\ job'.ok \in BOOLEAN
  BY DEF Body
<1>2. /\ Whole(ledger') /\ ledger'.tx = ledger.tx /\ OpenIds(ledger') = OpenIds(ledger)
      /\ ledger.next =< ledger'.next
  BY <1>1 DEF Does, Fit
<1>3. Busy(ledger, job) /\ 1 < ledger.next /\ ledger.next \in Nat /\ ledger'.next \in Nat
  BY <1>1, <1>2 DEF ShellInvariant, LedgerPart, Whole, LedgerType
<1>4. /\ job' \in [line : Lines \cup {NoLine}, tx : Nat, event : Nat, ok : BOOLEAN]
      /\ job'.tx = job.tx /\ job'.event = job.event
  BY <1>1 DEF ShellInvariant, ShellPart
<1>5. Busy(ledger', job')
  <2>1. job'.event \in 1..(ledger'.next - 1)
    <3>1. job.event \in 1..(ledger.next - 1)
      BY <1>3 DEF Busy
    <3> QED
      BY <1>2, <1>3, <1>4, <3>1
  <2>2. job'.tx # 0 => job'.event < job'.tx
    BY <1>3, <1>4 DEF Busy
  <2> QED
    BY <1>1, <1>2, <1>3, <1>4, <2>1, <2>2 DEF Busy
<1>6. LedgerPart'
  BY <1>1, <1>2, <1>3, <1>5 DEF LedgerPart, BootPhases
<1>7. ShellPart'
  BY <1>1, <1>4 DEF ShellPart, ShellInvariant
<1> QED
  BY <1>6, <1>7

\* What it leaves of the policy and of the configuration, and what it changes, apart.
LEMMA BodyKeepsPolicy ==
  ASSUME ShellInvariant, NEW changed, Body(changed), ThePolicy \notin changed,
         UNCHANGED policy
  PROVE  PolicyPart'
<1>1. /\ phase = "execute" /\ phase' \in {"finish", "halted"}
      /\ Shown(ledger', ThePolicy) = Shown(ledger, ThePolicy)
  BY PolicyWordAssumption DEF Body, Does
<1> QED
  BY <1>1 DEF PolicyPart, ShellInvariant

LEMMA BodyKeepsConfig ==
  ASSUME ShellInvariant, NEW changed, Body(changed), changed \cap DOMAIN FirstConfig = {},
         UNCHANGED config
  PROVE  ConfigPart'
<1>1. DOMAIN FirstConfig \subseteq Names
  BY BootWordAssumption
<1>2. /\ phase = "execute" /\ phase' \in {"finish", "halted"}
      /\ \A key \in DOMAIN FirstConfig : Shown(ledger', key) = Shown(ledger, key)
  BY <1>1 DEF Body, Does
<1> QED
  BY <1>2 DEF ConfigPart, ShellInvariant, BootPhases

LEMMA BodyKeepsShell ==
  ASSUME ShellInvariant, NEW changed, Body(changed), "shell" \notin changed, RevisesTarget
  PROVE  Shown(ledger', "shell") # {} /\ RunsBody
<1>1. "shell" \in Names
  BY BootWordAssumption
<1>2. Shown(ledger', "shell") = Shown(ledger, "shell")
  BY <1>1 DEF Body, Does
<1>3. Shown(ledger, "shell") # {}
  BY DEF Body, ShellInvariant, LedgerPart
<1> QED
  BY <1>2, <1>3 DEF RunsBody

\* A body that changes nothing, and one that succeeds and whose target lasts.
LEMMA QuietBodyRevises ==
  ASSUME ShellInvariant, Body({})
  PROVE  RevisesTarget
<1>1. Whole(ledger) /\ ledger \in LedgerType
  BY DEF Body, ShellInvariant, LedgerPart, Whole
<1>2. Quiet(ledger, ledger')
  BY DEF Body, Does
<1>3. Spans(ledger, ledger', Target(job.line))
  BY <1>1, <1>2, QuietSpans
<1>4. Revision(ledger', Target(job.line)) = Revision(ledger, Target(job.line))
  BY <1>1, <1>2, RevisionIsFound DEF Quiet
<1> QED
  BY <1>3, <1>4 DEF RevisesTarget

LEMMA LastingBodyRevises ==
  ASSUME ShellInvariant, NEW changed, Body(changed), NEW m, Completes(m, TRUE),
         Lasts(ledger, Target(job.line))
  PROVE  RevisesTarget
<1>1. Spans(ledger, ledger', Target(job.line))
  BY DEF Body, Does
<1>2. job \in [line : Lines \cup {NoLine}, tx : Nat, event : Nat, ok : BOOLEAN]
  BY DEF ShellInvariant, ShellPart
<1>3. job'.ok = job.ok
  BY <1>2 DEF Completes
<1> QED
  BY <1>1, <1>3 DEF RevisesTarget

LEMMA BodyStep ==
  ASSUME ShellInvariant, Body({}), UNCHANGED <<policy, config>>
  PROVE  ShellInvariant' /\ RunsBody
<1>1. LedgerPart' /\ ShellPart' /\ RunsBody
  BY BodyKeepsShell, BodyKeeps, QuietBodyRevises
<1>2. PolicyPart' /\ ConfigPart'
  BY BodyKeepsPolicy, BodyKeepsConfig
<1> QED
  BY <1>1, <1>2 DEF ShellInvariant

\* A check and its effect as the whole body.
LEMMA CheckedBody ==
  ASSUME ShellInvariant, phase = "execute", NEW target \in Labels, NEW operation,
         NEW actor \in Labels, NEW op \in Operations,
         op \notin {"exception", "state_update"},
         NEW kind \in {"state", "query"}
  PROVE  Under(Checked(ledger, target, operation, actor, op, kind), {})
<1>1. /\ Whole(ledger) /\ Does(ledger, ledger, {}, job.event)
      /\ job.event \in 0..(ledger.next - 1)
  BY TurnBegins DEF Under
<1>2. Does(ledger, Checked(ledger, target, operation, actor, op, kind), {}, job.event)
  BY <1>1, DoesChecked
<1>3. Checked(ledger, target, operation, actor, op, kind).current = ledger.current
  BY DEF Checked, Check, PolicyCheck, Record
<1> QED
  BY <1>2, <1>3 DEF Under

LEMMA TellBody ==
  ASSUME ShellInvariant, Tell
  PROVE  Body({})
BY TurnBegins, BodyCompletes DEF Tell

LEMMA DrawBody ==
  ASSUME ShellInvariant, Draw
  PROVE  Body({})
<1>1. phase = "execute"
  BY DEF Draw, Running
<1>2. /\ "window" \in Labels /\ "shell" \in Labels
      /\ "clear" \in Operations /\ "redraw" \in Operations
  BY BootWordAssumption, WordsAreTyped
<1>3. /\ Under(Checked(ledger, "window", "ui:clear", "shell", "clear", "state"), {})
      /\ Under(Checked(ledger, "window", "ui:redraw", "shell", "redraw", "state"), {})
  BY <1>1, <1>2, CheckedBody
<1> QED
  BY <1>1, <1>3, BodyCompletes DEF Draw

LEMMA MeminfoBody ==
  ASSUME ShellInvariant, Meminfo
  PROVE  Body({})
<1>1. phase = "execute"
  BY DEF Meminfo, Running
<1>2. "memory" \in Labels /\ "inspect" \in Operations
  BY BootWordAssumption, WordsAreTyped
<1>3. Under(ShowMeminfo(ledger), {})
  BY <1>1, <1>2, CheckedBody DEF ShowMeminfo
<1> QED
  BY <1>1, <1>3, BodyCompletes DEF Meminfo

LEMMA ListFilesBody ==
  ASSUME ShellInvariant, ListFiles
  PROVE  Body({})
<1>1. phase = "execute"
  BY DEF ListFiles, Running
<1>2. "ramfs" \in Labels /\ "list" \in Operations
  BY BootWordAssumption, WordsAreTyped
<1>3. Under(Checked(ledger, "ramfs", "filesystem:list", "ramfs", "list", "state"), {})
  BY <1>1, <1>2, CheckedBody
<1> QED
  BY <1>1, <1>3, BodyCompletes DEF ListFiles

LEMMA ShowPolicyBody ==
  ASSUME ShellInvariant, ShowPolicy
  PROVE  Body({})
<1>1. phase = "execute"
  BY DEF ShowPolicy, Running
<1>2. ThePolicy \in Labels /\ "shell" \in Labels /\ "policy_show" \in Operations
  BY BootWordAssumption, WordsAreTyped
<1>3. Under(Checked(ledger, ThePolicy, "policy:show", "shell", "policy_show", "query"), {})
  BY <1>1, <1>2, CheckedBody
<1> QED
  BY <1>1, <1>3, BodyCompletes DEF ShowPolicy

LEMMA MisusePolicyBody ==
  ASSUME ShellInvariant, MisusePolicy
  PROVE  Body({})
BY TurnBegins, BodyCompletes DEF MisusePolicy, Running

LEMMA QueryBody ==
  ASSUME ShellInvariant, Query
  PROVE  Body({})
<1>1. phase = "execute" /\ job.line.verb \in QueryVerbs
  BY DEF Query
<1>2. /\ Target(job.line) \in Labels /\ "shell" \in Labels /\ job.line.verb \in Operations
      /\ job.line.verb \notin {"exception", "state_update"}
  BY <1>1, TurnBegins, BootWordAssumption, WordsAreTyped DEF QueryVerbs
<1>3. Under(Checked(ledger, Target(job.line), job.line.verb, "shell", job.line.verb, "query"), {})
  BY <1>1, <1>2, CheckedBody
<1> QED
  BY <1>1, <1>3, BodyCompletes DEF Query

LEMMA DenyPolicyBody ==
  ASSUME ShellInvariant, DenyPolicy
  PROVE  Body({})
<1>1. phase = "execute"
  BY DEF DenyPolicy, Running
<1>2. "kernel" \in Labels /\ "shell" \in Labels /\ "reboot" \in Operations
  BY BootWordAssumption, WordsAreTyped
<1>3. Under(Checked(ledger, "kernel", "kernel:reboot", "shell", "reboot", "state"), {})
  BY <1>1, <1>2, CheckedBody
<1> QED
  BY <1>1, <1>3, BodyCompletes DEF DenyPolicy

\* The decision that starts a body, and the effects it allows.
Granted(m, target) ==
  Under(m, {}) /\ ledger.next < m.next /\ Decided(m, ledger.next, target)

LEMMA CheckBody ==
  ASSUME ShellInvariant, phase = "execute", NEW target \in Labels, NEW operation
  PROVE  /\ Under(Check(ledger, target, operation), {})
         /\ Permitted(target, operation) => Granted(Check(ledger, target, operation), target)
<1> DEFINE m == Check(ledger, target, operation)
<1>1. /\ Whole(ledger) /\ Does(ledger, ledger, {}, job.event)
      /\ job.event \in 0..(ledger.next - 1) /\ ledger.next \in Nat
  BY TurnBegins DEF Under
<1>2. Does(ledger, m, {}, job.event)
  BY <1>1, DoesCheck
<1>3. m.current = ledger.current /\ m.next = ledger.next + 1
  BY <1>1 DEF Check, PolicyCheck, Record, Whole, LedgerType
<1>4. Permitted(target, operation) => Decided(m, ledger.next, target)
  BY <1>1, DoesCheck
<1> HIDE DEF m
<1>5. Under(m, {}) /\ ledger.next < m.next
  BY <1>1, <1>2, <1>3 DEF Under
<1>6. Permitted(target, operation) => Granted(m, target)
  BY <1>4, <1>5 DEF Granted
<1> QED
  BY <1>5, <1>6 DEF m

LEMMA EffectBody ==
  ASSUME ShellInvariant, phase = "execute", NEW k, NEW target \in Labels, Granted(k, target),
         NEW actor \in Labels, NEW op \in Operations,
         op \notin {"exception", "state_update"},
         NEW result \in Results, NEW kind \in Kinds, kind # "command"
  PROVE  Granted(Record(k, Report(actor, target, op, result, ledger.next, kind)), target)
<1> DEFINE m == Record(k, Report(actor, target, op, result, ledger.next, kind))
<1>1. /\ Whole(ledger) /\ job.event \in 0..(ledger.next - 1) /\ ledger.next \in Nat
  BY TurnBegins
<1>2. /\ Does(ledger, k, {}, job.event) /\ k.current = ledger.current
      /\ ledger.next < k.next /\ Decided(k, ledger.next, target)
  BY DEF Granted, Under
<1>3. k \in LedgerType /\ k.next \in Nat
  BY <1>2 DEF Does, Fit, Whole, LedgerType
<1>4. ledger.next \in ledger.next..(k.next - 1)
  BY <1>1, <1>2, <1>3
<1>5. Does(ledger, m, {}, job.event) /\ Decided(m, ledger.next, target)
  BY <1>1, <1>2, <1>4, DoesEffect
<1>6. m.current = k.current /\ m.next = k.next + 1
  BY <1>3, RecordFrame
<1> HIDE DEF m
<1>7. ledger.next < m.next
  BY <1>1, <1>2, <1>3, <1>6
<1>8. Granted(m, target)
  BY <1>2, <1>5, <1>6, <1>7 DEF Granted, Under
<1> QED
  BY <1>8 DEF m

\* ramfs_lookup.
LEMMA LookupBody ==
  ASSUME ShellInvariant, phase = "execute", NEW path \in Labels, NEW operation,
         Permitted(path, operation)
  PROVE  Granted(Lookup(Check(ledger, path, operation), path, ledger.next), path)
<1> DEFINE decided == Check(ledger, path, operation)
           result == IF path \in Files THEN "ok" ELSE "denied"
<1>1. Granted(decided, path)
  BY CheckBody
<1>2. /\ result \in Results /\ "ramfs" \in Labels /\ "lookup" \in Operations
      /\ "state" \in Kinds
  BY BootWordAssumption, WordsAreTyped
<1> HIDE DEF decided, result
<1>3. Granted(Record(decided, Report("ramfs", path, "lookup", result, ledger.next, "state")),
              path)
  BY <1>1, <1>2, EffectBody
<1> QED
  BY <1>3 DEF Lookup, decided, result

LEMMA CatBody ==
  ASSUME ShellInvariant, Cat
  PROVE  Body({})
<1> DEFINE path == job.line.arg
           decided == Check(ledger, path, "filesystem:read")
           looked == Lookup(decided, path, ledger.next)
           read == Record(looked, Report("ramfs", path, "read", "ok", ledger.next, "state"))
           final == IF ~ Permitted(path, "filesystem:read") THEN decided
                    ELSE IF path \in Files THEN read ELSE looked
<1>1. phase = "execute" /\ Completes(final, TRUE)
  BY DEF Cat, Running, Fetch
<1>2. path \in Labels
  BY <1>1, TurnBegins
<1>3. /\ "ramfs" \in Labels /\ "read" \in Operations /\ "ok" \in Results /\ "state" \in Kinds
  BY BootWordAssumption, WordsAreTyped
<1>4. Under(decided, {})
  BY <1>1, <1>2, CheckBody
<1>5. ASSUME Permitted(path, "filesystem:read")
      PROVE  Under(looked, {}) /\ Under(read, {})
  <2>1. Granted(looked, path)
    BY <1>1, <1>2, <1>5, LookupBody
  <2> HIDE DEF looked
  <2>2. Granted(read, path)
    BY <1>1, <1>2, <1>3, <2>1, EffectBody
  <2> QED
    BY <2>1, <2>2 DEF Granted
<1> HIDE DEF decided, looked, read
<1>6. Under(final, {})
  BY <1>4, <1>5
<1> HIDE DEF final
<1> QED
  BY <1>1, <1>6, BodyCompletes

LEMMA RunModuleBody ==
  ASSUME ShellInvariant, RunModule
  PROVE  Body({})
<1> DEFINE path == job.line.arg
           decided == Check(ledger, path, "module:load")
           looked == Lookup(decided, path, ledger.next)
           refused == Record(looked, Report("ramfs", path, "type_check", "denied",
                                            ledger.next, "policy"))
           read == Record(looked, Report("ramfs", path, "read", "ok", ledger.next, "state"))
           ran == ShowMeminfo(read)
           loaded == IF path \notin Modules THEN refused
                     ELSE IF path = "/modules/MEMORY.MOD" THEN ran ELSE read
           final == IF ~ Permitted(path, "module:load") THEN decided
                    ELSE IF path \in Files THEN loaded ELSE looked
<1>1. phase = "execute" /\ Completes(final, TRUE)
  BY DEF RunModule, Running, Fetch
<1>2. path \in Labels
  BY <1>1, TurnBegins
<1>3. /\ "ramfs" \in Labels /\ "memory" \in Labels
      /\ {"read", "type_check", "inspect"} \subseteq Operations
      /\ "ok" \in Results /\ "denied" \in Results /\ "state" \in Kinds /\ "policy" \in Kinds
  BY BootWordAssumption, WordsAreTyped
<1>4. Under(decided, {})
  BY <1>1, <1>2, CheckBody
<1>5. ASSUME Permitted(path, "module:load")
      PROVE  Under(looked, {}) /\ Under(refused, {}) /\ Under(read, {}) /\ Under(ran, {})
  <2>1. Granted(looked, path)
    BY <1>1, <1>2, <1>5, LookupBody
  <2> HIDE DEF looked
  <2>2. Granted(read, path)
    BY <1>1, <1>2, <1>3, <2>1, EffectBody
  <2>3. Granted(refused, path)
    BY <1>1, <1>2, <1>3, <2>1, EffectBody
  <2> HIDE DEF read, refused
  <2>4. Under(ran, {})
    <3>1. /\ Does(ledger, read, {}, job.event) /\ read.current = ledger.current
          /\ Whole(ledger) /\ job.event \in 0..(ledger.next - 1)
      BY <1>1, <2>2, TurnBegins DEF Granted, Under
    <3>2. Does(ledger, ran, {}, job.event)
      BY <1>3, <3>1, DoesChecked DEF ShowMeminfo
    <3>3. ran.current = read.current
      BY DEF ShowMeminfo, Checked, Check, PolicyCheck, Record
    <3> QED
      BY <3>1, <3>2, <3>3 DEF Under
  <2> QED
    BY <2>1, <2>2, <2>3, <2>4 DEF Granted
<1> HIDE DEF decided, looked, refused, read, ran
<1>6. Under(final, {})
  BY <1>4, <1>5
<1> HIDE DEF final
<1> QED
  BY <1>1, <1>6, BodyCompletes

LEMMA ShowConfigBody ==
  ASSUME ShellInvariant, ShowConfig
  PROVE  Body({})
<1> DEFINE key == job.line.arg
           found == key \in DOMAIN config
           result == IF found THEN "ok" ELSE "denied"
           got == Report("config", key, "get", result, ledger.next, "state")
           decided == Check(ledger, key, "config:get")
<1>1. phase = "execute" /\ IF Permitted(key, "config:get")
                           THEN Completes(Record(decided, got), found)
                           ELSE Completes(decided, FALSE)
  BY DEF ShowConfig, Running
<1>2. key \in Labels
  BY <1>1, TurnBegins
<1>3. "config" \in Labels /\ "get" \in Operations /\ result \in Results /\ "state" \in Kinds
  BY BootWordAssumption, WordsAreTyped
<1> HIDE DEF result
<1>4. Under(decided, {})
  BY <1>1, <1>2, CheckBody
<1>5. ASSUME Permitted(key, "config:get")
      PROVE  Under(Record(decided, got), {})
  <2>1. Granted(decided, key)
    BY <1>1, <1>2, <1>5, CheckBody
  <2> HIDE DEF decided
  <2>2. Granted(Record(decided, got), key)
    BY <1>1, <1>2, <1>3, <2>1, EffectBody
  <2> QED
    BY <2>2 DEF Granted
<1> HIDE DEF decided, got, found
<1> QED
  BY <1>1, <1>4, <1>5, BodyCompletes

LEMMA UnknownBody ==
  ASSUME ShellInvariant, Unknown
  PROVE  Body({})
<1> DEFINE report == Report("shell", job.line.verb, "command", "denied", job.event, "action")
           final == Record(ledger, report)
<1>1. phase = "execute" /\ Completes(final, FALSE)
  BY DEF Unknown
<1>2. /\ Whole(ledger) /\ Does(ledger, ledger, {}, job.event) /\ ledger.next \in Nat
      /\ job.event \in 0..(ledger.next - 1) /\ job.line.verb \in Labels
  BY <1>1, TurnBegins DEF Under
<1>3. report \in ReportType
  <2>1. job.event \in Nat
    BY <1>2
  <2>2. "shell" \in Labels /\ "command" \in Operations /\ "denied" \in Results /\ "action" \in Kinds
    BY BootWordAssumption, WordsAreTyped
  <2> QED
    BY <1>2, <2>1, <2>2, ReportIsTyped
<1>4. /\ report.parent = job.event /\ report.kind = "action"
      /\ report.op # "state_update"
  BY DEF Report
<1> HIDE DEF report
<1>5. Follows(ledger, ledger, job.event, report)
  BY <1>4 DEF Follows, Effect
<1>6. Does(ledger, final, {}, job.event)
  BY <1>2, <1>3, <1>4, <1>5, DoesRecord
<1>7. final.current = ledger.current
  BY DEF Record
<1> HIDE DEF final
<1> QED
  BY <1>1, <1>6, <1>7, BodyCompletes DEF Under

LEMMA FaultBody ==
  ASSUME ShellInvariant, Fault
  PROVE  Body({})
<1> DEFINE report == Report("shell", "kernel", "fault_injection", "fault", job.event, "action")
           injected == Record(ledger, report)
           caught == Report("cpu", "kernel", "exception", "fault", 0, "action")
           final == Record(injected, caught)
<1>1. phase = "execute" /\ phase' = "halted" /\ ledger' = final /\ job' = job
  BY DEF Fault, Running
<1>2. /\ Whole(ledger) /\ Does(ledger, ledger, {}, job.event) /\ ledger.next \in Nat
      /\ job.event \in 0..(ledger.next - 1)
  BY <1>1, TurnBegins DEF Under
<1>3. report \in ReportType /\ caught \in ReportType
  <2>1. job.event \in Nat /\ 0 \in Nat
    BY <1>2
  <2>2. /\ {"shell", "kernel", "cpu"} \subseteq Labels
        /\ {"fault_injection", "exception"} \subseteq Operations
        /\ "fault" \in Results /\ "action" \in Kinds
    BY BootWordAssumption, WordsAreTyped
  <2> QED
    BY <2>1, <2>2, ReportIsTyped
<1>4. /\ report.parent = job.event /\ report.kind = "action"
      /\ caught.parent = 0 /\ caught.kind = "action" /\ caught.op = "exception"
      /\ report.op # "state_update" /\ caught.op # "state_update"
  BY DEF Report
<1> HIDE DEF report, caught
<1>5. Follows(ledger, ledger, job.event, report) /\ Follows(ledger, injected, job.event, caught)
  BY <1>4 DEF Follows, Effect
<1>6. Does(ledger, injected, {}, job.event)
  BY <1>2, <1>3, <1>4, <1>5, DoesRecord
<1>7. injected.current = ledger.current
  BY DEF Record
<1> HIDE DEF injected
<1>8. 0 \in 0..(injected.next - 1)
  <2>1. injected.next \in Nat \ {0}
    BY <1>6 DEF Does, Fit, Whole, LedgerType
  <2> QED
    BY <2>1
<1>9. Does(ledger, final, {}, job.event)
  BY <1>2, <1>3, <1>4, <1>5, <1>6, <1>8, DoesRecord
<1>10. final.current = ledger.current
  BY <1>7 DEF Record
<1> HIDE DEF final
<1>11. job' = [job EXCEPT !.ok = job'.ok] /\ job'.ok \in BOOLEAN
  BY <1>1 DEF ShellInvariant, ShellPart
<1> QED
  BY <1>1, <1>9, <1>10, <1>11 DEF Body

\* An object changed under a decision, by an event the decision causes: as the
\* current event is set to it and back.
LEMMA UpdateBody ==
  ASSUME ShellInvariant, phase = "execute", NEW k, NEW changed,
         Does(ledger, k, changed, job.event), k.current = ledger.next,
         ledger.next < k.next, NEW name \in Names, Decided(k, ledger.next, name),
         NEW state \in States
  PROVE  /\ Does(ledger, UpdateState(k, name, state), changed \cup {name}, job.event)
         /\ ledger.next < UpdateState(k, name, state).next
         /\ Updates(k, UpdateState(k, name, state), name, state)
<1>1. /\ Whole(ledger) /\ job.event \in 0..(ledger.next - 1) /\ ledger.next \in Nat
  BY TurnBegins
<1>2. Fit(k) /\ k.next \in Nat
  BY DEF Does, Fit, Whole, LedgerType
<1>3. k.current \in ledger.next..(k.next - 1) /\ Decided(k, k.current, name)
  BY <1>1, <1>2
<1>4. Does(ledger, UpdateState(k, name, state), changed \cup {name}, job.event)
  BY <1>1, <1>3, DoesUpdate
<1>5. Updates(k, UpdateState(k, name, state), name, state)
  BY <1>2, UpdateGoes
<1>6. ledger.next < UpdateState(k, name, state).next
  <2>1. k.next =< UpdateState(k, name, state).next
    BY <1>5 DEF Updates, Goes
  <2>2. UpdateState(k, name, state).next \in Nat
    BY <1>4 DEF Does, Fit, Whole, LedgerType
  <2> QED
    BY <1>1, <1>2, <2>1, <2>2
<1> QED
  BY <1>4, <1>5, <1>6

\* The current event is set.
LEMMA SetCurrentBody ==
  ASSUME ShellInvariant, phase = "execute", NEW k, NEW changed,
         Does(ledger, k, changed, job.event), ledger.next < k.next,
         NEW event, event \in {ledger.current, ledger.next}
  PROVE  /\ Does(ledger, SetCurrent(k, event), changed, job.event)
         /\ Sets(k, SetCurrent(k, event), event, k.tx)
<1>1. /\ ledger.next \in Nat /\ ledger.current \in 0..(ledger.next - 1)
  BY TurnBegins
<1>2. Whole(k) /\ k.next \in Nat
  BY DEF Does, Fit, Whole, LedgerType
<1>3. event \in 0..(k.next - 1)
  BY <1>1, <1>2
<1>4. Whole(ledger)
  BY TurnBegins
<1>5. Does(ledger, SetCurrent(k, event), changed, job.event)
  BY <1>3, <1>4, DoesSetCurrent
<1> QED
  BY <1>2, <1>3, <1>5, SetCurrentSets

\* config_set of a key and the event of set_config.
LEMMA ConfigureBody ==
  ASSUME ShellInvariant, phase = "execute", NEW key \in DOMAIN config, key \in Labels,
         Permitted(key, "config:set"), NEW value \in States
  PROVE  LET m == Configure(Check(ledger, key, "config:set"), key, value, ledger.next)
         IN  /\ Under(m, {key})
             /\ Shown(ledger, key) = {} => Shown(m, key) = {}
             /\ \A old \in Shown(ledger, key) :
                  \E new : /\ Shown(m, key) = {new} /\ new.state = value
                           /\ new.rev = old.rev + 1
<1> DEFINE decided == Check(ledger, key, "config:set")
           under == SetCurrent(decided, ledger.next)
           updated == UpdateState(under, key, value)
           back == SetCurrent(updated, ledger.current)
           final == Record(back, Report("config", key, "set", "ok", ledger.next, "state"))
<1>1. DOMAIN config = DOMAIN FirstConfig
  BY DEF ShellInvariant, ConfigPart
<1>2. key \in Names
  BY <1>1, BootWordAssumption
<1>3. /\ Whole(ledger) /\ job.event \in 0..(ledger.next - 1) /\ ledger.next \in Nat
  BY TurnBegins
<1>4. Granted(decided, key)
  BY CheckBody
<1>5. Shown(decided, key) = Shown(ledger, key)
  BY <1>2, <1>4 DEF Granted, Under, Does
<1>6. Configure(decided, key, value, ledger.next) = final
  BY <1>4 DEF Configure, Granted, Under
<1> HIDE DEF decided
<1>7. Does(ledger, under, {}, job.event) /\ Sets(decided, under, ledger.next, decided.tx)
  BY <1>4, SetCurrentBody DEF Granted, Under
<1> HIDE DEF under
<1>8. /\ under.current = ledger.next /\ ledger.next < under.next
      /\ Decided(under, ledger.next, key) /\ Shown(under, key) = Shown(ledger, key)
  BY <1>4, <1>5, <1>7 DEF Sets, Granted, Decided
<1>9. /\ Does(ledger, updated, {} \cup {key}, job.event) /\ ledger.next < updated.next
      /\ Updates(under, updated, key, value)
  BY <1>2, <1>7, <1>8, UpdateBody
<1> HIDE DEF updated
<1>10. Decided(updated, ledger.next, key)
  <2>1. under.next \in Nat
    BY <1>7 DEF Does, Fit, Whole, LedgerType
  <2>2. \A event \in Seen(updated) \ Seen(under) : event.seq \in under.next..(updated.next - 1)
    BY <1>9 DEF Updates, Goes
  <2>3. \A event \in Seen(updated) \ Seen(under) : event.seq # ledger.next
    BY <1>3, <1>8, <2>1, <2>2
  <2> QED
    BY <1>8, <2>3, DecidedStays
<1>11. {} \cup {key} = {key}
  OBVIOUS
<1>12. Does(ledger, back, {key}, job.event) /\ Sets(updated, back, ledger.current, updated.tx)
  BY <1>9, <1>11, SetCurrentBody
<1> HIDE DEF back
<1>13. /\ back.current = ledger.current /\ ledger.next < back.next
       /\ Decided(back, ledger.next, key) /\ Shown(back, key) = Shown(updated, key)
       /\ Fit(back) /\ back.next \in Nat
  BY <1>9, <1>10, <1>12 DEF Sets, Decided, Does, Fit, Whole, LedgerType
<1>14. /\ "config" \in Labels /\ "set" \in Operations /\ "ok" \in Results /\ "state" \in Kinds
  BY BootWordAssumption, WordsAreTyped
<1>15. ledger.next \in ledger.next..(back.next - 1)
  BY <1>3, <1>13
<1>16. Does(ledger, final, {key}, job.event)
  BY <1>3, <1>12, <1>13, <1>14, <1>15, DoesEffect
<1>17. final.current = back.current
  BY DEF Record
<1>18. Shown(final, key) = Shown(back, key)
  <2>1. final.objects = back.objects
    BY <1>13, RecordFrame DEF Fit, Whole
  <2> QED
    BY <2>1 DEF Shown
<1> HIDE DEF final
<1>19. Under(final, {key})
  BY <1>13, <1>16, <1>17 DEF Under
<1>20. Shown(ledger, key) = {} => Shown(final, key) = {}
  BY <1>8, <1>9, <1>13, <1>18 DEF Updates
<1>21. ASSUME NEW old \in Shown(ledger, key)
       PROVE  \E new : Shown(final, key) = {new} /\ new.state = value /\ new.rev = old.rev + 1
  BY <1>8, <1>9, <1>13, <1>18, <1>21 DEF Updates
<1> QED
  BY <1>6, <1>19, <1>20, <1>21 DEF decided

LEMMA SetConfigStep ==
  ASSUME ShellInvariant, SetConfig
  PROVE  ShellInvariant' /\ RunsBody
<1> DEFINE key == job.line.arg
           value == job.line.value
           decided == Check(ledger, key, "config:set")
           permitted == Permitted(key, "config:set")
           stored == value # "" /\ permitted /\ key \in DOMAIN config
           set == Configure(decided, key, value, ledger.next)
           final == IF value = "" THEN ledger ELSE IF permitted THEN set ELSE decided
<1>1. /\ phase = "execute" /\ UNCHANGED policy /\ Completes(final, stored)
      /\ Target(job.line) = key
      /\ config' = IF stored THEN [config EXCEPT ![key] = value] ELSE config
  BY DEF SetConfig, Running, Target
<1>2. /\ key \in Labels /\ Under(ledger, {}) /\ job.line \in Lines
  BY <1>1, TurnBegins
<1>3. value \in States \cup {""}
  BY <1>2, LinesAreTyped
<1>4. /\ DOMAIN config = DOMAIN FirstConfig /\ config \in [DOMAIN FirstConfig -> States]
  BY DEF ShellInvariant, ConfigPart
<1>5. CASE stored
  <2>1. key \in DOMAIN config /\ permitted /\ value \in States /\ final = set
    BY <1>3, <1>5
  <2>2. /\ Under(set, {key})
        /\ Shown(ledger, key) = {} => Shown(set, key) = {}
        /\ \A old \in Shown(ledger, key) :
             \E new : Shown(set, key) = {new} /\ new.state = value /\ new.rev = old.rev + 1
    BY <1>1, <1>2, <2>1, ConfigureBody
  <2>3. /\ config' = [config EXCEPT ![key] = value] /\ ledger' = set /\ Completes(set, stored)
    BY <1>1, <1>5, <2>1 DEF Completes
  <2> HIDE DEF set, stored, final, permitted, decided
  <2>4. Body({key})
    BY <1>1, <2>2, <2>3, BodyCompletes
  <2>5. key # ThePolicy /\ key # "shell"
    BY <1>4, <2>1 DEF FirstConfig, ThePolicy
  <2>8. RevisesTarget
    <3>1. Lasts(ledger, Target(job.line))
      BY <1>1, <1>4, <2>1, BootWordAssumption DEF Lasts
    <3>2. Completes(set, TRUE)
      BY <2>3, <1>5 DEF Completes, stored
    <3> QED
      BY <2>4, <3>1, <3>2, LastingBodyRevises
  <2>6. LedgerPart' /\ ShellPart' /\ PolicyPart' /\ RunsBody
    BY <1>1, <2>4, <2>5, <2>8, BodyKeepsShell, BodyKeeps, BodyKeepsPolicy
  <2>7. ConfigPart'
    <3>1. config' \in [DOMAIN FirstConfig -> States]
      BY <1>3, <1>4, <2>1, <2>3
    <3>2. phase' \notin BootPhases
      BY <2>4 DEF Body, BootPhases
    <3>3. DOMAIN FirstConfig \subseteq Names
      BY BootWordAssumption
    <3>4. ASSUME NEW other \in DOMAIN FirstConfig, NEW object \in Shown(ledger', other)
          PROVE  /\ object.state = config'[other] /\ object.rev \in Nat \ {0}
                 /\ object.rev = 1 => config'[other] = FirstConfig[other]
      <4>1. CASE other = key
        <5>1. PICK old \in Shown(ledger, key) : TRUE
          BY <2>2, <2>3, <3>4, <4>1
        <5>2. PICK new : Shown(set, key) = {new} /\ new.state = value /\ new.rev = old.rev + 1
          BY <2>2
        <5>3. old.rev \in Nat \ {0}
          BY <1>4, <2>1 DEF ShellInvariant, ConfigPart
        <5>4. object = new /\ config'[other] = value
          BY <1>4, <2>1, <2>3, <3>4, <4>1, <5>2
        <5>5. object.rev \in Nat \ {0} /\ object.rev # 1
          BY <5>2, <5>3, <5>4
        <5> QED
          BY <5>2, <5>4, <5>5
      <4>2. CASE other # key
        <5>1. Shown(ledger', other) = Shown(ledger, other)
          BY <2>4, <3>3, <4>2 DEF Body, Does
        <5>2. config'[other] = config[other]
          BY <1>4, <2>3, <4>2
        <5> QED
          BY <3>4, <5>1, <5>2 DEF ShellInvariant, ConfigPart
      <4> QED
        BY <4>1, <4>2
    <3> QED
      BY <3>1, <3>2, <3>4 DEF ConfigPart
  <2> QED
    BY <2>6, <2>7 DEF ShellInvariant
<1>6. CASE ~ stored
  <2>1. config' = config
    BY <1>1, <1>6
  <2>2. Under(final, {})
    <3>1. Under(decided, {})
      BY <1>1, <1>2, CheckBody
    <3>2. CASE value # "" /\ permitted
      <4>1. key \notin DOMAIN config
        BY <1>6, <3>2
      <4>2. Granted(decided, key)
        BY <1>1, <1>2, <3>2, CheckBody
      <4>3. /\ "config" \in Labels /\ "set" \in Operations /\ "denied" \in Results
            /\ "state" \in Kinds
        BY BootWordAssumption, WordsAreTyped
      <4>4. set = Record(decided, Report("config", key, "set", "denied", ledger.next, "state"))
        BY <4>1 DEF Configure
      <4> HIDE DEF decided
      <4>5. Granted(set, key)
        BY <1>1, <1>2, <4>2, <4>3, <4>4, EffectBody
      <4> QED
        BY <3>2, <4>5 DEF Granted
    <3> QED
      BY <1>2, <3>1, <3>2
  <2> HIDE DEF final, stored
  <2>3. Body({})
    BY <1>1, <2>2, BodyCompletes
  <2> QED
    BY <1>1, <2>1, <2>3, BodyStep
<1> QED
  BY <1>5, <1>6

\* The rule a line spells, and the capability it would have.
LEMMA RulesAreTyped ==
  ASSUME NEW line \in Lines, line.rule # << >>
  PROVE  /\ line.rule[1] \in Rules
         /\ CapabilityName(line.rule[1]) \in Names \ DOMAIN FirstConfig
<1>1. line.rule \in Seq(Rules)
  BY LinesAreTyped
<1>2. 1 \in DOMAIN line.rule /\ line.rule[1] \in Rules
  BY <1>1
<1>3. \A i \in DOMAIN line.rule : CapabilityName(line.rule[i]) \in Names \ DOMAIN FirstConfig
  BY LineWordAssumption
<1> QED
  BY <1>2, <1>3

\* The object of that name is one revision further.
Revised(l, m, name) ==
  \A old \in Shown(l, name) : \E new : Shown(m, name) = {new} /\ new.rev = old.rev + 1

\* policy_change_rule with room for the rule: its capability is registered, and
\* the policy's object is revised.
LEMMA ChangeRuleBody ==
  ASSUME ShellInvariant, phase = "execute", NEW rule \in Rules,
         CapabilityName(rule) \in Names \ DOMAIN FirstConfig,
         Permitted(ThePolicy, "policy:change"), RoomForRule(policy),
         NEW decided, decided = Check(ledger, ThePolicy, "policy:change"),
         NEW m, m = SetCurrent(ChangeRule(policy, SetCurrent(decided, ledger.next), rule),
                               decided.current)
  PROVE  /\ Under(m, {CapabilityName(rule), ThePolicy})
         /\ Shown(m, "shell") = Shown(ledger, "shell")
         /\ Revised(ledger, m, ThePolicy)
<1> DEFINE under == SetCurrent(decided, ledger.next)
           name == CapabilityName(rule)
           number == Len(ChangedPolicy(policy, rule).rules)
           state == CapabilityState(rule.allow, number, policy.revision + 1)
           parent == ObjectId(under, ThePolicy)
           granted == Register(under, name, parent, state, ledger.next)
           effect == IF rule.allow THEN "allow" ELSE "deny"
           said == Record(granted, Report("policy", ThePolicy, effect, "ok", ledger.next,
                                          "state"))
           added == IF rule.allow THEN "allow-added" ELSE "deny-added"
           updated == UpdateState(said, ThePolicy, added)
           final == SetCurrent(updated, ledger.current)
<1>1. /\ Whole(ledger) /\ job.event \in 0..(ledger.next - 1) /\ ledger.next \in Nat
      /\ Shown(ledger, "shell") # {}
  BY TurnBegins DEF ShellInvariant, LedgerPart
<1>2. /\ ThePolicy \in Names /\ ThePolicy \in Labels /\ "policy" \in Labels
      /\ effect \in Operations /\ effect \notin {"exception", "state_update"} /\ added \in States
      /\ "ok" \in Results /\ "state" \in Kinds
  BY PolicyWordAssumption, WordsAreTyped
<1>3. Granted(decided, ThePolicy)
  BY <1>2, CheckBody
<1>4. /\ policy.rules \in Seq(Rules) /\ Len(policy.rules) \in Nat
      /\ Len(policy.rules) \in Len(BaseRules)..RuleCap /\ policy.revision \in Nat
      /\ policy.revision = BaseRevision + (Len(policy.rules) - Len(BaseRules))
      /\ Len(policy.rules) < RuleCap
  BY DEF ShellInvariant, PolicyPart, RoomForRule
<1>5. /\ ChangedPolicy(policy, rule).rules = Append(policy.rules, rule)
      /\ ChangedPolicy(policy, rule).revision = policy.revision + 1
      /\ number = Len(policy.rules) + 1
      /\ ChangedPolicy(policy, rule).rules[number] = rule
  BY <1>4 DEF ChangedPolicy
<1>6. state \in States
  <2>1. /\ RuleCap \in Nat /\ BaseRevision \in Nat /\ Len(BaseRules) \in Nat
        /\ Len(BaseRules) =< RuleCap
    BY PolicyAssumption
  <2>2. number \in 1..RuleCap
    BY <1>4, <1>5, <2>1
  <2>3. policy.revision + 1 \in BaseRevision..(BaseRevision + RuleCap - Len(BaseRules))
    BY <1>4, <2>1
  <2>4. rule.allow \in BOOLEAN
    BY DEF Rules
  <2> QED
    BY <2>2, <2>3, <2>4, LineWordAssumption
<1>7. /\ Does(ledger, under, {}, job.event) /\ Sets(decided, under, ledger.next, decided.tx)
  BY <1>3, SetCurrentBody DEF Granted, Under
<1>8. m = final
  <2>1. under.current = ledger.next /\ decided.current = ledger.current
    BY <1>3, <1>7 DEF Sets, Granted, Under
  <2>2. RegisterCapability(ChangedPolicy(policy, rule), under, number) = granted
    BY <1>5, <2>1 DEF RegisterCapability, Capability
  <2>3. ChangeRule(policy, under, rule) = updated
    BY <2>1, <2>2 DEF ChangeRule
  <2> QED
    BY <2>1, <2>3
<1> HIDE DEF under, name, number, state, effect, added
<1>9. /\ under.current = ledger.next /\ ledger.next < under.next /\ Fit(under)
      /\ Decided(under, ledger.next, ThePolicy)
      /\ \A other \in Names : Shown(under, other) = Shown(ledger, other)
  BY <1>3, <1>7 DEF Sets, Granted, Under, Decided, Does
<1>10. parent \in Nat /\ name \in Names \ DOMAIN FirstConfig
  BY <1>9, ObjectIdType DEF Fit, Whole, LedgerType, name
<1> HIDE DEF parent
<1>11. Does(ledger, granted, {} \cup {name}, job.event)
  BY <1>1, <1>6, <1>7, <1>10, DoesRegister
<1>12. Registers(under, granted, name, state)
  BY <1>1, <1>6, <1>9, <1>10, RegisterGoes
<1> HIDE DEF granted
<1>13. /\ granted.current = ledger.next /\ ledger.next < granted.next
       /\ Decided(granted, ledger.next, ThePolicy) /\ granted.next \in Nat /\ Fit(granted)
  BY <1>9, <1>12 DEF Registers, Goes, Decided, Fit, Whole, LedgerType
<1>14. ASSUME NEW other \in Names, Shown(ledger, other) # {}
       PROVE  Shown(granted, other) = Shown(ledger, other)
  <2>1. CASE other = name
    <3>1. Shown(under, name) # {}
      BY <1>9, <1>14, <2>1
    <3>2. granted = under
      BY <1>12, <3>1 DEF Registers
    <3> QED
      BY <1>9, <3>2
  <2>2. CASE other # name
    BY <1>9, <1>12, <2>2 DEF Registers, Goes
  <2> QED
    BY <2>1, <2>2
<1>15. ledger.next \in ledger.next..(granted.next - 1)
  BY <1>1, <1>13
<1>16. Does(ledger, said, {} \cup {name}, job.event) /\ Decided(said, ledger.next, ThePolicy)
  BY <1>1, <1>2, <1>11, <1>13, <1>15, DoesEffect
<1>17. said.current = granted.current /\ said.next = granted.next + 1
       /\ said.objects = granted.objects
  BY <1>13, RecordFrame DEF Fit, Whole
<1> HIDE DEF said
<1>18. said.current = ledger.next /\ ledger.next < said.next
       /\ \A other : Shown(said, other) = Shown(granted, other)
  BY <1>1, <1>13, <1>17 DEF Shown
<1>19. /\ Does(ledger, updated, {} \cup {name} \cup {ThePolicy}, job.event)
       /\ ledger.next < updated.next
       /\ Updates(said, updated, ThePolicy, added)
  BY <1>2, <1>16, <1>18, UpdateBody
<1> HIDE DEF updated
<1>20. /\ Does(ledger, final, {} \cup {name} \cup {ThePolicy}, job.event)
       /\ Sets(updated, final, ledger.current, updated.tx)
  BY <1>19, SetCurrentBody
<1> HIDE DEF final
<1>21. Under(final, {name, ThePolicy})
  <2>1. {} \cup {name} \cup {ThePolicy} = {name, ThePolicy}
    OBVIOUS
  <2> QED
    BY <1>20, <2>1 DEF Under, Sets
<1>22. \A other : Shown(final, other) = Shown(updated, other)
  BY <1>20 DEF Sets
<1>23. Shown(final, "shell") = Shown(ledger, "shell")
  <2>1. "shell" \in Names \ {ThePolicy}
    BY BootWordAssumption DEF ThePolicy
  <2>2. Shown(updated, "shell") = Shown(said, "shell")
    BY <1>19, <2>1 DEF Updates, Goes
  <2> QED
    BY <1>1, <1>14, <1>18, <1>22, <2>1, <2>2
<1>24. ASSUME NEW old \in Shown(ledger, ThePolicy)
       PROVE  \E new : Shown(final, ThePolicy) = {new} /\ new.rev = old.rev + 1
  <2>1. old \in Shown(said, ThePolicy)
    BY <1>2, <1>14, <1>18, <1>24
  <2> QED
    BY <1>19, <1>22, <2>1 DEF Updates
<1> QED
  BY <1>8, <1>21, <1>23, <1>24 DEF name, Revised

\* ... and without.
LEMMA FullTableBody ==
  ASSUME ShellInvariant, phase = "execute", NEW rule \in Rules,
         Permitted(ThePolicy, "policy:change"), ~ RoomForRule(policy),
         NEW decided, decided = Check(ledger, ThePolicy, "policy:change"),
         NEW m, m = SetCurrent(ChangeRule(policy, SetCurrent(decided, ledger.next), rule),
                               decided.current)
  PROVE  Under(m, {})
<1> DEFINE under == SetCurrent(decided, ledger.next)
           effect == IF rule.allow THEN "allow" ELSE "deny"
           said == Record(under, Report("policy", ThePolicy, effect, "denied", ledger.next,
                                        "state"))
           final == SetCurrent(said, ledger.current)
<1>1. /\ Whole(ledger) /\ job.event \in 0..(ledger.next - 1) /\ ledger.next \in Nat
  BY TurnBegins
<1>2. /\ ThePolicy \in Labels /\ "policy" \in Labels
      /\ effect \in Operations /\ effect \notin {"exception", "state_update"}
      /\ "denied" \in Results /\ "state" \in Kinds
  BY PolicyWordAssumption, WordsAreTyped
<1>3. Granted(decided, ThePolicy)
  BY <1>2, CheckBody
<1>4. Does(ledger, under, {}, job.event) /\ Sets(decided, under, ledger.next, decided.tx)
  BY <1>3, SetCurrentBody DEF Granted, Under
<1>5. m = final
  BY <1>3, <1>4 DEF ChangeRule, Sets, Granted, Under
<1> HIDE DEF under, effect
<1>6. /\ under.current = ledger.next /\ ledger.next < under.next /\ under.next \in Nat
      /\ Decided(under, ledger.next, ThePolicy) /\ under \in LedgerType
  BY <1>3, <1>4 DEF Sets, Granted, Under, Decided, Whole, LedgerType
<1>7. ledger.next \in ledger.next..(under.next - 1)
  BY <1>1, <1>6
<1>8. Does(ledger, said, {}, job.event)
  BY <1>1, <1>2, <1>4, <1>6, <1>7, DoesEffect
<1>9. ledger.next < said.next
  BY <1>1, <1>6, RecordFrame
<1> HIDE DEF said
<1>10. Does(ledger, final, {}, job.event) /\ Sets(said, final, ledger.current, said.tx)
  BY <1>8, <1>9, SetCurrentBody
<1> QED
  BY <1>5, <1>10 DEF Under, Sets

\* The policy's object is revised after the load.
LEMMA PolicyIsRevised ==
  ASSUME ShellInvariant, phase = "execute"
  PROVE  Revision(ledger, ThePolicy) # 0
<1>1. /\ Whole(ledger) /\ ThePolicy \in Names /\ Shown(ledger, ThePolicy) # {}
      /\ policy \in [rules : Seq(Rules), revision : Nat]
      /\ Len(policy.rules) \in Len(BaseRules)..RuleCap
      /\ policy.revision = BaseRevision + (Len(policy.rules) - Len(BaseRules))
      /\ \A object \in Shown(ledger, ThePolicy) :
           object.rev = policy.revision - BaseRevision + 2
  BY PolicyWordAssumption DEF ShellInvariant, LedgerPart, PolicyPart
<1>2. BaseRevision \in Nat /\ Len(BaseRules) \in Nat /\ RuleCap \in Nat
  BY PolicyAssumption
<1>3. policy.revision - BaseRevision + 2 # 0
  BY <1>1, <1>2
<1>4. PICK object \in Shown(ledger, ThePolicy) : TRUE
  BY <1>1
<1>5. Revision(ledger, ThePolicy) = object.rev
  BY <1>1, <1>4, RevisionIsShown
<1> QED
  BY <1>1, <1>3, <1>4, <1>5

LEMMA ChangePolicyStep ==
  ASSUME ShellInvariant, ChangePolicy
  PROVE  ShellInvariant' /\ RunsBody
<1> DEFINE rule == job.line.rule[1]
           decided == Check(ledger, ThePolicy, "policy:change")
           m == SetCurrent(ChangeRule(policy, SetCurrent(decided, ledger.next), rule),
                           decided.current)
           room == RoomForRule(policy)
<1>1. /\ phase = "execute" /\ UNCHANGED config /\ job.line.rule # << >>
      /\ IF MayChange
         THEN policy' = ChangedPolicy(policy, rule) /\ Completes(m, room)
         ELSE policy' = policy /\ Completes(decided, FALSE)
  BY DEF ChangePolicy, Running
<1>7. Target(job.line) = ThePolicy
  BY DEF ChangePolicy, Running, Target
<1>2. job.line \in Lines /\ ThePolicy \in Labels
  BY <1>1, TurnBegins, WordsAreTyped
<1>3. rule \in Rules /\ CapabilityName(rule) \in Names \ DOMAIN FirstConfig
  BY <1>1, <1>2, RulesAreTyped
<1>4. CASE MayChange /\ room
  <2>1. /\ Under(m, {CapabilityName(rule), ThePolicy})
        /\ Shown(m, "shell") = Shown(ledger, "shell")
        /\ \A old \in Shown(ledger, ThePolicy) :
             \E new : Shown(m, ThePolicy) = {new} /\ new.rev = old.rev + 1
    <3>1. /\ decided = Check(ledger, ThePolicy, "policy:change")
          /\ m = SetCurrent(ChangeRule(policy, SetCurrent(decided, ledger.next), rule),
                            decided.current)
      OBVIOUS
    <3>2. Permitted(ThePolicy, "policy:change") /\ RoomForRule(policy)
      BY <1>4 DEF MayChange
    <3> HIDE DEF rule, decided, m
    <3>3. Under(m, {CapabilityName(rule), ThePolicy})
      BY <1>1, <1>3, <3>1, <3>2, ChangeRuleBody
    <3>4. Shown(m, "shell") = Shown(ledger, "shell")
      BY <1>1, <1>3, <3>1, <3>2, ChangeRuleBody
    <3>5. Revised(ledger, m, ThePolicy)
      BY <1>1, <1>3, <3>1, <3>2, ChangeRuleBody
    <3> QED
      BY <3>3, <3>4, <3>5 DEF Revised
  <2>2. Completes(m, room) /\ ledger' = m /\ policy' = ChangedPolicy(policy, rule)
    BY <1>1, <1>4 DEF Completes
  <2>3. room
    BY <1>4
  <2> HIDE DEF m, decided, room
  <2>4. Body({CapabilityName(rule), ThePolicy})
    BY <1>1, <2>1, <2>2, BodyCompletes
  <2>8. RevisesTarget
    <3>1. Revision(ledger, ThePolicy) # 0
      BY <1>1, PolicyIsRevised
    <3>2. Lasts(ledger, Target(job.line))
      BY <1>7, <3>1, PolicyWordAssumption DEF Lasts
    <3>3. Completes(m, TRUE)
      BY <2>2, <2>3 DEF Completes
    <3> QED
      BY <2>4, <3>2, <3>3, LastingBodyRevises
  <2>5. LedgerPart' /\ ShellPart' /\ RunsBody
    <3>1. Shown(ledger', "shell") = Shown(ledger, "shell")
      BY <2>1, <2>2
    <3>2. Shown(ledger, "shell") # {}
      BY <1>1 DEF ShellInvariant, LedgerPart
    <3> QED
      BY <2>4, <2>8, <3>1, <3>2, BodyKeeps DEF RunsBody
  <2>6. ConfigPart'
    <3>1. {CapabilityName(rule), ThePolicy} \cap DOMAIN FirstConfig = {}
      BY <1>3 DEF FirstConfig, ThePolicy
    <3> QED
      BY <1>1, <2>4, <3>1, BodyKeepsConfig
  <2>7. PolicyPart'
    <3>1. /\ policy.rules \in Seq(Rules) /\ Len(policy.rules) \in Nat
          /\ Len(policy.rules) \in Len(BaseRules)..RuleCap /\ policy.revision \in Nat
          /\ policy.revision = BaseRevision + (Len(policy.rules) - Len(BaseRules))
          /\ Shown(ledger, ThePolicy) # {}
          /\ \A object \in Shown(ledger, ThePolicy) :
               object.rev = policy.revision - BaseRevision + 2
      BY <1>1 DEF ShellInvariant, PolicyPart
    <3>2. /\ Len(BaseRules) \in Nat /\ RuleCap \in Nat /\ BaseRevision \in Nat
          /\ Len(policy.rules) < RuleCap
      BY <2>3, PolicyAssumption DEF room, RoomForRule
    <3>3. /\ policy'.rules = Append(policy.rules, rule)
          /\ policy'.revision = policy.revision + 1
          /\ policy' = [rules |-> Append(policy.rules, rule), revision |-> policy.revision + 1]
      BY <2>2, <2>3 DEF ChangedPolicy, room
    <3>4. Append(policy.rules, rule) \in Seq(Rules)
          /\ Len(Append(policy.rules, rule)) = Len(policy.rules) + 1
      BY <1>3, <3>1
    <3>5. policy' \in [rules : Seq(Rules), revision : Nat]
      BY <3>1, <3>3, <3>4
    <3>6. /\ Len(policy'.rules) \in Len(BaseRules)..RuleCap
          /\ policy'.revision = BaseRevision + (Len(policy'.rules) - Len(BaseRules))
      BY <3>1, <3>2, <3>3, <3>4
    <3>7. PICK old \in Shown(ledger, ThePolicy) : TRUE
      BY <3>1
    <3>8. PICK new : Shown(ledger', ThePolicy) = {new} /\ new.rev = old.rev + 1
      BY <2>1, <2>2
    <3>9. old.rev = policy.revision - BaseRevision + 2
      BY <3>1
    <3>10. new.rev = policy'.revision - BaseRevision + 2
      BY <3>1, <3>2, <3>3, <3>8, <3>9
    <3>11. phase' \notin {"enter", "policy"}
      BY <2>4 DEF Body
    <3> QED
      BY <3>5, <3>6, <3>8, <3>10, <3>11 DEF PolicyPart
  <2> QED
    BY <2>5, <2>6, <2>7 DEF ShellInvariant
<1>5. CASE MayChange /\ ~ room
  <2>1. Under(m, {})
    BY <1>1, <1>3, <1>5, FullTableBody DEF MayChange
  <2>2. Completes(m, room) /\ policy' = policy
    BY <1>1, <1>5 DEF ChangedPolicy
  <2> HIDE DEF m, room
  <2>3. Body({})
    BY <1>1, <2>1, <2>2, BodyCompletes
  <2> QED
    BY <1>1, <2>2, <2>3, BodyStep
<1>6. CASE ~ MayChange
  <2>1. policy' = policy /\ Completes(decided, FALSE) /\ Under(decided, {})
    BY <1>1, <1>2, <1>6, CheckBody
  <2> HIDE DEF decided
  <2>2. Body({})
    BY <1>1, <2>1, BodyCompletes
  <2> QED
    BY <1>1, <2>1, <2>2, BodyStep
<1> QED
  BY <1>4, <1>5, <1>6

(***************************************************************************)
(* The invariant and what follows from it.                                 *)
(***************************************************************************)
LEMMA ExecuteBody ==
  ASSUME ShellInvariant, Execute
  PROVE  ShellInvariant' /\ RunsBody
<1>1. CASE SetConfig
  BY <1>1, SetConfigStep
<1>2. CASE ChangePolicy
  BY <1>2, ChangePolicyStep
<1>3. CASE ~ SetConfig /\ ~ ChangePolicy
  <2>1. Body({})
    BY <1>3, TellBody, DrawBody, MeminfoBody, ListFilesBody, CatBody, RunModuleBody,
       ShowConfigBody, ShowPolicyBody, MisusePolicyBody, QueryBody, DenyPolicyBody,
       FaultBody, UnknownBody DEF Execute
  <2>2. UNCHANGED <<policy, config>>
    BY <1>3 DEF Execute, Tell, Draw, Meminfo, ListFiles, Cat, RunModule, ShowConfig,
                ShowPolicy, MisusePolicy, Query, DenyPolicy, Fault, Unknown
  <2> QED
    BY <2>1, <2>2, BodyStep
<1> QED
  BY <1>1, <1>2, <1>3

LEMMA NothingHappens ==
  ASSUME ShellInvariant, UNCHANGED vars
  PROVE  ShellInvariant'
<1>1. /\ ledger' = ledger /\ policy' = policy /\ config' = config
      /\ phase' = phase /\ job' = job
  BY DEF vars
<1>2. LedgerPart'
  BY <1>1 DEF ShellInvariant, LedgerPart
<1>3. PolicyPart'
  BY <1>1 DEF ShellInvariant, PolicyPart
<1>4. ConfigPart'
  BY <1>1 DEF ShellInvariant, ConfigPart
<1>5. ShellPart'
  BY <1>1 DEF ShellInvariant, ShellPart
<1> QED
  BY <1>2, <1>3, <1>4, <1>5 DEF ShellInvariant

LEMMA FirstState ==
  ASSUME Init
  PROVE  ShellInvariant
<1>1. LedgerPart
  BY DEF Init, LedgerPart, BootPhases
<1>2. PolicyPart
  BY DEF Init, PolicyPart
<1>3. ConfigPart
  <2>1. \A name : Shown(ledger, name) = {}
    BY EmptyLedgerFits DEF Init
  <2>2. config \in [DOMAIN FirstConfig -> States]
    <3>1. FirstConfig = [key \in DOMAIN FirstConfig |-> FirstConfig[key]]
      BY DEF FirstConfig
    <3>2. \A key \in DOMAIN FirstConfig : FirstConfig[key] \in States
      <4>1. "light" \in States /\ ">" \in States
        BY BootWordAssumption
      <4>2. \A key \in DOMAIN FirstConfig : FirstConfig[key] \in {"light", ">"}
        BY DEF FirstConfig
      <4> QED
        BY <4>1, <4>2
    <3> QED
      BY <3>1, <3>2 DEF Init
  <2> QED
    BY <2>1, <2>2 DEF Init, ConfigPart
<1>4. ShellPart
  BY DEF Init, ShellPart, BootPhases, NoJob
<1> QED
  BY <1>1, <1>2, <1>3, <1>4 DEF ShellInvariant

LEMMA ShellInvariantSteps ==
  ASSUME ShellInvariant, [Next]_vars
  PROVE  ShellInvariant'
BY BootPreserves, AcceptStep, FinishStep, ExecuteBody, NothingHappens DEF Next, Wait, BootKeeps

\* Whatever the shell is asked, its calls leave the ledger whole: in a command
\* its transaction alone is open, between commands none, and the objects of the
\* policy and of the keys show what the kernel holds (main.c:412-559).
THEOREM ShellInvariantHolds == Spec => []ShellInvariant
<1>1. Init => ShellInvariant
  BY FirstState
<1>2. ShellInvariant /\ [Next]_vars => ShellInvariant'
  BY ShellInvariantSteps
<1> QED
  BY <1>1, <1>2, PTL DEF Spec

\* The state of the main thread keeps its types (main.c:344-559).
THEOREM ShellTypesAreCorrect == Spec => []TypeOK
<1>1. ShellInvariant => TypeOK
  <2> SUFFICES ASSUME ShellInvariant
               PROVE  TypeOK
    OBVIOUS
  <2>1. ledger \in LedgerType
    BY EmptyLedgerFits DEF ShellInvariant, LedgerPart, Fit, Whole
  <2>2. policy \in [rules : Seq(Rules), revision : Nat]
    <3>1. << >> \in Seq(Rules)
      OBVIOUS
    <3>2. [rules |-> << >>, revision |-> 0] \in [rules : Seq(Rules), revision : Nat]
      BY <3>1
    <3> QED
      BY <3>2 DEF ShellInvariant, PolicyPart
  <2> QED
    BY <2>1, <2>2 DEF TypeOK, ShellInvariant, ConfigPart, ShellPart
<1> QED
  BY <1>1, ShellInvariantHolds, PTL

\* However the boot and the commands compose the calls of the ledger, the ring,
\* the transactions and the registry agree after each (main.c:412-559,
\* policy.c:227-245).
THEOREM ShellKeepsLedgerSound == Spec => []LedgerStaysSound
<1>1. ShellInvariant => LedgerStaysSound
  <2> SUFFICES ASSUME ShellInvariant
               PROVE  LedgerStaysSound
    OBVIOUS
  <2>1. Whole(ledger)
    BY EmptyLedgerFits DEF ShellInvariant, LedgerPart, Fit
  <2> QED
    BY <2>1 DEF Whole, Sound, Books, OrderedById, Agreement, LedgerStaysSound
<1> QED
  BY <1>1, ShellInvariantHolds, PTL

\* At the prompt no transaction is open, none is in force, and events would be
\* caused by the boot, however the command before it ended (main.c:551-559).
THEOREM PromptIsIdle == Spec => []NothingOpenAtPrompt
<1>1. ShellInvariant => NothingOpenAtPrompt
  BY DEF ShellInvariant, LedgerPart, Idle, OpenIds, NothingOpenAtPrompt
<1> QED
  BY <1>1, ShellInvariantHolds, PTL

\* The configuration store and the registry agree on every key, and a key that
\* was never revised has its first value (config.c:59-70).
THEOREM ConfigAlwaysMatches == Spec => []ConfigMatchesRegistry
<1>1. ShellInvariant => ConfigMatchesRegistry
  <2> SUFFICES ASSUME ShellInvariant, NEW key \in DOMAIN config, Known(ledger, key)
               PROVE  LET object == ledger.objects[ObjectIndex(ledger, key)]
                      IN  /\ object.state = config[key]
                          /\ object.rev = 1 => config[key] = FirstConfig[key]
    BY DEF ConfigMatchesRegistry
  <2>1. Whole(ledger)
    BY EmptyLedgerFits DEF ShellInvariant, LedgerPart, Fit
  <2>2. key \in DOMAIN FirstConfig /\ key \in ObjectNames
    BY BootWordAssumption, WordsAreTyped DEF ShellInvariant, ConfigPart
  <2>3. ledger.objects[ObjectIndex(ledger, key)] \in Shown(ledger, key)
    BY <2>1, <2>2, ShownIsFound DEF Whole
  <2> QED
    BY <2>2, <2>3 DEF ShellInvariant, ConfigPart
<1> QED
  BY <1>1, ShellInvariantHolds, PTL

\* The policy's revision, its rules and the revision of its object advance
\* together, a full table included (policy.c:271-304).
THEOREM PolicyRevisionAlwaysTracked == Spec => []PolicyRevisionTracked
<1>1. ShellInvariant => PolicyRevisionTracked
  <2> SUFFICES ASSUME ShellInvariant, policy.revision # 0
               PROVE  /\ policy.revision - BaseRevision = Len(policy.rules) - Len(BaseRules)
                      /\ Revision(ledger, ThePolicy) = policy.revision - BaseRevision + 2
    BY DEF PolicyRevisionTracked
  <2>1. Whole(ledger)
    BY EmptyLedgerFits DEF ShellInvariant, LedgerPart, Fit
  <2>2. ThePolicy \in ObjectNames
    BY PolicyWordAssumption, WordsAreTyped
  <2>3. /\ Len(policy.rules) \in Len(BaseRules)..RuleCap
        /\ policy.revision = BaseRevision + (Len(policy.rules) - Len(BaseRules))
        /\ Shown(ledger, ThePolicy) # {}
        /\ \A object \in Shown(ledger, ThePolicy) :
             object.rev = policy.revision - BaseRevision + 2
    BY DEF ShellInvariant, PolicyPart
  <2>4. Known(ledger, ThePolicy)
    BY <2>1, <2>2, <2>3, ShownIsFound DEF Whole
  <2>5. ledger.objects[ObjectIndex(ledger, ThePolicy)] \in Shown(ledger, ThePolicy)
    BY <2>1, <2>2, <2>4, ShownIsFound DEF Whole
  <2>6. Revision(ledger, ThePolicy) = policy.revision - BaseRevision + 2
    BY <2>3, <2>4, <2>5 DEF Revision
  <2>7. Len(BaseRules) \in Nat /\ BaseRevision \in Nat /\ RuleCap \in Nat
    BY PolicyAssumption
  <2> QED
    BY <2>3, <2>6, <2>7
<1> QED
  BY <1>1, ShellInvariantHolds, PTL

(***************************************************************************)
(* The policy's decisions.                                                 *)
(***************************************************************************)
\* What changes the policy: its load, and a change with permission and room.
LEMMA PolicyChanges ==
  ASSUME [Next]_vars, policy' # policy
  PROVE  LoadPolicy \/ (ChangePolicy /\ MayChange /\ RoomForRule(policy))
<1>1. CASE Boot
  <2>1. /\ EnterKernel => policy' = policy
        /\ StartMemory => policy' = policy
        /\ FailMemory => policy' = policy
    BY Zenon DEF EnterKernel, StartMemory, FailMemory
  <2>2. /\ StartRamfs => policy' = policy
        /\ StartConfig => policy' = policy
        /\ StartUser => policy' = policy
    BY Zenon DEF StartRamfs, StartConfig, StartUser
  <2>3. /\ StartInterrupts => policy' = policy
        /\ StartShell => policy' = policy
    BY Zenon DEF StartInterrupts, StartShell
  <2> QED
    BY <1>1, <2>1, <2>2, <2>3 DEF Boot
<1>2. CASE Execute
  <2>1. ChangePolicy
    BY <1>2 DEF Execute, Tell, Draw, Meminfo, ListFiles, Cat, RunModule, ShowConfig,
                SetConfig, ShowPolicy, MisusePolicy, Query, DenyPolicy, Fault, Unknown
  <2>2. MayChange
    BY <2>1 DEF ChangePolicy
  <2>3. RoomForRule(policy)
    BY <2>1 DEF ChangePolicy, ChangedPolicy
  <2> QED
    BY <2>1, <2>2, <2>3
<1>3. CASE Accept \/ Finish \/ Wait \/ UNCHANGED vars
  BY <1>3 DEF Accept, Finish, Wait, vars
<1> QED
  BY <1>1, <1>2, <1>3 DEF Next

\* A shell that may not change the policy can never regain that permission
\* (policy.c:338-360, main.c:243-247).
THEOREM LockoutStays == Spec => LockoutIsPermanent
<1>1. ShellInvariant /\ [Next]_vars =>
        [policy.revision # 0 /\ ~ Permitted(ThePolicy, "policy:change")
           => policy' = policy]_vars
  <2> SUFFICES ASSUME ShellInvariant, [Next]_vars, policy.revision # 0,
                      ~ Permitted(ThePolicy, "policy:change"), policy' # policy
               PROVE  FALSE
    OBVIOUS
  <2>1. LoadPolicy
    BY PolicyChanges DEF MayChange
  <2>2. policy.revision = 0
    BY <2>1 DEF LoadPolicy, ShellInvariant, PolicyPart
  <2> QED
    BY <2>2
<1> QED
  BY <1>1, ShellInvariantHolds, PTL DEF Spec, LockoutIsPermanent

\* A set of positions that is not empty has a last one.
LEMMA LastOfPositions ==
  ASSUME NEW n \in Nat, NEW S \in SUBSET (1..n), S # {}
  PROVE  Max(S) \in S /\ \A i \in S : i =< Max(S)
<1> DEFINE T == {n - i : i \in S}
           first == Min(T)
           last == n - first
<1>1. T \in SUBSET Nat /\ T # {}
  <2>1. \A i \in S : n - i \in Nat
    OBVIOUS
  <2>2. \E i \in S : n - i \in T
    OBVIOUS
  <2> QED
    BY <2>1, <2>2
<1>2. first \in T /\ \A k \in T : first =< k
  BY <1>1, MinOfNaturals
<1>3. PICK i \in S : first = n - i
  BY <1>2
<1> HIDE DEF first
<1>4. last \in S
  <2>1. last = i
    BY <1>3
  <2> QED
    BY <2>1
<1>5. \A k \in S : last >= k
  <2> SUFFICES ASSUME NEW k \in S
               PROVE  last >= k
    OBVIOUS
  <2>1. first =< n - k
    BY <1>2
  <2> QED
    BY <1>3, <2>1
<1> HIDE DEF last, T
<1>6. \E x \in S : \A y \in S : x >= y
  BY <1>4, <1>5
<1>7. Max(S) \in S /\ \A y \in S : Max(S) >= y
  BY <1>6 DEF Max
<1> QED
  BY <1>7

\* A policy allows a request if the last of its rules that cover it allows.
LastAllows(rules, actor, target, operation) ==
  \E i \in DOMAIN rules :
    /\ Covers(rules[i], actor, target, operation) /\ rules[i].allow
    /\ \A j \in DOMAIN rules : j > i => ~ Covers(rules[j], actor, target, operation)

LEMMA LastRuleDecides ==
  ASSUME NEW p, p.rules \in Seq(Rules), NEW actor, NEW target, NEW operation
  PROVE  Allowed(p, actor, target, operation) <=>
           LastAllows(p.rules, actor, target, operation)
<1> DEFINE I == {i \in 1..Len(p.rules) : Covers(p.rules[i], actor, target, operation)}
           number == DecidingRule(p, actor, target, operation)
<1>1. Len(p.rules) \in Nat /\ DOMAIN p.rules = 1..Len(p.rules)
  OBVIOUS
<1>2. number = IF I # {} THEN Max(I) ELSE 0
  BY DEF DecidingRule, SelectLastInSeq
<1>3. Allowed(p, actor, target, operation) <=> number # 0 /\ p.rules[number].allow
  BY DEF Allowed
<1> HIDE DEF number
<1>4. CASE I = {}
  <2>1. ~ Allowed(p, actor, target, operation)
    BY <1>2, <1>3, <1>4
  <2>2. ~ LastAllows(p.rules, actor, target, operation)
    BY <1>1, <1>4 DEF LastAllows
  <2> QED
    BY <2>1, <2>2
<1>5. CASE I # {}
  <2>1. number \in I /\ \A i \in I : i =< number
    <3>1. I \in SUBSET (1..Len(p.rules))
      OBVIOUS
    <3> HIDE DEF I
    <3> QED
      BY <1>1, <1>2, <1>5, <3>1, LastOfPositions
  <2>2. /\ number \in DOMAIN p.rules /\ number # 0
        /\ Covers(p.rules[number], actor, target, operation)
    BY <1>1, <2>1
  <2>3. \A j \in DOMAIN p.rules : j > number => ~ Covers(p.rules[j], actor, target, operation)
    BY <1>1, <2>1
  <2>4. ASSUME Allowed(p, actor, target, operation)
        PROVE  LastAllows(p.rules, actor, target, operation)
    BY <1>3, <2>2, <2>3, <2>4 DEF LastAllows
  <2>5. ASSUME LastAllows(p.rules, actor, target, operation)
        PROVE  Allowed(p, actor, target, operation)
    <3>1. PICK i \in DOMAIN p.rules :
            /\ Covers(p.rules[i], actor, target, operation) /\ p.rules[i].allow
            /\ \A j \in DOMAIN p.rules : j > i => ~ Covers(p.rules[j], actor, target, operation)
      BY <2>5 DEF LastAllows
    <3>2. ~ (number > i) /\ ~ (i > number)
      BY <2>2, <2>3, <3>1
    <3>3. i = number
      BY <1>1, <2>2, <3>2
    <3> QED
      BY <1>3, <2>2, <3>1, <3>3
  <2> QED
    BY <2>4, <2>5
<1> QED
  BY <1>4, <1>5

\* Rules with one more at their end: it decides what it covers, and leaves the rest.
LEMMA LastRuleAdded ==
  ASSUME NEW rules \in Seq(Rules), NEW rule \in Rules,
         NEW actor, NEW target, NEW operation
  PROVE  LastAllows(Append(rules, rule), actor, target, operation) <=>
           IF Covers(rule, actor, target, operation) THEN rule.allow
           ELSE LastAllows(rules, actor, target, operation)
<1> DEFINE n == Len(rules)
           longer == Append(rules, rule)
<1>1. /\ n \in Nat /\ DOMAIN rules = 1..n /\ DOMAIN longer = 1..(n + 1)
      /\ longer[n + 1] = rule /\ \A i \in 1..n : longer[i] = rules[i]
  OBVIOUS
<1> HIDE DEF longer, n
<1>2. CASE Covers(rule, actor, target, operation)
  <2>1. ASSUME rule.allow
        PROVE  LastAllows(longer, actor, target, operation)
    <3>1. n + 1 \in DOMAIN longer /\ \A j \in DOMAIN longer : ~ (j > n + 1)
      BY <1>1
    <3> QED
      BY <1>1, <1>2, <2>1, <3>1 DEF LastAllows
  <2>2. ASSUME LastAllows(longer, actor, target, operation)
        PROVE  rule.allow
    <3>1. PICK i \in DOMAIN longer :
            /\ Covers(longer[i], actor, target, operation) /\ longer[i].allow
            /\ \A j \in DOMAIN longer : j > i => ~ Covers(longer[j], actor, target, operation)
      BY <2>2 DEF LastAllows
    <3>2. ~ (n + 1 > i)
      BY <1>1, <1>2, <3>1
    <3>3. i = n + 1
      BY <1>1, <3>2
    <3> QED
      BY <1>1, <3>1, <3>3
  <2> QED
    BY <1>2, <2>1, <2>2 DEF longer
<1>3. CASE ~ Covers(rule, actor, target, operation)
  <2>1. ASSUME LastAllows(longer, actor, target, operation)
        PROVE  LastAllows(rules, actor, target, operation)
    <3>1. PICK i \in DOMAIN longer :
            /\ Covers(longer[i], actor, target, operation) /\ longer[i].allow
            /\ \A j \in DOMAIN longer : j > i => ~ Covers(longer[j], actor, target, operation)
      BY <2>1 DEF LastAllows
    <3>2. i \in 1..n
      BY <1>1, <1>3, <3>1
    <3>3. \A j \in DOMAIN rules : j > i => ~ Covers(rules[j], actor, target, operation)
      BY <1>1, <3>1
    <3> QED
      BY <1>1, <3>1, <3>2, <3>3 DEF LastAllows
  <2>2. ASSUME LastAllows(rules, actor, target, operation)
        PROVE  LastAllows(longer, actor, target, operation)
    <3>1. PICK i \in DOMAIN rules :
            /\ Covers(rules[i], actor, target, operation) /\ rules[i].allow
            /\ \A j \in DOMAIN rules : j > i => ~ Covers(rules[j], actor, target, operation)
      BY <2>2 DEF LastAllows
    <3>2. i \in DOMAIN longer /\ longer[i] = rules[i]
      BY <1>1
    <3>3. \A j \in DOMAIN longer : j > i => ~ Covers(longer[j], actor, target, operation)
      BY <1>1, <1>3, <3>1
    <3> QED
      BY <3>1, <3>2, <3>3 DEF LastAllows
  <2> QED
    BY <1>3, <2>1, <2>2 DEF longer
<1> QED
  BY <1>2, <1>3

\* A rule that is added decides at once the request it spells, and requests it
\* does not cover are decided as before (policy.c:281-288, 346-354).
THEOREM NewRuleAlwaysDecides == Spec => NewRuleDecides
<1> DEFINE Decides ==
      phase = "execute" /\ policy' # policy =>
        LET rule == policy'.rules[Len(policy'.rules)]
        IN  /\ Allowed(policy', rule.subject, rule.object, rule.operation) = rule.allow
            /\ \A known \in {policy.rules[i] : i \in DOMAIN policy.rules} :
                 ~ Covers(rule, known.subject, known.object, known.operation) =>
                   Allowed(policy', known.subject, known.object, known.operation)
                     = Allowed(policy, known.subject, known.object, known.operation)
<1>1. ShellInvariant /\ [Next]_vars => [Decides]_vars
  <2> SUFFICES ASSUME ShellInvariant, [Next]_vars, phase = "execute", policy' # policy
               PROVE  Decides
    OBVIOUS
  <2> DEFINE rule == job.line.rule[1]
  <2>1. ChangePolicy /\ MayChange /\ RoomForRule(policy)
    BY PolicyChanges DEF LoadPolicy
  <2>2. policy' = [rules |-> Append(policy.rules, rule), revision |-> policy.revision + 1]
    BY <2>1 DEF ChangePolicy, ChangedPolicy
  <2>3. rule \in Rules /\ rule.allow \in BOOLEAN
    BY <2>1, TurnBegins, RulesAreTyped DEF ChangePolicy, Rules
  <2>4. policy.rules \in Seq(Rules)
    BY DEF ShellInvariant, PolicyPart
  <2> HIDE DEF rule
  <2>5. /\ policy'.rules = Append(policy.rules, rule) /\ policy'.rules \in Seq(Rules)
        /\ policy'.rules[Len(policy'.rules)] = rule
    BY <2>2, <2>3, <2>4
  <2>6. \A actor, target, operation :
          Allowed(policy', actor, target, operation) <=>
            IF Covers(rule, actor, target, operation) THEN rule.allow
            ELSE Allowed(policy, actor, target, operation)
    BY <2>3, <2>4, <2>5, LastRuleDecides, LastRuleAdded
  <2>7. Covers(rule, rule.subject, rule.object, rule.operation)
    BY DEF Covers, Matches
  <2>8. Allowed(policy', rule.subject, rule.object, rule.operation) = rule.allow
    BY <2>3, <2>6, <2>7, Zenon DEF Allowed
  <2>9. ASSUME NEW known, ~ Covers(rule, known.subject, known.object, known.operation)
        PROVE  Allowed(policy', known.subject, known.object, known.operation)
                 = Allowed(policy, known.subject, known.object, known.operation)
    BY <2>6, <2>9, Zenon DEF Allowed
  <2> QED
    BY <2>5, <2>8, <2>9
<1> QED
  BY <1>1, ShellInvariantHolds, PTL DEF Spec, NewRuleDecides

(***************************************************************************)
(* Causes.                                                                 *)
(***************************************************************************)
\* After the boot, which ended with that event, commands are caused by event 1,
\* effects by a decision that allows them, and any other event by one of the
\* same command: its own event, or one under the same transaction.
CausedIn(l, event) ==
  \A cause \in Seen(l) :
    /\ cause.kind = "command" /\ cause.seq < event.seq => cause.seq =< event.parent
    /\ cause.seq = event.parent => cause.tx = event.tx \/ cause.kind = "command"
Caused(l, event) ==
  /\ event.kind = "command" => event.parent = 1
  /\ event.op # "exception" => event.parent < event.seq
  /\ Effect(event) => event.op # "exception" /\ Decided(l, event.parent, event.target)
  /\ event.kind # "command" /\ event.op # "exception" => CausedIn(l, event)
Causes(l, end) == \A event \in Seen(l) : event.seq > end => Caused(l, event)

CausePart ==
  phase \in {"prompt", "execute", "finish", "halted"} =>
    \A shell \in Shown(ledger, "shell") : Causes(ledger, shell.last)

\* In a command no other has begun since, and what it does is under its
\* transaction.
TurnEvents(l, turn) ==
  \A event \in Seen(l) :
    /\ event.kind = "command" => event.seq =< turn.event
    /\ event.seq = turn.event => event.kind = "command"
    /\ event.seq > turn.event => event.tx = turn.tx

TurnPart == phase \in {"execute", "finish"} => TurnEvents(ledger, job)

CauseInvariant == ShellInvariant /\ CausePart /\ TurnPart

\* What is added later causes nothing that was there.
LEMMA CausesGrow ==
  ASSUME NEW l, Whole(l), NEW m, NEW end, Causes(l, end),
         \A event \in Seen(m) \ Seen(l) :
           event.seq \in Nat /\ l.next =< event.seq /\ Caused(m, event)
  PROVE  Causes(m, end)
<1> SUFFICES ASSUME NEW event \in Seen(m), event.seq > end, event \in Seen(l)
             PROVE  Caused(m, event)
  BY DEF Causes
<1>1. Caused(l, event)
  BY DEF Causes
<1>2. event.seq \in Nat /\ event.seq < l.next /\ l.next \in Nat
  BY SeenIsPast DEF Whole, LedgerType
<1>3. \A later \in Seen(m) \ Seen(l) : ~ (later.seq =< event.seq)
  BY <1>2
<1>4. ASSUME event.op # "exception"
      PROVE  \A later \in Seen(m) \ Seen(l) : later.seq # event.parent
  <2> SUFFICES ASSUME NEW later \in Seen(m) \ Seen(l), later.seq = event.parent
               PROVE  FALSE
    OBVIOUS
  <2>1. later.seq < event.seq
    BY <1>1, <1>4 DEF Caused
  <2> QED
    BY <1>2, <1>3, <2>1
<1>5. ASSUME Effect(event)
      PROVE  event.op # "exception" /\ Decided(m, event.parent, event.target)
  <2>1. event.op # "exception" /\ Decided(l, event.parent, event.target)
    BY <1>1, <1>5 DEF Caused
  <2> QED
    BY <1>4, <2>1, DecidedStays
<1>6. ASSUME event.kind # "command", event.op # "exception"
      PROVE  CausedIn(m, event)
  <2>1. CausedIn(l, event)
    BY <1>1, <1>6 DEF Caused
  <2> SUFFICES ASSUME NEW cause \in Seen(m)
               PROVE  /\ cause.kind = "command" /\ cause.seq < event.seq
                           => cause.seq =< event.parent
                      /\ cause.seq = event.parent
                           => cause.tx = event.tx \/ cause.kind = "command"
    BY DEF CausedIn
  <2>2. CASE cause \in Seen(l)
    BY <2>1, <2>2 DEF CausedIn
  <2>3. CASE cause \notin Seen(l)
    <3>1. ~ (cause.seq < event.seq)
      BY <1>2, <2>3
    <3>2. cause.seq # event.parent
      BY <1>4, <1>6, <2>3
    <3> QED
      BY <3>1, <3>2
  <2> QED
    BY <2>2, <2>3
<1> QED
  BY <1>1, <1>5, <1>6 DEF Caused

\* The events of a body.
LEMMA BodyCauses ==
  ASSUME NEW l, Whole(l), NEW m, NEW changed, NEW turn, Busy(l, turn),
         Does(l, m, changed, turn.event), NEW end, Causes(l, end), TurnEvents(l, turn)
  PROVE  Causes(m, end) /\ TurnEvents(m, turn)
<1>1. /\ l.next \in Nat /\ m.next \in Nat /\ l.tx = turn.tx
      /\ turn.event \in 1..(l.next - 1)
      /\ l.current \in turn.event..(l.next - 1)
      /\ l.current = turn.event \/ l.current > turn.event
  <2>1. l.next \in Nat /\ m.next \in Nat /\ l.current \in Nat /\ l.current < l.next
    BY DEF Whole, LedgerType, Sound, Recorded, Does, Fit
  <2>2. /\ l.tx = turn.tx /\ turn.event \in 1..(l.next - 1)
        /\ l.current = IF turn.tx = 0 THEN turn.event ELSE turn.tx
        /\ turn.tx # 0 => turn.event < turn.tx
    BY DEF Busy
  <2>3. turn.event =< l.current
    BY <2>1, <2>2
  <2> QED
    BY <2>1, <2>2, <2>3
<1>2. \A event \in Seen(l) : event.seq \in Nat /\ event.seq < l.next
  BY SeenIsPast
<1>3. \A event \in Seen(m) \ Seen(l) :
        /\ event.seq \in l.next..(m.next - 1) /\ event.tx = turn.tx
        /\ event.kind # "command"
        /\ event.op # "exception" =>
             event.parent \in {l.current, turn.event} \cup l.next..(event.seq - 1)
        /\ Effect(event) => /\ event.op # "exception"
                            /\ Decided(m, event.parent, event.target)
  BY <1>1 DEF Does
<1>4. TurnEvents(m, turn)
  <2> SUFFICES ASSUME NEW event \in Seen(m)
               PROVE  /\ event.kind = "command" => event.seq =< turn.event
                      /\ event.seq = turn.event => event.kind = "command"
                      /\ event.seq > turn.event => event.tx = turn.tx
    BY DEF TurnEvents
  <2>1. CASE event \in Seen(l)
    BY <2>1 DEF TurnEvents
  <2>2. CASE event \notin Seen(l)
    BY <1>1, <1>3, <2>2
  <2> QED
    BY <2>1, <2>2
<1>5. ASSUME NEW event \in Seen(m) \ Seen(l)
      PROVE  Caused(m, event)
  <2>1. event.kind # "command"
    BY <1>3
  <2>2. ASSUME event.op # "exception"
        PROVE  event.parent \in turn.event..(event.seq - 1)
    BY <1>1, <1>3, <2>2
  <2>3. ASSUME event.op # "exception"
        PROVE  CausedIn(m, event)
    <3> SUFFICES ASSUME NEW cause \in Seen(m)
                 PROVE  /\ cause.kind = "command" => cause.seq =< event.parent
                        /\ cause.seq = event.parent
                             => cause.tx = event.tx \/ cause.kind = "command"
      BY DEF CausedIn
    <3>1. event.parent \in turn.event..(event.seq - 1) /\ event.seq \in Nat
      BY <1>1, <1>3, <2>2, <2>3
    <3>2. cause.seq \in Nat
      BY <1>1, <1>2, <1>3
    <3>3. /\ cause.kind = "command" => cause.seq =< turn.event
          /\ cause.seq = turn.event => cause.kind = "command"
          /\ cause.seq > turn.event => cause.tx = turn.tx
      BY <1>4 DEF TurnEvents
    <3>4. event.tx = turn.tx
      BY <1>3
    <3> QED
      BY <1>1, <3>1, <3>2, <3>3, <3>4
  <2> QED
    BY <1>1, <1>3, <2>1, <2>2, <2>3 DEF Caused
<1>6. Causes(m, end)
  BY <1>1, <1>3, <1>5, CausesGrow
<1> QED
  BY <1>4, <1>6

\* The events that open a turn, and the one that closes it.
LEMMA AcceptCauses ==
  ASSUME NEW l, Whole(l), NEW m, Whole(m), NEW turn, turn.event = l.next, 1 < l.next,
         turn.tx \in {0, l.next + 1}, Accepts(l, m, turn.event, turn.tx),
         NEW end, Causes(l, end)
  PROVE  Causes(m, end) /\ TurnEvents(m, turn)
<1>1. l.next \in Nat
  BY DEF Whole, LedgerType
<1>2. \A event \in Seen(l) : event.seq \in Nat /\ event.seq < l.next
  BY SeenIsPast
<1>3. ASSUME NEW event \in Seen(m) \ Seen(l)
      PROVE  \/ /\ event.seq = l.next /\ event.parent = 1
                /\ event.kind = "command" /\ event.op # "exception"
             \/ /\ event.seq = l.next + 1 /\ event.tx = turn.tx /\ event.parent = l.next
                /\ event.kind = "transaction" /\ event.op # "exception"
  BY <1>1, <1>3 DEF Accepts
<1>4. TurnEvents(m, turn)
  <2> SUFFICES ASSUME NEW event \in Seen(m)
               PROVE  /\ event.kind = "command" => event.seq =< turn.event
                      /\ event.seq = turn.event => event.kind = "command"
                      /\ event.seq > turn.event => event.tx = turn.tx
    BY DEF TurnEvents
  <2>1. CASE event \in Seen(l)
    BY <1>1, <1>2, <2>1
  <2>2. CASE event \notin Seen(l)
    BY <1>1, <1>3, <2>2
  <2> QED
    BY <2>1, <2>2
<1>5. ASSUME NEW event \in Seen(m) \ Seen(l)
      PROVE  Caused(m, event)
  <2>1. ~ Effect(event) /\ event.op # "exception" /\ event.parent < event.seq
    BY <1>1, <1>3 DEF Effect
  <2>2. event.kind = "command" => event.parent = 1
    BY <1>3
  <2>3. ASSUME event.kind # "command", NEW cause \in Seen(m)
        PROVE  /\ cause.kind = "command" => cause.seq =< event.parent
               /\ cause.seq = event.parent => cause.kind = "command"
    BY <1>3, <1>4, <2>3 DEF TurnEvents
  <2>4. event.kind # "command" => CausedIn(m, event)
    BY <2>3 DEF CausedIn
  <2> QED
    BY <2>1, <2>2, <2>4 DEF Caused
<1>6. \A event \in Seen(m) \ Seen(l) : event.seq \in Nat /\ l.next =< event.seq
  BY <1>1, <1>3
<1>7. Causes(m, end)
  BY <1>5, <1>6, CausesGrow
<1> QED
  BY <1>4, <1>7

LEMMA FinishCauses ==
  ASSUME NEW l, Whole(l), NEW m, NEW turn, Busy(l, turn), turn.tx \in Nat,
         Finishes(l, m, turn.tx), NEW end, Causes(l, end), TurnEvents(l, turn)
  PROVE  Causes(m, end)
<1>1. /\ l.next \in Nat /\ turn.event \in 1..(l.next - 1)
      /\ turn.tx # 0 => turn.event < turn.tx
  BY DEF Whole, LedgerType, Busy
<1>2. \A event \in Seen(l) : event.seq \in Nat /\ event.seq < l.next
  BY SeenIsPast
<1>3. ASSUME NEW event \in Seen(m) \ Seen(l)
      PROVE  /\ turn.tx # 0 /\ event.seq = l.next /\ event.tx = turn.tx
             /\ event.kind = "transaction" /\ event.op # "exception"
             /\ event.parent \in turn.tx..(l.next - 1)
             /\ \A cause \in Seen(l) : cause.seq = event.parent => cause.tx = turn.tx
  BY <1>3 DEF Finishes
<1>4. ASSUME NEW event \in Seen(m) \ Seen(l)
      PROVE  Caused(m, event)
  <2>1. ~ Effect(event) /\ event.kind # "command" /\ event.parent < event.seq
    BY <1>1, <1>3 DEF Effect
  <2>2. ASSUME NEW cause \in Seen(m)
        PROVE  /\ cause.kind = "command" => cause.seq =< event.parent
               /\ cause.seq = event.parent => cause.tx = event.tx
    <3>1. CASE cause \in Seen(l)
      <4>1. cause.kind = "command" => cause.seq =< turn.event
        BY <3>1 DEF TurnEvents
      <4>2. cause.kind = "command" => cause.seq =< event.parent
        BY <1>1, <1>2, <1>3, <3>1, <4>1
      <4> QED
        BY <1>3, <3>1, <4>2
    <3>2. CASE cause \notin Seen(l)
      BY <1>1, <1>3, <3>2
    <3> QED
      BY <3>1, <3>2
  <2>3. CausedIn(m, event)
    BY <2>2 DEF CausedIn
  <2> QED
    BY <2>1, <2>3 DEF Caused
<1>5. \A event \in Seen(m) \ Seen(l) : event.seq \in Nat /\ l.next =< event.seq
  BY <1>1, <1>3
<1> QED
  BY <1>4, <1>5, CausesGrow

\* Readying the shell is the last event of the boot.
LEMMA StartShellCauses ==
  ASSUME ShellInvariant, StartShell
  PROVE  CausePart'
<1> DEFINE final == UpdateState(ledger, "shell", "ready")
<1>1. ledger' = final /\ phase = "shell"
  BY DEF StartShell
<1>2. Fit(ledger) /\ "shell" \in Names /\ "ready" \in States
  BY <1>1, BootFits, BootWordAssumption DEF BootPhases
<1>3. Updates(ledger, final, "shell", "ready")
  BY <1>2, UpdateGoes
<1> HIDE DEF final
<1>4. PICK old \in Shown(ledger, "shell") : TRUE
  BY <1>1 DEF ShellInvariant, LedgerPart
<1>5. /\ final.next = ledger.next + 1 /\ ledger.next \in Nat /\ Whole(final)
      /\ \A shell \in Shown(final, "shell") : shell.last = ledger.next
  BY <1>2, <1>3, <1>4 DEF Updates, Goes, Fit, Whole, LedgerType
<1>6. \A event \in Seen(final) : event.seq \in Nat /\ event.seq < final.next
  BY <1>5, SeenIsPast
<1>7. Causes(final, ledger.next)
  BY <1>5, <1>6 DEF Causes
<1> QED
  BY <1>1, <1>5, <1>7 DEF CausePart

LEMMA CausesStep ==
  ASSUME CauseInvariant, [Next]_vars
  PROVE  CausePart' /\ TurnPart'
<1>1. ShellInvariant /\ CausePart /\ TurnPart
  BY DEF CauseInvariant
<1>2. CASE Boot
  <2>1. CASE StartShell
    BY <1>1, <2>1, StartShellCauses DEF StartShell, TurnPart
  <2>2. CASE ~ StartShell
    <3>1. phase' \notin {"prompt", "execute", "finish", "halted"}
      BY <1>2, <2>2 DEF Boot, EnterKernel, LoadPolicy, StartMemory, FailMemory, StartRamfs,
                        StartConfig, StartUser, StartInterrupts
    <3> QED
      BY <3>1 DEF CausePart, TurnPart
  <2> QED
    BY <2>1, <2>2
<1>3. CASE Accept
  <2>1. /\ ShellInvariant' /\ phase = "prompt" /\ phase' = "execute"
        /\ Accepts(ledger, ledger', job'.event, job'.tx) /\ job'.event = ledger.next
        /\ job'.tx \in {0, ledger.next + 1}
        /\ Shown(ledger', "shell") = Shown(ledger, "shell")
    BY <1>1, <1>3, AcceptStep
  <2>2. Whole(ledger) /\ 1 < ledger.next /\ Whole(ledger')
    BY <1>1, <2>1 DEF ShellInvariant, LedgerPart
  <2>3. PICK shell \in Shown(ledger, "shell") : TRUE
    BY <1>1, <2>1 DEF ShellInvariant, LedgerPart
  <2>4. ASSUME NEW end, Causes(ledger, end)
        PROVE  Causes(ledger', end) /\ TurnEvents(ledger', job')
    BY <2>1, <2>2, <2>4, AcceptCauses
  <2>5. \A each \in Shown(ledger, "shell") : Causes(ledger, each.last)
    BY <1>1, <2>1 DEF CausePart
  <2> QED
    BY <2>1, <2>3, <2>4, <2>5 DEF CausePart, TurnPart
<1>4. CASE Execute
  <2>1. RunsBody
    BY <1>1, <1>4, ExecuteBody
  <2>2. PICK changed : Body(changed)
    BY <2>1 DEF RunsBody
  <2>3. /\ phase = "execute" /\ phase' \in {"finish", "halted"}
        /\ Does(ledger, ledger', changed, job.event)
        /\ Shown(ledger', "shell") = Shown(ledger, "shell")
        /\ job' = [job EXCEPT !.ok = job'.ok]
    BY <2>1, <2>2 DEF RunsBody, Body
  <2>4. Whole(ledger) /\ Busy(ledger, job) /\ Shown(ledger, "shell") # {}
    BY <1>1, <2>3 DEF ShellInvariant, LedgerPart
  <2>5. job'.event = job.event /\ job'.tx = job.tx
    BY <1>1, <2>3 DEF ShellInvariant, ShellPart
  <2>6. TurnEvents(ledger, job)
    BY <1>1, <2>3 DEF TurnPart
  <2>7. ASSUME NEW end, Causes(ledger, end)
        PROVE  Causes(ledger', end) /\ TurnEvents(ledger', job)
    BY <2>3, <2>4, <2>6, <2>7, BodyCauses
  <2>8. \A shell \in Shown(ledger, "shell") : Causes(ledger, shell.last)
    BY <1>1, <2>3 DEF CausePart
  <2>9. TurnEvents(ledger', job')
    BY <2>4, <2>5, <2>7, <2>8 DEF TurnEvents
  <2> QED
    BY <2>3, <2>7, <2>8, <2>9 DEF CausePart, TurnPart
<1>5. CASE Finish
  <2>1. /\ phase = "finish" /\ phase' = "prompt" /\ Finishes(ledger, ledger', job.tx)
        /\ Shown(ledger', "shell") = Shown(ledger, "shell")
    BY <1>1, <1>5, FinishStep
  <2>2. Whole(ledger) /\ Busy(ledger, job) /\ job.tx \in Nat /\ TurnEvents(ledger, job)
    BY <1>1, <2>1 DEF ShellInvariant, LedgerPart, ShellPart, TurnPart
  <2>3. ASSUME NEW end, Causes(ledger, end)
        PROVE  Causes(ledger', end)
    BY <2>1, <2>2, <2>3, FinishCauses
  <2>4. \A shell \in Shown(ledger, "shell") : Causes(ledger, shell.last)
    BY <1>1, <2>1 DEF CausePart
  <2> QED
    BY <2>1, <2>3, <2>4 DEF CausePart, TurnPart
<1>6. CASE UNCHANGED vars
  <2>1. ledger' = ledger /\ phase' = phase /\ job' = job
    BY <1>6 DEF vars
  <2> QED
    BY <1>1, <2>1 DEF CausePart, TurnPart
<1> QED
  BY <1>2, <1>3, <1>4, <1>5, <1>6 DEF Next, Wait

\* The chain of causes, from the boot's last event on: commands hang from event 1,
\* effects from the decision that allowed them, all else from its own command
\* (event.c:121-147, main.c:412-559).
THEOREM CauseInvariantHolds == Spec => []CauseInvariant
<1>1. Init => CauseInvariant
  BY FirstState DEF Init, CauseInvariant, CausePart, TurnPart
<1>2. CauseInvariant /\ [Next]_vars => CauseInvariant'
  <2> SUFFICES ASSUME CauseInvariant, [Next]_vars
               PROVE  CauseInvariant'
    OBVIOUS
  <2>1. ShellInvariant'
    BY ShellInvariantSteps DEF CauseInvariant
  <2>2. CausePart' /\ TurnPart'
    BY CausesStep
  <2> QED
    BY <2>1, <2>2 DEF CauseInvariant
<1> QED
  BY <1>1, <1>2, PTL DEF Spec

\* The events the properties look at.
LEMMA CommandedIsCaused ==
  ASSUME CauseInvariant, NEW i \in DOMAIN window, Commanded(window[i])
  PROVE  Caused(ledger, window[i])
<1>1. phase \in {"prompt", "execute", "finish", "halted"} /\ window[i].seq > BootEnd
  BY DEF Commanded
<1>2. Whole(ledger) /\ Shown(ledger, "shell") # {}
  BY <1>1 DEF CauseInvariant, ShellInvariant, LedgerPart
<1>3. "shell" \in ObjectNames
  BY BootWordAssumption, WordsAreTyped
<1>4. ledger.objects[ObjectIndex(ledger, "shell")] \in Shown(ledger, "shell")
  BY <1>2, <1>3, ShownIsFound DEF Whole
<1>5. Causes(ledger, BootEnd)
  BY <1>1, <1>4 DEF CauseInvariant, CausePart, BootEnd
<1>6. window[i] \in Seen(ledger)
  BY DEF window, Seen
<1> QED
  BY <1>1, <1>5, <1>6 DEF Causes

\* An event tells of an effect or of a query only as the child of a decision that
\* allowed it on the same object (README.md:9; main.c:116-341, 421-527).
THEOREM EffectsAlwaysFollowPermission == Spec => []EffectsFollowPermission
<1>1. CauseInvariant => EffectsFollowPermission
  <2> SUFFICES ASSUME CauseInvariant, NEW i \in DOMAIN window, Commanded(window[i]),
                      Effect(window[i]), NEW j \in DOMAIN window,
                      window[j].seq = window[i].parent
               PROVE  /\ window[j].op = "policy_check" /\ window[j].result = "ok"
                      /\ window[j].target = window[i].target
    BY DEF EffectsFollowPermission, Effect
  <2>1. Caused(ledger, window[i])
    BY CommandedIsCaused
  <2>2. window[j] \in Seen(ledger)
    BY DEF window, Seen
  <2> QED
    BY <2>1, <2>2 DEF Caused, Decided, Allows
<1> QED
  BY <1>1, CauseInvariantHolds, PTL

\* The cause of an event is in the same command, also when the table of
\* transactions is full (main.c:412-416, 559).
THEOREM CausesAlwaysStayInCommand == Spec => []CausesStayInCommand
<1>1. CauseInvariant => CausesStayInCommand
  <2> SUFFICES ASSUME CauseInvariant, NEW i \in DOMAIN window, Commanded(window[i]),
                      window[i].op # "exception"
               PROVE  IF IsCommand(window[i]) THEN window[i].parent = 1
                      ELSE \A j \in DOMAIN window :
                             /\ IsCommand(window[j]) /\ window[j].seq < window[i].seq
                                  => window[j].seq <= window[i].parent
                             /\ window[j].seq = window[i].parent =>
                                  window[j].tx = window[i].tx \/ IsCommand(window[j])
    BY DEF CausesStayInCommand
  <2>1. Caused(ledger, window[i])
    BY CommandedIsCaused
  <2>2. \A j \in DOMAIN window : window[j] \in Seen(ledger)
    BY DEF window, Seen
  <2> QED
    BY <2>1, <2>2 DEF Caused, CausedIn, IsCommand
<1> QED
  BY <1>1, CauseInvariantHolds, PTL

(***************************************************************************)
(* What the transactions claim.                                            *)
(***************************************************************************)
\* A closed transaction claims the revisions it journaled; the open one has made
\* none when its command starts, and has journaled each when it ends.
TallyPart ==
  /\ AllTally(ledger)
  /\ phase = "execute" => /\ Unrevised(ledger, job.tx, Target(job.line))
                          /\ job.ok = (job.tx # 0)
  /\ phase = "finish" => Ripe(ledger, job.tx, job.ok)

TallyInvariant == ShellInvariant /\ TallyPart

\* Over the body of a command the one that is open becomes ripe.
LEMMA BodyTallies ==
  ASSUME ShellInvariant, Execute, TallyPart
  PROVE  TallyPart'
<1>1. RunsBody
  BY ExecuteBody
<1>2. PICK changed : Body(changed)
  BY <1>1 DEF RunsBody
<1>3. /\ phase = "execute" /\ phase' \in {"finish", "halted"}
      /\ Does(ledger, ledger', changed, job.event)
      /\ job' = [job EXCEPT !.ok = job'.ok]
      /\ Spans(ledger, ledger', Target(job.line))
      /\ \/ job'.ok = job.ok
         \/ Revision(ledger', Target(job.line)) = Revision(ledger, Target(job.line))
  BY <1>1, <1>2 DEF RunsBody, Body, RevisesTarget
<1>4. Whole(ledger) /\ ledger.tx = job.tx /\ OpenIds(ledger) = {job.tx} \ {0}
  BY <1>3 DEF ShellInvariant, LedgerPart, Busy
<1>5. Whole(ledger')
  <2>1. ShellInvariant'
    BY ExecuteBody
  <2>2. phase' # "enter"
    BY <1>3
  <2> QED
    BY <2>1, <2>2 DEF ShellInvariant, LedgerPart
<1>6. /\ AllTally(ledger) /\ Unrevised(ledger, job.tx, Target(job.line))
      /\ job.ok = (job.tx # 0)
  BY <1>3 DEF TallyPart
<1>7. job.tx # 0 => job'.ok \/ Revision(ledger', Target(job.line))
                                 = Revision(ledger, Target(job.line))
  BY <1>3, <1>6
<1>8. Later(ledger, ledger')
  BY <1>3, <1>4, DoesIsLater
<1>9. TableStands(ledger, ledger')
      /\ \A event \in Seen(ledger') \ Seen(ledger) : event.tx = job.tx
  BY <1>3, <1>4 DEF Does
<1>10. AllTally(ledger') /\ Ripe(ledger', job.tx, job'.ok)
  BY <1>3, <1>4, <1>5, <1>6, <1>7, <1>8, <1>9, TallyRuns
<1>11. job'.tx = job.tx
  BY <1>3 DEF ShellInvariant, ShellPart
<1> QED
  BY <1>3, <1>10, <1>11 DEF TallyPart

LEMMA TallyStep ==
  ASSUME TallyInvariant, [Next]_vars
  PROVE  TallyPart'
<1>1. ShellInvariant /\ TallyPart /\ AllTally(ledger)
  BY DEF TallyInvariant, TallyPart
<1>2. CASE Boot
  <2>1. AllTally(ledger')
    BY <1>1, <1>2, BootPreserves DEF BootKeeps
  <2>2. phase' \notin {"execute", "finish"}
    BY <1>2 DEF Boot, EnterKernel, LoadPolicy, StartMemory, FailMemory, StartRamfs,
                StartConfig, StartUser, StartInterrupts, StartShell
  <2> QED
    BY <2>1, <2>2 DEF TallyPart
<1>3. CASE Accept
  <2>1. /\ phase' = "execute" /\ job'.ok = (job'.tx # 0)
        /\ AllTally(ledger') /\ Unrevised(ledger', job'.tx, Target(job'.line))
    BY <1>1, <1>3, AcceptStep
  <2> QED
    BY <2>1 DEF TallyPart
<1>4. CASE Execute
  BY <1>1, <1>4, BodyTallies
<1>5. CASE Finish
  <2>1. phase = "finish" /\ phase' = "prompt"
        /\ (AllTally(ledger) /\ Ripe(ledger, job.tx, job.ok) => AllTally(ledger'))
    BY <1>1, <1>5, FinishStep
  <2>2. Ripe(ledger, job.tx, job.ok)
    BY <1>1, <2>1 DEF TallyPart
  <2> QED
    BY <1>1, <2>1, <2>2 DEF TallyPart
<1>6. CASE UNCHANGED vars
  <2>1. ledger' = ledger /\ phase' = phase /\ job' = job
    BY <1>6 DEF vars
  <2> QED
    BY <1>1, <2>1 DEF TallyPart
<1> QED
  BY <1>2, <1>3, <1>4, <1>5, <1>6 DEF Next, Wait

\* Every transaction of the table claims what it journaled, also where the ring no
\* longer holds its events, and a command that fails has changed nothing by then:
\* so none is aborted over a change (event.c:183-223, main.c:174-254).
THEOREM TallyInvariantHolds == Spec => []TallyInvariant
<1>1. Init => TallyInvariant
  <2> SUFFICES ASSUME Init
               PROVE  TallyInvariant
    OBVIOUS
  <2>1. ledger.txs = << >> /\ phase \notin {"execute", "finish"}
    BY DEF Init, EmptyLedger
  <2> QED
    BY <2>1, FirstState DEF TallyInvariant, TallyPart, AllTally
<1>2. TallyInvariant /\ [Next]_vars => TallyInvariant'
  <2> SUFFICES ASSUME TallyInvariant, [Next]_vars
               PROVE  TallyInvariant'
    OBVIOUS
  <2>1. ShellInvariant'
    BY ShellInvariantSteps DEF TallyInvariant
  <2>2. TallyPart'
    BY TallyStep
  <2> QED
    BY <2>1, <2>2 DEF TallyInvariant
<1> QED
  BY <1>1, <1>2, PTL DEF Spec

\* The revisions a closed transaction spans are the state updates the ring holds of
\* it on its target, as long as it holds the transaction's begin event; none if it
\* aborted (event.c:183-223, main.c:174-254).
THEOREM RevisionRangeAlwaysJournaled == Spec => []RevisionRangeIsJournaled
<1>1. TallyInvariant => RevisionRangeIsJournaled
  <2> SUFFICES ASSUME TallyInvariant, NEW k \in DOMAIN ledger.txs
               PROVE  LET t == ledger.txs[k]
                          updates == {i \in DOMAIN window :
                                        /\ window[i].tx = t.id
                                        /\ window[i].target = t.target
                                        /\ window[i].op = "state_update"}
                      IN  /\ t.status = "aborted" => t.committed = t.started
                          /\ t.status = "committed"
                             /\ (\E i \in DOMAIN window : window[i].seq = t.begin) =>
                               t.committed = t.started + Cardinality(updates)
    BY DEF RevisionRangeIsJournaled
  <2> DEFINE t == ledger.txs[k]
             updates == {i \in DOMAIN window : /\ window[i].tx = t.id
                                                /\ window[i].target = t.target
                                                /\ window[i].op = "state_update"}
  <2>1. Whole(ledger)
    BY EmptyLedgerFits DEF TallyInvariant, ShellInvariant, LedgerPart, Fit
  <2>2. Tallies(ledger, t)
    BY DEF TallyInvariant, TallyPart, AllTally
  <2>3. t.begin \in Nat
    BY <2>1, OpenIsOpen
  <2>4. updates = {i \in DOMAIN Retained(ledger) : JournalsFor(Retained(ledger)[i], t)}
    BY DEF window, JournalsFor, Journals
  <2> HIDE DEF t, updates
  <2>5. ASSUME t.status = "committed", NEW i \in DOMAIN window, window[i].seq = t.begin
        PROVE  t.committed = t.started + Cardinality(updates)
    <3>1. Tallied(ledger, t, t.committed)
      BY <2>2, <2>5 DEF Tallies
    <3>2. i \in DOMAIN Retained(ledger) /\ Retained(ledger)[i].seq = t.begin
      BY <2>5 DEF window
    <3> QED
      BY <2>1, <2>3, <2>4, <3>1, <3>2, TalliedIsRetained
  <2>6. /\ t.status = "aborted" => t.committed = t.started
        /\ t.status = "committed" /\ (\E i \in DOMAIN window : window[i].seq = t.begin) =>
             t.committed = t.started + Cardinality(updates)
    BY <2>2, <2>5 DEF Tallies
  <2> QED
    BY <2>6 DEF t, updates
<1> QED
  BY <1>1, TallyInvariantHolds, PTL
=============================================================================
