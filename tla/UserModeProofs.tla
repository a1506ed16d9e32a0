--------------------------- MODULE UserModeProofs ---------------------------
(***************************************************************************)
(* Proofs about userdemo (UserMode.tla): whatever part of it fails, and    *)
(* whatever the user program does, the ledger stays sound, the processes   *)
(* stay apart, and the shell goes on in the kernel's address space.        *)
(***************************************************************************)
EXTENDS UserMode, TruthShellProofs, FiniteSetTheorems

(***************************************************************************)
(* Calls in the course of userdemo.                                        *)
(***************************************************************************)
\* What the shell's own invariant speaks of, by name: no call of userdemo is to
\* change one of these.
Watched == {"shell", ThePolicy} \cup DOMAIN FirstConfig

\* A ledger in the course of a command that the event from began.
Live(l, from) == Fit(l) /\ from \in Nat /\ l.current \in from..(l.next - 1)

\* Calls that change no watched object and record events caused since the command began.
Proceeds(l, m, from) ==
  /\ Live(m, from) /\ l.next =< m.next
  /\ \A name \in Watched : Shown(m, name) = Shown(l, name)
  /\ \A event \in Seen(m) \ Seen(l) :
       /\ event.seq \in l.next..(m.next - 1)
       /\ event.op # "exception" => event.parent \in from..(event.seq - 1)

\* The same, if they leave the transactions open and in force and the current event
\* what they were.
Works(l, m, from) ==
  /\ Proceeds(l, m, from)
  /\ m.tx = l.tx /\ m.current = l.current /\ OpenIds(m) = OpenIds(l)

LEMMA ProceedsOn ==
  ASSUME NEW l, NEW k, NEW m, NEW from, Live(l, from), Proceeds(l, k, from),
         Proceeds(k, m, from)
  PROVE  Proceeds(l, m, from)
<1>1. /\ l.next \in Nat /\ k.next \in Nat /\ m.next \in Nat
      /\ l.next =< k.next /\ k.next =< m.next
  BY DEF Live, Proceeds, Fit, Whole, LedgerType
<1>2. \A name \in Watched : Shown(m, name) = Shown(l, name)
  BY DEF Proceeds
<1>3. ASSUME NEW event \in Seen(m) \ Seen(l)
      PROVE  /\ event.seq \in l.next..(m.next - 1)
             /\ event.op # "exception" => event.parent \in from..(event.seq - 1)
  <2>1. CASE event \in Seen(k)
    <3>1. /\ event.seq \in l.next..(k.next - 1)
          /\ event.op # "exception" => event.parent \in from..(event.seq - 1)
      BY <1>3, <2>1 DEF Proceeds
    <3> QED
      BY <1>1, <3>1
  <2>2. CASE event \notin Seen(k)
    <3>1. /\ event.seq \in k.next..(m.next - 1)
          /\ event.op # "exception" => event.parent \in from..(event.seq - 1)
      BY <1>3, <2>2 DEF Proceeds
    <3> QED
      BY <1>1, <3>1
  <2> QED
    BY <2>1, <2>2
<1>4. Live(m, from) /\ l.next =< m.next
  BY <1>1 DEF Proceeds
<1> QED
  BY <1>2, <1>3, <1>4 DEF Proceeds

LEMMA WorksOn ==
  ASSUME NEW l, NEW k, NEW m, NEW from, Live(l, from), Works(l, k, from), Works(k, m, from)
  PROVE  Works(l, m, from)
BY ProceedsOn DEF Works

LEMMA WorksNot ==
  ASSUME NEW l, NEW from, Live(l, from)
  PROVE  Works(l, l, from)
<1>1. l.next =< l.next
  BY DEF Live, Fit, Whole, LedgerType
<1> QED
  BY <1>1 DEF Works, Proceeds

\* A ledger that works has a current event.
LEMMA WorksLive ==
  ASSUME NEW l, NEW m, NEW from, Works(l, m, from)
  PROVE  /\ Live(m, from) /\ Fit(m) /\ Whole(m) /\ m.next \in Nat
         /\ m.current \in 0..(m.next - 1) /\ m.current = l.current
         /\ m.current \in from..(m.next - 1) /\ from \in Nat
<1>1. Live(m, from) /\ Fit(m) /\ Whole(m) /\ m.next \in Nat /\ m.current = l.current
      /\ m.current \in from..(m.next - 1) /\ from \in Nat
  BY DEF Works, Proceeds, Live, Fit, Whole, LedgerType
<1> QED
  BY <1>1

LEMMA RecordProceeds ==
  ASSUME NEW l, NEW from, Live(l, from), NEW report \in ReportType,
         report.parent \in 0..(l.next - 1),
         report.op # "exception" => report.parent \in from..(l.next - 1)
  PROVE  Works(l, Record(l, report), from) /\ Record(l, report).next = l.next + 1
<1> SUFFICES ASSUME NEW m, m = Record(l, report)
             PROVE  Works(l, m, from) /\ m.next = l.next + 1
  OBVIOUS
<1>1. Fit(l) /\ l.next \in Nat /\ from \in Nat /\ l.current \in from..(l.next - 1)
  BY DEF Live, Fit, Whole, LedgerType
<1>2. Records(l, m, report)
  BY <1>1, RecordGoes
<1>3. /\ Fit(m) /\ m.tx = l.tx /\ m.current = l.current /\ OpenIds(m) = OpenIds(l)
      /\ m.next = l.next + 1
      /\ \A name \in Names : Shown(m, name) = Shown(l, name)
      /\ \A event \in Seen(m) \ Seen(l) : event.seq = l.next /\ Tells(event, report)
  BY <1>2 DEF Records, Goes
<1>4. Watched \subseteq Names
  BY PolicyWordAssumption, BootWordAssumption DEF Watched
<1>5. Live(m, from) /\ l.next =< m.next
  BY <1>1, <1>3 DEF Live
<1>6. ASSUME NEW event \in Seen(m) \ Seen(l)
      PROVE  /\ event.seq \in l.next..(m.next - 1)
             /\ event.op # "exception" => event.parent \in from..(event.seq - 1)
  <2>1. event.seq = l.next /\ event.op = report.op /\ event.parent = report.parent
    BY <1>3, <1>6 DEF Tells
  <2> QED
    BY <1>1, <1>3, <2>1
<1> QED
  BY <1>3, <1>4, <1>5, <1>6 DEF Works, Proceeds

LEMMA RegisterProceeds ==
  ASSUME NEW l, NEW from, Live(l, from), NEW name \in Names \ Watched, NEW parent \in Nat,
         NEW state \in States, NEW created \in Nat
  PROVE  /\ Works(l, Register(l, name, parent, state, created), from)
         /\ Register(l, name, parent, state, created).next = l.next
<1> SUFFICES ASSUME NEW m, m = Register(l, name, parent, state, created)
             PROVE  Works(l, m, from) /\ m.next = l.next
  OBVIOUS
<1>1. Fit(l) /\ l.next \in Nat /\ from \in Nat /\ l.current \in from..(l.next - 1)
  BY DEF Live, Fit, Whole, LedgerType
<1>2. Registers(l, m, name, state)
  BY <1>1, RegisterGoes
<1>3. /\ Fit(m) /\ m.tx = l.tx /\ m.current = l.current /\ OpenIds(m) = OpenIds(l)
      /\ m.next = l.next /\ Seen(m) = Seen(l)
      /\ \A other \in Names \ {name} : Shown(m, other) = Shown(l, other)
  BY <1>2 DEF Registers, Goes
<1>4. Watched \subseteq Names \ {name}
  BY PolicyWordAssumption, BootWordAssumption DEF Watched
<1>5. Live(m, from) /\ l.next =< m.next
  BY <1>1, <1>3 DEF Live
<1> QED
  BY <1>3, <1>4, <1>5 DEF Works, Proceeds

LEMMA WorksReport ==
  ASSUME NEW l, NEW k, NEW from, Live(l, from), Works(l, k, from),
         NEW actor \in Labels, NEW target \in Labels, NEW op \in Operations,
         NEW result \in Results, NEW kind \in Kinds, NEW parent \in from..(k.next - 1)
  PROVE  /\ Works(l, Record(k, Report(actor, target, op, result, parent, kind)), from)
         /\ Record(k, Report(actor, target, op, result, parent, kind)).next = k.next + 1
<1> DEFINE report == Report(actor, target, op, result, parent, kind)
<1>1. Live(k, from) /\ k.next \in Nat /\ from \in Nat
  BY WorksLive
<1>2. parent \in Nat /\ parent \in 0..(k.next - 1)
  BY <1>1
<1>3. report \in ReportType /\ report.parent = parent
  BY <1>2, ReportIsTyped DEF Report
<1> HIDE DEF report
<1>4. Works(k, Record(k, report), from) /\ Record(k, report).next = k.next + 1
  BY <1>1, <1>2, <1>3, RecordProceeds
<1> QED
  BY <1>4, WorksOn DEF report

LEMMA WorksAnnounce ==
  ASSUME NEW l, NEW k, NEW from, Live(l, from), Works(l, k, from),
         NEW actor \in Labels, NEW target \in Labels, NEW op \in Operations,
         NEW result \in Results
  PROVE  /\ Works(l, Announce(k, actor, target, op, result), from)
         /\ Announce(k, actor, target, op, result).next = k.next + 1
<1>1. k.current \in from..(k.next - 1)
  BY WorksLive
<1>2. "action" \in Kinds
  BY DEF Kinds
<1> QED
  BY <1>1, <1>2, WorksReport DEF Announce

LEMMA WorksRegister ==
  ASSUME NEW l, NEW k, NEW from, Live(l, from), Works(l, k, from),
         NEW name \in Names \ Watched, NEW parent \in Nat, NEW state \in States,
         NEW created \in Nat
  PROVE  Works(l, Register(k, name, parent, state, created), from)
<1>1. Live(k, from)
  BY WorksLive
<1>2. Works(k, Register(k, name, parent, state, created), from)
  BY <1>1, RegisterProceeds
<1> QED
  BY <1>2, WorksOn

LEMMA WorksIds ==
  ASSUME NEW l, NEW k, NEW from, Works(l, k, from)
  PROVE  /\ \A name : ObjectId(k, name) \in Nat
         /\ k.current \in Nat
<1>1. k \in LedgerType
  BY DEF Works, Proceeds, Live, Fit, Whole
<1>2. k.objects \in Seq(Object) /\ k.current \in Nat
  BY <1>1 DEF LedgerType
<1> QED
  BY <1>2, ObjectIdType

\* The words of user.c and of the part of memory.c it calls.
LEMMA UserWords ==
  /\ {"memory", "page_allocator", "page_tables", "scheduler", "kernel", "ramfs",
      "/bin/hello", "shell", "cpu"} \subseteq Labels
  /\ {"allocate", "lookup", "policy_check", "read", "exception", "inspect",
      "address_space_create", "map_virtual", "process_create", "thread_create",
      "user_transition_scaffold", "load_executable", "map_private_page", "switch_cr3",
      "enter_cpl3", "cpl3_trap", "yield", "schedule", "config_get", "config_set",
      "unknown_syscall", "page_fault", "isolation_fault"} \subseteq Operations
  /\ {"ok", "denied", "fault"} \subseteq Results
  /\ {"action", "state", "policy", "syscall", "fault"} \subseteq Kinds
  /\ {"created", "runnable"} \subseteq States
  /\ \A pid \in 1..ProcessCap :
       /\ {ProcessName(pid), ThreadName(pid), SpaceName(pid)} \subseteq Names \ Watched
       /\ {ProcessName(pid), ThreadName(pid), SpaceName(pid)} \subseteq Labels
<1>1. Names \subseteq Labels
  BY WordsAreTyped
<1>2. "/bin/hello" \in Labels
  BY <1>1, BootWordAssumption DEF Files
<1>3. \A pid \in 1..ProcessCap :
        {ProcessName(pid), ThreadName(pid), SpaceName(pid)} \subseteq Names \ Watched
  BY UserAssumption DEF Watched
<1>4. {"allocate", "lookup", "policy_check", "read", "exception", "inspect"} \subseteq Operations
  BY BootWordAssumption, PolicyWordAssumption
<1> QED
  BY <1>1, <1>2, <1>3, <1>4, WordsAreTyped, UserWordAssumption DEF Results, Kinds

(***************************************************************************)
(* Pages and processes.                                                    *)
(***************************************************************************)
IsMachine(m) == m = [ledger |-> m.ledger, free |-> m.free, processes |-> m.processes]

\* What a process owns: its tables and the frames of its pages.
Owned(process) == process.tables \cup (Frames(process) \ {0})

\* Each frame of a process has one use, and those of the kernel it does not reach.
Private(process) ==
  /\ 0 \notin process.tables
  /\ \A area \in Areas :
       /\ process.pages[area].user => process.pages[area].frame # 0
       /\ process.pages[area].frame # 0 =>
            /\ process.pages[area].frame \notin process.tables
            /\ \A other \in Areas \ {area} :
                 process.pages[area].frame # process.pages[other].frame

\* No frame has two holders.
Apart(pool, table) ==
  /\ table \in Seq(Process) /\ pool \in SUBSET (Nat \ {0})
  /\ \A pid \in DOMAIN table : Private(table[pid]) /\ Owned(table[pid]) \cap pool = {}
  /\ \A pid, other \in DOMAIN table :
       pid # other => Owned(table[pid]) \cap Owned(table[other]) = {}

\* A page that was free and has no use yet.
Fresh(m, page) ==
  /\ page \in Nat \ {0} /\ page \notin m.free
  /\ \A pid \in DOMAIN m.processes : page \notin Owned(m.processes[pid])

\* A machine in the course of the command that the event from began, whose ledger was l.
Operates(l, m, from) ==
  IsMachine(m) /\ Works(l, m.ledger, from) /\ Apart(m.free, m.processes)

LEMMA NotedOperates ==
  ASSUME NEW l, NEW m, NEW from, Live(l, from), Operates(l, m, from),
         NEW actor \in Labels, NEW target \in Labels, NEW op \in Operations,
         NEW result \in Results
  PROVE  /\ Operates(l, Noted(m, actor, target, op, result), from)
         /\ Noted(m, actor, target, op, result).free = m.free
         /\ Noted(m, actor, target, op, result).processes = m.processes
         /\ Noted(m, actor, target, op, result).ledger.next = m.ledger.next + 1
<1> DEFINE l2 == Announce(m.ledger, actor, target, op, result)
           n == Noted(m, actor, target, op, result)
<1>1. Works(l, l2, from) /\ l2.next = m.ledger.next + 1
  BY WorksAnnounce DEF Operates
<1> HIDE DEF l2
<1>2. n = [ledger |-> l2, free |-> m.free, processes |-> m.processes]
  BY DEF Operates, IsMachine, Noted, l2
<1> HIDE DEF n
<1>3. IsMachine(n) /\ n.ledger = l2 /\ n.free = m.free /\ n.processes = m.processes
  BY <1>2 DEF IsMachine
<1> QED
  BY <1>1, <1>3 DEF Operates, n

LEMMA StateOperates ==
  ASSUME NEW l, NEW m, NEW from, Live(l, from), Operates(l, m, from),
         NEW actor \in Labels, NEW target \in Labels, NEW op \in Operations,
         NEW result \in Results, NEW parent \in from..(m.ledger.next - 1)
  PROVE  /\ Operates(l, NotedState(m, actor, target, op, result, parent), from)
         /\ NotedState(m, actor, target, op, result, parent).free = m.free
         /\ NotedState(m, actor, target, op, result, parent).processes = m.processes
         /\ NotedState(m, actor, target, op, result, parent).ledger.next = m.ledger.next + 1
<1> DEFINE l2 == Record(m.ledger, Report(actor, target, op, result, parent, "state"))
           n == NotedState(m, actor, target, op, result, parent)
<1>0. Works(l, m.ledger, from) /\ "state" \in Kinds
  BY DEF Operates, Kinds
<1>1. Works(l, l2, from) /\ l2.next = m.ledger.next + 1
  BY <1>0, WorksReport
<1> HIDE DEF l2
<1>2. n = [ledger |-> l2, free |-> m.free, processes |-> m.processes]
  BY DEF Operates, IsMachine, NotedState, l2
<1> HIDE DEF n
<1>3. IsMachine(n) /\ n.ledger = l2 /\ n.free = m.free /\ n.processes = m.processes
  BY <1>2 DEF IsMachine
<1> QED
  BY <1>1, <1>3 DEF Operates, n

LEMMA ApartShrinks ==
  ASSUME NEW pool, NEW table, Apart(pool, table), NEW S
  PROVE  Apart(pool \ S, table)
BY DEF Apart

\* page_alloc: the lowest page that is left, if any is.
Allocates(m, n) ==
  /\ n.free = m.free \ {Page(m)} /\ n.processes = m.processes
  /\ m.ledger.next < n.ledger.next
  /\ m.free = {} => Page(m) = 0 /\ n.free = {}
  /\ m.free # {} => Page(m) \in m.free /\ Page(m) # 0 /\ Fresh(n, Page(m))
  /\ \A page : Fresh(m, page) => Fresh(n, page) /\ page # Page(m)

LEMMA AllocOperates ==
  ASSUME NEW l, NEW m, NEW from, Live(l, from), Operates(l, m, from)
  PROVE  Operates(l, PageAlloc(m), from) /\ Allocates(m, PageAlloc(m))
<1> DEFINE k == [m EXCEPT !.free = m.free \ {Page(m)}]
           said == IF m.free = {} THEN "denied" ELSE "ok"
           n == PageAlloc(m)
<1>1. k = [ledger |-> m.ledger, free |-> m.free \ {Page(m)}, processes |-> m.processes]
  BY DEF Operates, IsMachine
<1>2. n = Noted(k, "memory", "page_allocator", "allocate", said)
  BY DEF PageAlloc
<1> HIDE DEF k, n
<1>3. IsMachine(k) /\ k.ledger = m.ledger /\ k.free = m.free \ {Page(m)}
      /\ k.processes = m.processes
  BY <1>1 DEF IsMachine
<1>4. Operates(l, k, from)
  <2>1. Apart(m.free \ {Page(m)}, m.processes)
    BY ApartShrinks DEF Operates
  <2> QED
    BY <1>3, <2>1 DEF Operates
<1>5. /\ "memory" \in Labels /\ "page_allocator" \in Labels
      /\ "allocate" \in Operations /\ said \in Results
  BY UserWords DEF Results
<1> HIDE DEF said
<1>6. /\ Operates(l, n, from) /\ n.free = k.free /\ n.processes = k.processes
      /\ n.ledger.next = k.ledger.next + 1
  BY <1>2, <1>4, <1>5, NotedOperates
<1>7. m.free \in SUBSET (Nat \ {0}) /\ m.processes \in Seq(Process)
      /\ \A pid \in DOMAIN m.processes : Owned(m.processes[pid]) \cap m.free = {}
  BY DEF Operates, Apart
<1>8. m.ledger.next \in Nat
  BY WorksLive DEF Operates
<1>9. m.free = {} => Page(m) = 0 /\ n.free = {}
  BY <1>3, <1>6 DEF Page
<1>10. m.free # {} => Page(m) \in m.free /\ Page(m) # 0
  BY <1>7, MinOfNaturals DEF Page
<1>11. m.free # {} => Fresh(n, Page(m))
  BY <1>3, <1>6, <1>7, <1>10 DEF Fresh
<1>12. ASSUME NEW page, Fresh(m, page)
       PROVE  Fresh(n, page) /\ page # Page(m)
  BY <1>3, <1>6, <1>9, <1>10, <1>12 DEF Fresh
<1> QED
  BY <1>3, <1>6, <1>8, <1>9, <1>10, <1>11, <1>12 DEF Allocates, n

\* One process is replaced by another that has taken none of the others' frames.
LEMMA ApartReplace ==
  ASSUME NEW pool, NEW table, Apart(pool, table), NEW pid \in DOMAIN table,
         NEW process \in Process, Private(process), NEW left \in SUBSET pool,
         Owned(process) \cap left = {},
         \A other \in DOMAIN table \ {pid} : Owned(process) \cap Owned(table[other]) = {}
  PROVE  Apart(left, [table EXCEPT ![pid] = process])
<1> DEFINE new == [table EXCEPT ![pid] = process]
<1>1. table \in Seq(Process) /\ pool \in SUBSET (Nat \ {0})
  BY DEF Apart
<1>2. new \in Seq(Process) /\ DOMAIN new = DOMAIN table /\ new[pid] = process
      /\ \A other \in DOMAIN table \ {pid} : new[other] = table[other]
  BY <1>1
<1> HIDE DEF new
<1>3. ASSUME NEW other \in DOMAIN new
      PROVE  Private(new[other]) /\ Owned(new[other]) \cap left = {}
  BY <1>2, <1>3 DEF Apart
<1>4. ASSUME NEW one \in DOMAIN new, NEW other \in DOMAIN new, one # other
      PROVE  Owned(new[one]) \cap Owned(new[other]) = {}
  <2>1. CASE one # pid /\ other # pid
    BY <1>2, <1>4, <2>1 DEF Apart
  <2>2. CASE one = pid
    BY <1>2, <1>4, <2>2
  <2>3. CASE other = pid
    BY <1>2, <1>4, <2>3
  <2> QED
    BY <2>1, <2>2, <2>3
<1>5. left \in SUBSET (Nat \ {0})
  BY <1>1
<1> QED
  BY <1>2, <1>3, <1>4, <1>5 DEF Apart, new

\* A process with one page more, and perhaps one table.
LEMMA MappedIsPrivate ==
  ASSUME NEW process \in Process, Private(process), NEW area \in Areas,
         NEW page \in Nat \ {0}, page \notin Owned(process), NEW writable \in BOOLEAN,
         NEW tables \in SUBSET (Nat \ {0}), process.tables \subseteq tables,
         page \notin tables, (tables \ process.tables) \cap Owned(process) = {}
  PROVE  LET grown == Mapped(process, area, page, writable, tables)
         IN  /\ grown \in Process /\ Private(grown)
             /\ Owned(grown) \subseteq Owned(process) \cup {page} \cup tables
<1> SUFFICES ASSUME NEW grown, grown = Mapped(process, area, page, writable, tables)
             PROVE  /\ grown \in Process /\ Private(grown)
                    /\ Owned(grown) \subseteq Owned(process) \cup {page} \cup tables
  OBVIOUS
<1>1. Directory(area) \in 0..3
  BY DEF Directory, Areas
<1>2. grown \in Process
  BY <1>1 DEF Mapped, Process, PageEntry, Rights
<1>3. /\ grown.tables = tables /\ grown.pages[area].frame = page
      /\ \A other \in Areas \ {area} : grown.pages[other] = process.pages[other]
  BY DEF Mapped, Process, PageEntry
<1>4. \A other \in Areas : process.pages[other].frame # 0 =>
                             process.pages[other].frame \in Owned(process)
  BY DEF Owned, Frames
<1>5. ASSUME NEW other \in Areas
      PROVE  /\ grown.pages[other].user => grown.pages[other].frame # 0
             /\ grown.pages[other].frame # 0 =>
                  /\ grown.pages[other].frame \notin grown.tables
                  /\ \A third \in Areas \ {other} :
                       grown.pages[other].frame # grown.pages[third].frame
  <2>1. CASE other = area
    BY <1>3, <1>4, <2>1
  <2>2. CASE other # area
    <3>1. grown.pages[other] = process.pages[other]
      BY <1>3, <2>2
    <3>2. grown.pages[other].user => grown.pages[other].frame # 0
      BY <3>1 DEF Private
    <3>3. ASSUME grown.pages[other].frame # 0
          PROVE  grown.pages[other].frame \notin grown.tables
      BY <1>3, <1>4, <3>1, <3>3 DEF Private
    <3>4. ASSUME grown.pages[other].frame # 0, NEW third \in Areas \ {other}
          PROVE  grown.pages[other].frame # grown.pages[third].frame
      BY <1>3, <1>4, <3>1, <3>4 DEF Private
    <3> QED
      BY <3>2, <3>3, <3>4
  <2> QED
    BY <2>1, <2>2
<1>6. Private(grown)
  BY <1>3, <1>5 DEF Private
<1>7. Owned(grown) \subseteq Owned(process) \cup {page} \cup tables
  BY <1>3, <1>4 DEF Owned, Frames
<1> QED
  BY <1>2, <1>6, <1>7

\* memory_map_process_page: the process has the page, and perhaps one table more.
Maps(m, n, pid, area, page, writable) ==
  /\ n.free \subseteq m.free /\ m.ledger.next =< n.ledger.next
  /\ DOMAIN n.processes = DOMAIN m.processes
  /\ \A other \in DOMAIN m.processes \ {pid} : n.processes[other] = m.processes[other]
  /\ ~ CanMap(m, pid, area) => n.processes = m.processes
  /\ CanMap(m, pid, area) =>
       \E tables : n.processes[pid] = Mapped(m.processes[pid], area, page, writable, tables)
  /\ \A other : Fresh(m, other) /\ other # page => Fresh(n, other)

LEMMA MapOperates ==
  ASSUME NEW l, NEW m, NEW from, Live(l, from), Operates(l, m, from),
         NEW pid \in DOMAIN m.processes, NEW area \in Areas, NEW page, Fresh(m, page),
         NEW writable \in BOOLEAN
  PROVE  /\ Operates(l, MapPage(m, pid, area, page, writable), from)
         /\ Maps(m, MapPage(m, pid, area, page, writable), pid, area, page, writable)
<1> DEFINE process == m.processes[pid]
           taken == PageAlloc(m)
           k == IF Missing(m, pid, area) THEN taken ELSE m
           tables == process.tables \cup (IF Missing(m, pid, area) THEN {Page(m)} ELSE {})
           grown == Mapped(process, area, page, writable, tables)
           g == [ledger |-> k.ledger, free |-> k.free,
                 processes |-> [m.processes EXCEPT ![pid] = grown]]
           n == MapPage(m, pid, area, page, writable)
<1>1. /\ Apart(m.free, m.processes) /\ IsMachine(m) /\ m.ledger.next \in Nat
      /\ m.processes \in Seq(Process) /\ process \in Process /\ Private(process)
      /\ Owned(process) \cap m.free = {} /\ m.free \in SUBSET (Nat \ {0})
      /\ Owned(process) \subseteq Nat \ {0}
  <2>1. Apart(m.free, m.processes) /\ IsMachine(m) /\ m.ledger.next \in Nat
    BY WorksLive DEF Operates
  <2>2. m.processes \in Seq(Process) /\ process \in Process /\ Private(process)
        /\ Owned(process) \cap m.free = {} /\ m.free \in SUBSET (Nat \ {0})
    BY <2>1 DEF Apart
  <2>3. Owned(process) \subseteq Nat \ {0}
    BY <2>2 DEF Owned, Frames, Process, Private
  <2> QED
    BY <2>1, <2>2, <2>3
<1>2. Operates(l, taken, from) /\ Allocates(m, taken)
  BY AllocOperates
<1>3. /\ "memory" \in Labels /\ "page_tables" \in Labels /\ "map_virtual" \in Operations
      /\ "ok" \in Results /\ "denied" \in Results
  BY UserWords
<1>4. page \in Nat \ {0} /\ page \notin m.free
      /\ \A other \in DOMAIN m.processes : page \notin Owned(m.processes[other])
  BY DEF Fresh
<1>5. CASE ~ CanMap(m, pid, area)
  <2>1. n = Noted(taken, "memory", "page_tables", "map_virtual", "denied")
    BY <1>5 DEF MapPage
  <2> HIDE DEF n, taken
  <2>2. /\ Operates(l, n, from) /\ n.free = taken.free /\ n.processes = taken.processes
        /\ n.ledger.next = taken.ledger.next + 1
    BY <1>2, <1>3, <2>1, NotedOperates
  <2>3. taken.ledger.next \in Nat
    BY <1>2, WorksLive DEF Operates
  <2>4. n.processes = m.processes /\ n.free \subseteq m.free /\ m.ledger.next =< n.ledger.next
    BY <1>1, <1>2, <2>2, <2>3 DEF Allocates
  <2>5. \A other : Fresh(m, other) => Fresh(n, other)
    BY <1>2, <2>2 DEF Allocates, Fresh
  <2>6. Maps(m, n, pid, area, page, writable)
    BY <1>5, <2>4, <2>5 DEF Maps
  <2> QED
    BY <2>2, <2>6 DEF n
<1>6. CASE CanMap(m, pid, area)
  <2>1. Missing(m, pid, area) => Page(m) \in m.free /\ Page(m) # 0 /\ Page(m) # page
    BY <1>2, <1>4, <1>6 DEF CanMap, Allocates
  <2>2. k.free \in SUBSET m.free /\ (Missing(m, pid, area) => Page(m) \notin k.free)
        /\ k.processes = m.processes /\ Works(l, k.ledger, from) /\ IsMachine(k)
        /\ m.ledger.next =< k.ledger.next
    <3>1. CASE Missing(m, pid, area)
      <4>1. m.ledger.next < taken.ledger.next /\ taken.ledger.next \in Nat
        BY <1>2, WorksLive DEF Operates, Allocates
      <4> QED
        BY <1>1, <1>2, <3>1, <4>1 DEF Operates, Allocates
    <3>2. CASE ~ Missing(m, pid, area)
      BY <1>1, <3>2 DEF Operates
    <3> QED
      BY <3>1, <3>2
  <2>3. /\ process.tables \subseteq tables /\ tables \in SUBSET (Nat \ {0}) /\ page \notin tables
        /\ (tables \ process.tables) \cap Owned(process) = {}
        /\ page \notin Owned(process)
    <3>1. process.tables \subseteq Owned(process)
      BY DEF Owned
    <3> QED
      BY <1>1, <1>4, <2>1, <3>1
  <2>4. /\ grown \in Process /\ Private(grown)
        /\ Owned(grown) \subseteq Owned(process) \cup {page} \cup tables
    <3> HIDE DEF tables, process
    <3> QED
      BY <1>1, <1>4, <2>3, MappedIsPrivate
  <2>5. [k EXCEPT !.processes[pid] = Mapped(@, area, page, writable, tables)] = g
    <3>1. k = [ledger |-> k.ledger, free |-> k.free, processes |-> m.processes]
      BY <2>2 DEF IsMachine
    <3> HIDE DEF k, tables
    <3> QED
      BY <3>1
  <2>6. n = Noted(g, "memory", "page_tables", "map_virtual", "ok")
    BY <1>6, <2>5 DEF MapPage
  <2> HIDE DEF n, k, grown, tables, taken
  <2>7. g.ledger = k.ledger /\ g.free = k.free
        /\ g.processes = [m.processes EXCEPT ![pid] = grown] /\ IsMachine(g)
    BY DEF IsMachine
  <2> HIDE DEF g
  <2>8. Owned(grown) \cap k.free = {}
    BY <1>1, <1>4, <2>1, <2>2, <2>4 DEF tables, Owned
  <2>9. ASSUME NEW other \in DOMAIN m.processes \ {pid}
        PROVE  Owned(grown) \cap Owned(m.processes[other]) = {}
    <3>1. /\ Owned(process) \cap Owned(m.processes[other]) = {}
          /\ m.free \cap Owned(m.processes[other]) = {}
      BY <1>1, <2>9 DEF Apart
    <3>2. process.tables \subseteq Owned(process)
      BY DEF Owned
    <3> QED
      BY <1>4, <2>1, <2>4, <2>9, <3>1, <3>2 DEF tables
  <2>10. Apart(g.free, g.processes)
    BY <1>1, <2>2, <2>4, <2>7, <2>8, <2>9, ApartReplace
  <2>11. Operates(l, g, from)
    BY <2>2, <2>7, <2>10 DEF Operates
  <2>12. /\ Operates(l, n, from) /\ n.free = g.free /\ n.processes = g.processes
         /\ n.ledger.next = g.ledger.next + 1
    BY <1>3, <2>6, <2>11, NotedOperates
  <2>13. k.ledger.next \in Nat
    BY <2>2, WorksLive
  <2>14. n.free \subseteq m.free /\ m.ledger.next =< n.ledger.next
    BY <1>1, <2>2, <2>7, <2>12, <2>13
  <2>15. DOMAIN n.processes = DOMAIN m.processes /\ n.processes[pid] = grown
         /\ \A other \in DOMAIN m.processes \ {pid} : n.processes[other] = m.processes[other]
    BY <1>1, <2>7, <2>12
  <2>16. ASSUME NEW other, Fresh(m, other), other # page
         PROVE  Fresh(n, other)
    <3>1. other \in Nat \ {0} /\ other \notin n.free
      BY <2>14, <2>16 DEF Fresh
    <3>2. other \notin Owned(grown)
      <4>1. other \notin Owned(process) /\ other \notin m.free
        BY <2>16 DEF Fresh
      <4>2. other \notin tables
        BY <2>1, <4>1 DEF tables, Owned
      <4> QED
        BY <2>4, <2>16, <4>1, <4>2
    <3>3. \A pid2 \in DOMAIN n.processes : other \notin Owned(n.processes[pid2])
      BY <2>15, <2>16, <3>2 DEF Fresh
    <3> QED
      BY <3>1, <3>3 DEF Fresh
  <2>17. Maps(m, n, pid, area, page, writable)
    BY <1>6, <2>14, <2>15, <2>16 DEF Maps, grown
  <2> QED
    BY <2>12, <2>17 DEF n
<1> QED
  BY <1>5, <1>6

\* Two pages, and five.
LEMMA PagesOperate ==
  ASSUME NEW l, NEW m, NEW from, Live(l, from), Operates(l, m, from)
  PROVE  /\ Operates(l, TwoPages(m), from) /\ Operates(l, FivePages(m), from)
         /\ TwoPages(m).processes = m.processes /\ FivePages(m).processes = m.processes
         /\ TwoPages(m).free \subseteq m.free /\ FivePages(m).free \subseteq m.free
<1>1. ASSUME NEW k, Operates(l, k, from)
      PROVE  /\ Operates(l, PageAlloc(k), from) /\ PageAlloc(k).processes = k.processes
             /\ PageAlloc(k).free \subseteq k.free
  BY <1>1, AllocOperates DEF Allocates
<1>2. ASSUME NEW k, Operates(l, k, from)
      PROVE  /\ Operates(l, TwoPages(k), from) /\ TwoPages(k).processes = k.processes
             /\ TwoPages(k).free \subseteq k.free
  <2>1. /\ Operates(l, PageAlloc(k), from) /\ PageAlloc(k).processes = k.processes
        /\ PageAlloc(k).free \subseteq k.free
    BY <1>1, <1>2
  <2>2. /\ Operates(l, TwoPages(k), from) /\ TwoPages(k).processes = PageAlloc(k).processes
        /\ TwoPages(k).free \subseteq PageAlloc(k).free
    BY <1>1, <2>1 DEF TwoPages
  <2> QED
    BY <2>1, <2>2
<1>3. /\ Operates(l, TwoPages(m), from) /\ TwoPages(m).processes = m.processes
      /\ TwoPages(m).free \subseteq m.free
  BY <1>2
<1> DEFINE four == TwoPages(TwoPages(m))
<1>4. /\ Operates(l, four, from) /\ four.processes = TwoPages(m).processes
      /\ four.free \subseteq TwoPages(m).free
  BY <1>2, <1>3
<1> HIDE DEF four
<1>5. /\ Operates(l, PageAlloc(four), from) /\ PageAlloc(four).processes = four.processes
      /\ PageAlloc(four).free \subseteq four.free
  BY <1>1, <1>4
<1> QED
  BY <1>3, <1>4, <1>5 DEF FivePages, four

\* A process that reaches nothing at CPL 3.
Bare(process) == \A area \in Areas : ~ process.pages[area].user

\* memory_create_address_space.
Creates(m, n, pid) ==
  /\ DOMAIN n.processes = DOMAIN m.processes
  /\ \A other \in DOMAIN m.processes \ {pid} : n.processes[other] = m.processes[other]
  /\ Bare(n.processes[pid])

\* A process with tables and no pages but the kernel's.
LEMMA SpaceIsPrivate ==
  ASSUME NEW process, process = NewProcess, NEW tables \in SUBSET (Nat \ {0}),
         Min(tables) \in Nat, NEW new, new = WithSpace(process, tables)
  PROVE  new \in Process /\ Private(new) /\ Bare(new) /\ Owned(new) = tables
<1>1. process \in Process
  BY DEF NewProcess, Process, NoEntry, PageEntry, Rights
<1>2. PageEntry(0, FALSE, TRUE) \in [frame : Nat, user : BOOLEAN, writable : BOOLEAN]
  BY DEF PageEntry
<1>3. "kernel" \in Areas /\ "kernel" \in Rights
  BY DEF Areas, Rights
<1>4. /\ new.tables = tables /\ new \in Process
      /\ new.pages = [process.pages EXCEPT !["kernel"] = PageEntry(0, FALSE, TRUE)]
  BY <1>1, <1>2, <1>3 DEF Process, WithSpace
<1>5. \A area \in Areas : new.pages[area].frame = 0 /\ ~ new.pages[area].user
  <2>1. \A area \in Areas : process.pages[area].frame = 0 /\ ~ process.pages[area].user
    BY DEF NewProcess, NoEntry, PageEntry
  <2>2. DOMAIN process.pages = Areas
    BY <1>1 DEF Process
  <2> QED
    BY <1>4, <2>1, <2>2 DEF PageEntry
<1>6. Private(new) /\ Bare(new)
  BY <1>4, <1>5 DEF Private, Bare
<1>7. Owned(new) = tables
  BY <1>4, <1>5 DEF Owned, Frames
<1> QED
  BY <1>4, <1>6, <1>7

LEMMA SpaceOperates ==
  ASSUME NEW l, NEW m, NEW from, Live(l, from), Operates(l, m, from),
         NEW pid \in DOMAIN m.processes, m.processes[pid] = NewProcess,
         SpaceName(pid) \in Labels
  PROVE  Operates(l, CreateSpace(m, pid), from) /\ Creates(m, CreateSpace(m, pid), pid)
<1> DEFINE taken == FivePages(m)
           pages == m.free \ taken.free
           few == Cardinality(pages) < 5
           said == Noted(taken, "memory", SpaceName(pid), "address_space_create",
                         IF few THEN "denied" ELSE "ok")
           new == WithSpace(m.processes[pid], pages)
           g == [ledger |-> said.ledger, free |-> said.free,
                 processes |-> [m.processes EXCEPT ![pid] = new]]
           n == CreateSpace(m, pid)
<1>1. Operates(l, taken, from) /\ taken.processes = m.processes /\ taken.free \subseteq m.free
  BY PagesOperate
<1>2. /\ "memory" \in Labels /\ "address_space_create" \in Operations
      /\ "ok" \in Results /\ "denied" \in Results
  BY UserWords
<1>3. n = IF few THEN said ELSE [said EXCEPT !.processes[pid] = new]
  <2>1. CASE few
    BY <2>1 DEF CreateSpace
  <2>2. CASE ~ few
    <3>1. said = Noted(taken, "memory", SpaceName(pid), "address_space_create", "ok")
      BY <2>2
    <3>2. said.processes[pid] = m.processes[pid]
      <4> HIDE DEF taken, said
      <4> QED
        BY <1>1, <1>2, <3>1, NotedOperates
    <3>3. n = [Noted(taken, "memory", SpaceName(pid), "address_space_create", "ok") EXCEPT
                 !.processes[pid] = WithSpace(@, pages)]
      BY <2>2 DEF CreateSpace
    <3> HIDE DEF taken, said, pages
    <3> QED
      BY <2>2, <3>1, <3>2, <3>3
  <2> QED
    BY <2>1, <2>2
<1>4. /\ Operates(l, said, from) /\ said.free = taken.free /\ said.processes = m.processes
  <2> HIDE DEF taken
  <2> QED
    BY <1>1, <1>2, NotedOperates
<1>5. /\ Apart(m.free, m.processes) /\ m.free \in SUBSET (Nat \ {0})
      /\ m.processes \in Seq(Process)
      /\ \A other \in DOMAIN m.processes : Owned(m.processes[other]) \cap m.free = {}
  BY DEF Operates, Apart
<1> HIDE DEF taken, said, n
<1>6. CASE few
  <2>1. Bare(m.processes[pid])
    BY DEF Bare, NewProcess, NoEntry, PageEntry
  <2>2. n = said
    BY <1>3, <1>6
  <2>3. Creates(m, n, pid)
    BY <1>4, <2>1, <2>2 DEF Creates
  <2> QED
    BY <1>4, <2>2, <2>3 DEF n
<1>7. CASE ~ few
  <2>1. pages # {}
    BY <1>7, FS_EmptySet
  <2>2. pages \in SUBSET (Nat \ {0}) /\ Min(pages) \in Nat
    BY <1>5, <2>1, MinOfNaturals
  <2>3. new \in Process /\ Private(new) /\ Bare(new) /\ Owned(new) = pages
    <3> HIDE DEF pages
    <3> QED
      BY <2>2, SpaceIsPrivate
  <2>4. n = g
    <3>1. said = [ledger |-> said.ledger, free |-> said.free, processes |-> m.processes]
      BY <1>4 DEF Operates, IsMachine
    <3> HIDE DEF new, few
    <3>2. n = [said EXCEPT !.processes[pid] = new]
      BY <1>3, <1>7
    <3> QED
      BY <3>1, <3>2
  <2> HIDE DEF new, pages, few
  <2>5. /\ g.ledger = said.ledger /\ g.free = taken.free
        /\ g.processes = [m.processes EXCEPT ![pid] = new] /\ IsMachine(g)
    BY <1>4 DEF IsMachine
  <2> HIDE DEF g
  <2>6. Owned(new) \cap taken.free = {}
        /\ \A other \in DOMAIN m.processes \ {pid} :
             Owned(new) \cap Owned(m.processes[other]) = {}
    BY <1>5, <2>3 DEF pages
  <2>7. Apart(g.free, g.processes)
    BY <1>1, <1>5, <2>3, <2>5, <2>6, ApartReplace
  <2>8. Operates(l, g, from)
    BY <1>4, <2>5, <2>7 DEF Operates
  <2>9. Creates(m, g, pid)
    BY <1>5, <2>3, <2>5 DEF Creates
  <2> QED
    BY <2>4, <2>8, <2>9 DEF n
<1> QED
  BY <1>6, <1>7

\* create_process: one process more, that reaches nothing at CPL 3, if there was room.
GainsProcess(m, n) ==
  /\ ~ HasRoom(m) => n.processes = m.processes
  /\ HasRoom(m) => /\ Len(n.processes) = Len(m.processes) + 1
                   /\ \A pid \in DOMAIN m.processes : n.processes[pid] = m.processes[pid]
                   /\ Bare(n.processes[Len(m.processes) + 1])

LEMMA ApartAppend ==
  ASSUME NEW pool, NEW table, Apart(pool, table)
  PROVE  Apart(pool, Append(table, NewProcess))
<1> DEFINE new == Append(table, NewProcess)
<1>1. table \in Seq(Process) /\ pool \in SUBSET (Nat \ {0})
  BY DEF Apart
<1>2. NewProcess \in Process
  BY DEF NewProcess, Process, NoEntry, PageEntry, Rights
<1>3. new \in Seq(Process) /\ DOMAIN new = DOMAIN table \cup {Len(table) + 1}
      /\ new[Len(table) + 1] = NewProcess /\ \A pid \in DOMAIN table : new[pid] = table[pid]
  BY <1>1, <1>2
<1>4. Private(NewProcess) /\ Owned(NewProcess) = {}
  BY DEF Private, Owned, Frames, NewProcess, NoEntry, PageEntry
<1> HIDE DEF new
<1>5. ASSUME NEW pid \in DOMAIN new
      PROVE  Private(new[pid]) /\ Owned(new[pid]) \cap pool = {}
  BY <1>3, <1>4, <1>5 DEF Apart
<1>6. ASSUME NEW one \in DOMAIN new, NEW other \in DOMAIN new, one # other
      PROVE  Owned(new[one]) \cap Owned(new[other]) = {}
  <2>1. CASE one \in DOMAIN table /\ other \in DOMAIN table
    BY <1>3, <1>6, <2>1 DEF Apart
  <2>2. CASE one = Len(table) + 1
    BY <1>3, <1>4, <2>2
  <2>3. CASE other = Len(table) + 1
    BY <1>3, <1>4, <2>3
  <2> QED
    BY <1>3, <1>6, <2>1, <2>2, <2>3
<1> QED
  BY <1>1, <1>3, <1>5, <1>6 DEF Apart, new

LEMMA ProcessOperates ==
  ASSUME NEW l, NEW m, NEW from, Live(l, from), Operates(l, m, from)
  PROVE  Operates(l, CreateProcess(m), from) /\ GainsProcess(m, CreateProcess(m))
<1> DEFINE cause == m.ledger.current
           pid == Len(m.processes) + 1
           scheduler == ObjectId(m.ledger, "scheduler")
           named == Register(m.ledger, ProcessName(pid), scheduler, "created", cause)
           threaded == Register(named, ThreadName(pid), ObjectId(named, ProcessName(pid)),
                                "runnable", cause)
           parts == Register(threaded, SpaceName(pid), ObjectId(named, ProcessName(pid)),
                             "created", cause)
           listed == [ledger |-> parts, free |-> m.free,
                      processes |-> Append(m.processes, NewProcess)]
           first == NotedState(listed, "scheduler", ProcessName(pid), "process_create", "ok",
                               cause)
           second == NotedState(first, "scheduler", ThreadName(pid), "thread_create", "ok", cause)
           created == CreateSpace(second, pid)
           told == IF created.processes[pid].cr3 = 0 THEN "denied" ELSE "ok"
           last == NotedState(created, "scheduler", SpaceName(pid), "address_space_create",
                              told, cause)
           refused == NotedState(m, "scheduler", "scheduler", "process_create", "denied", cause)
           n == CreateProcess(m)
<1>1. n = IF HasRoom(m) THEN last ELSE refused
  BY DEF CreateProcess
<1>2. /\ "scheduler" \in Labels
      /\ "process_create" \in Operations /\ "thread_create" \in Operations
      /\ "address_space_create" \in Operations
      /\ "ok" \in Results /\ "denied" \in Results /\ told \in Results
      /\ "created" \in States /\ "runnable" \in States
  BY UserWords
<1>3. /\ Works(l, m.ledger, from) /\ cause \in from..(m.ledger.next - 1) /\ cause \in Nat
      /\ cause = l.current
  BY WorksLive, WorksIds DEF Operates
<1>4. /\ IsMachine(m) /\ Apart(m.free, m.processes) /\ m.processes \in Seq(Process)
  BY DEF Operates, Apart
<1>5. CASE ~ HasRoom(m)
  <2>1. n = refused
    BY <1>1, <1>5
  <2> HIDE DEF cause
  <2>2. Operates(l, refused, from) /\ refused.processes = m.processes
    BY <1>2, <1>3, StateOperates
  <2>3. GainsProcess(m, refused)
    BY <1>5, <2>2 DEF GainsProcess
  <2> HIDE DEF refused, n
  <2> QED
    BY <2>1, <2>2, <2>3 DEF n
<1>6. CASE HasRoom(m)
  <2>1. pid \in 1..ProcessCap
    BY <1>4, <1>6, UserAssumption DEF HasRoom
  <2>2. /\ ProcessName(pid) \in Names \ Watched /\ ThreadName(pid) \in Names \ Watched
        /\ SpaceName(pid) \in Names \ Watched
        /\ ProcessName(pid) \in Labels /\ ThreadName(pid) \in Labels
        /\ SpaceName(pid) \in Labels
    BY <2>1, UserWords
  <2>3. n = last
    BY <1>1, <1>6
  <2> HIDE DEF cause, pid, told
  <2>4. scheduler \in Nat
    BY <1>3, WorksIds
  <2> HIDE DEF scheduler
  <2>5. Works(l, named, from)
    BY <1>2, <1>3, <2>2, <2>4, WorksRegister
  <2> HIDE DEF named
  <2>6. ObjectId(named, ProcessName(pid)) \in Nat
    BY <2>5, WorksIds
  <2>7. Works(l, threaded, from)
    BY <1>2, <1>3, <2>2, <2>5, <2>6, WorksRegister
  <2> HIDE DEF threaded
  <2>8. Works(l, parts, from)
    BY <1>2, <1>3, <2>2, <2>6, <2>7, WorksRegister
  <2> HIDE DEF parts
  <2>10. /\ IsMachine(listed) /\ listed.ledger = parts /\ listed.free = m.free
         /\ listed.processes = Append(m.processes, NewProcess)
    BY DEF IsMachine
  <2> HIDE DEF listed
  <2>11. Operates(l, listed, from)
    <3>1. Apart(m.free, Append(m.processes, NewProcess))
      BY <1>4, ApartAppend
    <3> QED
      BY <2>8, <2>10, <3>1 DEF Operates
  <2>12. cause \in from..(parts.next - 1)
    BY <1>3, <2>8, WorksLive
  <2>13. /\ Operates(l, first, from) /\ first.processes = listed.processes
         /\ first.ledger.next = listed.ledger.next + 1
    <3>1. cause \in from..(listed.ledger.next - 1)
      BY <2>10, <2>12
    <3>2. Operates(l, first, from)
      BY <1>2, <2>2, <2>11, <3>1, StateOperates
    <3>3. first.processes = listed.processes
      BY <1>2, <2>2, <2>11, <3>1, StateOperates
    <3>4. first.ledger.next = listed.ledger.next + 1
      BY <1>2, <2>2, <2>11, <3>1, StateOperates
    <3> QED
      BY <3>2, <3>3, <3>4
  <2> HIDE DEF first
  <2>14. cause \in from..(first.ledger.next - 1)
    BY <1>3, <2>13, WorksLive DEF Operates
  <2>15. /\ Operates(l, second, from) /\ second.processes = first.processes
    BY <1>2, <2>2, <2>13, <2>14, StateOperates
  <2> HIDE DEF second
  <2>16. /\ second.processes = Append(m.processes, NewProcess)
         /\ pid \in DOMAIN second.processes /\ second.processes[pid] = NewProcess
         /\ \A other \in DOMAIN m.processes :
              /\ other \in DOMAIN second.processes \ {pid}
              /\ second.processes[other] = m.processes[other]
    <3>1. NewProcess \in Process
      BY DEF NewProcess, Process, NoEntry, PageEntry, Rights
    <3> QED
      BY <1>4, <2>10, <2>13, <2>15, <3>1 DEF pid
  <2>17. Operates(l, created, from) /\ Creates(second, created, pid)
    BY <2>2, <2>15, <2>16, SpaceOperates
  <2> HIDE DEF created
  <2>18. cause \in from..(created.ledger.next - 1)
    BY <1>3, <2>17, WorksLive DEF Operates
  <2>19. Operates(l, last, from) /\ last.processes = created.processes
    BY <1>2, <2>2, <2>17, <2>18, StateOperates
  <2> HIDE DEF last
  <2>20. Len(last.processes) = Len(m.processes) + 1
    <3>1. DOMAIN last.processes = DOMAIN second.processes /\ last.processes \in Seq(Process)
      BY <2>17, <2>19 DEF Creates, Operates, Apart
    <3> HIDE DEF pid
    <3> QED
      BY <1>4, <2>16, <3>1
  <2>21. /\ \A other \in DOMAIN m.processes : last.processes[other] = m.processes[other]
         /\ Bare(last.processes[Len(m.processes) + 1])
    BY <2>16, <2>17, <2>19 DEF Creates, pid
  <2>22. GainsProcess(m, last)
    BY <1>6, <2>20, <2>21 DEF GainsProcess
  <2> HIDE DEF n
  <2> QED
    BY <2>3, <2>19, <2>22 DEF n
<1> QED
  BY <1>5, <1>6

\* One process at most has changed.
Keeps(m, n, pid) ==
  /\ DOMAIN n.processes = DOMAIN m.processes
  /\ \A other \in DOMAIN m.processes \ {pid} : n.processes[other] = m.processes[other]

\* load_executable: the two pages it asks for have no other use.
LEMMA ImagePages ==
  ASSUME NEW l, NEW m, NEW from, Live(l, from), Operates(l, m, from)
  PROVE  /\ Operates(l, TwoPages(m), from) /\ TwoPages(m).processes = m.processes
         /\ m.ledger.next =< TwoPages(m).ledger.next
         /\ Page(PageAlloc(m)) # 0 =>
              /\ Fresh(TwoPages(m), Page(m)) /\ Fresh(TwoPages(m), Page(PageAlloc(m)))
              /\ Page(m) # Page(PageAlloc(m))
<1> DEFINE k == PageAlloc(m)
           n == PageAlloc(k)
<1>1. Operates(l, k, from) /\ Allocates(m, k)
  BY AllocOperates
<1> HIDE DEF k
<1>2. Operates(l, n, from) /\ Allocates(k, n)
  BY <1>1, AllocOperates
<1> HIDE DEF n
<1>3. TwoPages(m) = n
  BY DEF TwoPages, n, k
<1>4. n.processes = m.processes
  BY <1>1, <1>2 DEF Allocates
<1>5. m.ledger.next =< n.ledger.next
  <2>1. m.ledger.next \in Nat /\ k.ledger.next \in Nat /\ n.ledger.next \in Nat
    BY <1>1, <1>2, WorksLive DEF Operates
  <2> QED
    BY <1>1, <1>2, <2>1 DEF Allocates
<1>6. ASSUME Page(k) # 0
      PROVE  Fresh(n, Page(m)) /\ Fresh(n, Page(k)) /\ Page(m) # Page(k)
  <2>1. k.free # {} /\ m.free # {}
    BY <1>1, <1>2, <1>6 DEF Allocates
  <2>2. Fresh(n, Page(k)) /\ Fresh(k, Page(m))
    BY <1>1, <1>2, <2>1 DEF Allocates
  <2> QED
    BY <1>2, <2>2 DEF Allocates
<1> QED
  BY <1>2, <1>3, <1>4, <1>5, <1>6 DEF k

LEMMA LoadOperates ==
  ASSUME NEW l, NEW m, NEW from, Live(l, from), Operates(l, m, from),
         NEW decision \in from..(m.ledger.next - 1), Runner \in DOMAIN m.processes,
         ProcessName(Runner) \in Labels
  PROVE  /\ Operates(l, LoadImage(m, decision), from)
         /\ Keeps(m, LoadImage(m, decision), Runner)
<1> DEFINE pid == Runner
           code == Page(m)
           stack == Page(PageAlloc(m))
           taken == TwoPages(m)
           coded == MapPage(taken, pid, "code", code, FALSE)
           mapped == MapPage(coded, pid, "stack", stack, TRUE)
           denied == NotedState(taken, "scheduler", ProcessName(pid), "load_executable",
                                "denied", decision)
           copied == NotedState(mapped, "ramfs", "/bin/hello", "read", "ok", decision)
           done == NotedState(copied, "scheduler", ProcessName(pid), "load_executable", "ok",
                              decision)
           n == LoadImage(m, decision)
<1>1. n = IF stack = 0 THEN denied
          ELSE IF ~ CanMap(taken, pid, "code") THEN coded
          ELSE IF ~ CanMap(coded, pid, "stack") THEN mapped ELSE done
  BY DEF LoadImage
<1>2. /\ "scheduler" \in Labels /\ "ramfs" \in Labels /\ "/bin/hello" \in Labels
      /\ "load_executable" \in Operations /\ "read" \in Operations
      /\ "ok" \in Results /\ "denied" \in Results
      /\ "code" \in Areas /\ "stack" \in Areas
  BY UserWords DEF Areas
<1>3. /\ Operates(l, taken, from) /\ taken.processes = m.processes
      /\ m.ledger.next =< taken.ledger.next
      /\ stack # 0 => Fresh(taken, code) /\ Fresh(taken, stack) /\ code # stack
  BY ImagePages
<1>4. pid \in DOMAIN m.processes /\ ProcessName(pid) \in Labels
  OBVIOUS
<1>5. m.ledger.next \in Nat /\ from \in Nat
  BY WorksLive DEF Operates
<1> HIDE DEF pid, code, stack, taken, n
<1>6. decision \in from..(taken.ledger.next - 1)
  <2>1. taken.ledger.next \in Nat
    BY <1>3, WorksLive DEF Operates
  <2> QED
    BY <1>3, <1>5, <2>1
<1>7. CASE stack = 0
  <2>1. Operates(l, denied, from) /\ denied.processes = taken.processes
    BY <1>2, <1>3, <1>4, <1>6, StateOperates
  <2>2. n = denied
    BY <1>1, <1>7
  <2> HIDE DEF denied
  <2> QED
    BY <1>3, <2>1, <2>2 DEF Keeps, n, pid
<1>8. CASE stack # 0
  <2>1. Operates(l, coded, from) /\ Maps(taken, coded, pid, "code", code, FALSE)
    BY <1>2, <1>3, <1>4, <1>8, MapOperates
  <2> HIDE DEF coded
  <2>2. Fresh(coded, stack)
    BY <1>3, <1>8, <2>1 DEF Maps
  <2>3. Keeps(m, coded, pid) /\ pid \in DOMAIN coded.processes
    BY <1>3, <1>4, <2>1 DEF Maps, Keeps
  <2>4. Operates(l, mapped, from) /\ Maps(coded, mapped, pid, "stack", stack, TRUE)
    BY <1>2, <2>1, <2>2, <2>3, MapOperates
  <2> HIDE DEF mapped
  <2>5. Keeps(m, mapped, pid)
    BY <2>3, <2>4 DEF Maps, Keeps
  <2>6. decision \in from..(mapped.ledger.next - 1)
    <3>1. /\ taken.ledger.next \in Nat /\ coded.ledger.next \in Nat
          /\ mapped.ledger.next \in Nat
      BY <1>3, <2>1, <2>4, WorksLive DEF Operates
    <3> QED
      BY <1>5, <1>6, <2>1, <2>4, <3>1 DEF Maps
  <2>7. /\ Operates(l, copied, from) /\ copied.processes = mapped.processes
        /\ copied.ledger.next = mapped.ledger.next + 1
    BY <1>2, <2>4, <2>6, StateOperates
  <2> HIDE DEF copied
  <2>8. decision \in from..(copied.ledger.next - 1)
    <3>1. mapped.ledger.next \in Nat
      BY <2>4, WorksLive DEF Operates
    <3> QED
      BY <1>5, <2>6, <2>7, <3>1
  <2>9. Operates(l, done, from) /\ done.processes = copied.processes
    BY <1>2, <1>4, <2>7, <2>8, StateOperates
  <2> HIDE DEF done
  <2>10. Keeps(m, done, pid)
    BY <2>5, <2>7, <2>9 DEF Keeps
  <2>11. n \in {coded, mapped, done}
    BY <1>1, <1>8
  <2> QED
    BY <2>1, <2>3, <2>4, <2>5, <2>9, <2>10, <2>11 DEF n, pid
<1> QED
  BY <1>7, <1>8

(***************************************************************************)
(* A system call.                                                          *)
(***************************************************************************)
\* syscall_begin: the ledger goes on with a transaction of its own, if the table has
\* room for one.
LEMMA SyscallBegins ==
  ASSUME NEW l, NEW from, Live(l, from), l.next \in 1..MaxSeq, NEW target \in Labels,
         active \in 1..ProcessCap
  PROVE  LET m == SyscallBegin(l, target)
             tx == BeginResult(l)
         IN  /\ Proceeds(l, m, from) /\ m.tx = tx
             /\ tx \in {0, l.next} /\ tx \notin OpenIds(l)
             /\ OpenIds(m) = OpenIds(l) \cup ({tx} \ {0})
<1> DEFINE tx == BeginResult(l)
           begun == Begin(l, Thread, target, l.current)
           held == SetTx(begun, tx)
           event == IF tx = 0 THEN l.current ELSE tx
           m == SetCurrent(held, event)
<1>1. /\ Whole(l) /\ l.next \in Nat /\ from \in Nat /\ l.current \in from..(l.next - 1)
      /\ l.current \in 0..(l.next - 1)
  BY DEF Live, Fit, Whole, LedgerType
<1>2. Thread \in Labels
  BY UserWords DEF Thread
<1> HIDE DEF begun
<1>3. Begins(l, begun, Thread, l.current)
  BY <1>1, <1>2, BeginGoes DEF begun
<1>4. /\ Whole(begun) /\ begun.tx = l.tx /\ begun.current = l.current /\ l.next =< begun.next
      /\ \A name \in Names : Shown(begun, name) = Shown(l, name)
      /\ tx = 0 => begun = l
      /\ tx # 0 =>
           /\ tx = l.next /\ begun.next = l.next + 1
           /\ OpenIds(begun) = OpenIds(l) \cup {l.next}
           /\ \A seen \in Seen(begun) \ Seen(l) :
                /\ seen.seq = l.next /\ seen.tx = l.next
                /\ Tells(seen, BeginReport(l, Thread, l.current))
  BY <1>3 DEF Begins
<1>5. OpenIds(begun) = OpenIds(l) \cup ({tx} \ {0}) /\ tx \in {0, l.next}
  BY <1>1, <1>4
<1>6. \A id \in OpenIds(l) : id \in 1..MaxSeq /\ id < l.next
  BY <1>1, OpenIdsType
<1>7. tx \notin OpenIds(l)
  BY <1>1, <1>5, <1>6
<1>8. tx \in {0} \cup OpenIds(begun)
  BY <1>5
<1> HIDE DEF tx, held
<1>9. Sets(begun, held, begun.current, tx)
  BY <1>4, <1>8, SetTxSets DEF held
<1>10. event \in from..(begun.next - 1) /\ event \in 0..(held.next - 1)
       /\ held.next = begun.next /\ Whole(held) /\ begun.next \in Nat
  <2>1. held.next = begun.next /\ Whole(held)
    BY <1>9 DEF Sets
  <2>2. begun.next \in Nat
    BY <1>4 DEF Whole, LedgerType
  <2> QED
    BY <1>1, <1>4, <1>5, <2>1, <2>2
<1> HIDE DEF event, m
<1>11. Sets(held, m, event, held.tx)
  BY <1>10, SetCurrentSets DEF m
<1>12. /\ Whole(m) /\ m.current = event /\ m.tx = tx /\ m.next = begun.next
       /\ OpenIds(m) = OpenIds(begun) /\ Seen(m) = Seen(begun)
       /\ \A name : Shown(m, name) = Shown(begun, name)
  BY <1>9, <1>11 DEF Sets
<1>13. Fit(m)
  BY <1>8, <1>12, FitIsSettled
<1>14. Watched \subseteq Names
  BY PolicyWordAssumption, BootWordAssumption DEF Watched
<1>15. ASSUME NEW seen \in Seen(m) \ Seen(l)
       PROVE  /\ seen.seq \in l.next..(m.next - 1)
              /\ seen.op # "exception" => seen.parent \in from..(seen.seq - 1)
  <2>1. seen \in Seen(begun) \ Seen(l) /\ tx # 0
    BY <1>4, <1>12, <1>15
  <2>2. seen.seq = l.next /\ seen.parent = l.current
    BY <1>4, <2>1 DEF Tells, BeginReport, Report
  <2> QED
    BY <1>1, <1>4, <1>12, <2>1, <2>2
<1>16. Live(m, from) /\ l.next =< m.next
  BY <1>1, <1>4, <1>10, <1>12, <1>13 DEF Live
<1>17. Proceeds(l, m, from)
  BY <1>4, <1>12, <1>14, <1>15, <1>16 DEF Proceeds
<1>18. SyscallBegin(l, target) = m
  BY DEF SyscallBegin, m, held, begun, event, tx
<1> QED
  BY <1>5, <1>7, <1>12, <1>17, <1>18 DEF tx

\* syscall_finish: the transaction is closed, and none is in force.
LEMMA SyscallFinishes ==
  ASSUME NEW l, NEW from, Live(l, from), NEW tx, tx = 0 \/ tx \in OpenIds(l),
         tx # 0 => from =< tx, NEW ok \in BOOLEAN
  PROVE  LET m == SyscallFinish(l, tx, ok)
         IN  /\ Proceeds(l, m, from) /\ m.tx = 0
             /\ OpenIds(m) = OpenIds(l) \ {tx}
<1> DEFINE closed == IF ok THEN Commit(l, tx) ELSE Abort(l, tx)
           m == SetTx(closed, 0)
<1>1. /\ Whole(l) /\ l \in LedgerType /\ l.next \in Nat /\ from \in Nat
      /\ l.current \in from..(l.next - 1)
  BY DEF Live, Fit, Whole, LedgerType
<1>2. \A id \in OpenIds(l) : id \in 1..MaxSeq /\ id < l.next
  BY <1>1, OpenIdsType
<1> HIDE DEF closed
<1>3. /\ Whole(closed) /\ closed.current = l.current /\ l.next =< closed.next
      /\ closed.next \in Nat /\ OpenIds(closed) = OpenIds(l) \ {tx}
      /\ \A name \in Names : Shown(closed, name) = Shown(l, name)
  <2>1. CASE tx = 0
    <3>1. closed = l
      BY <1>1, <2>1, CommitOfNone DEF closed
    <3> QED
      BY <1>1, <1>2, <2>1, <3>1
  <2>2. CASE tx \in OpenIds(l)
    <3>1. Closes(l, closed, tx)
      BY <1>1, <2>2, CommitGoes DEF closed
    <3> QED
      BY <1>1, <3>1 DEF Closes
  <2> QED
    BY <2>1, <2>2
<1>4. ASSUME NEW seen \in Seen(closed) \ Seen(l)
      PROVE  /\ seen.seq \in l.next..(closed.next - 1)
             /\ seen.parent \in from..(seen.seq - 1)
  <2>1. tx \in OpenIds(l)
    BY <1>1, <1>4, CommitOfNone DEF closed
  <2>2. Closes(l, closed, tx)
    BY <1>1, <2>1, CommitGoes DEF closed
  <2> DEFINE t == l.txs[TxIndex(l, tx)]
  <2>3. seen.seq = l.next /\ seen.parent = t.end /\ closed.next = l.next + 1
    BY <1>4, <2>2 DEF Closes, CloseReport, Tells, Report
  <2>4. t.end \in tx..(l.next - 1)
    <3> DEFINE k == TxIndex(l, tx)
    <3>1. k \in DOMAIN l.txs /\ l.txs[k].id = tx
      BY <1>1, <2>1, OpenIdsType
    <3> HIDE DEF k
    <3>2. l.txs[k].end \in Nat /\ l.txs[k].id \in Nat /\ l.txs[k].begin \in Nat
      BY <1>1, <3>1, TableType DEF Transaction
    <3>3. tx =< l.txs[k].end /\ l.txs[k].end < l.next
      BY <1>1, <3>1 DEF Whole, Sound, Recorded, Books, Numbered
    <3> QED
      BY <1>1, <3>1, <3>2, <3>3 DEF k
  <2>5. tx \in 1..MaxSeq /\ from =< tx
    BY <1>2, <2>1
  <2> QED
    BY <1>1, <2>3, <2>4, <2>5
<1> HIDE DEF m
<1>5. Sets(closed, m, closed.current, 0)
  BY <1>3, SetTxSets DEF m
<1>6. /\ Whole(m) /\ m.current = l.current /\ m.tx = 0 /\ m.next = closed.next
      /\ OpenIds(m) = OpenIds(closed) /\ Seen(m) = Seen(closed)
      /\ \A name : Shown(m, name) = Shown(closed, name)
  BY <1>3, <1>5 DEF Sets
<1>7. Fit(m)
  BY <1>6, FitIsSettled
<1>8. Watched \subseteq Names
  BY PolicyWordAssumption, BootWordAssumption DEF Watched
<1>9. Live(m, from) /\ l.next =< m.next
  BY <1>1, <1>3, <1>6, <1>7 DEF Live
<1>10. Proceeds(l, m, from)
  BY <1>3, <1>4, <1>6, <1>8, <1>9 DEF Proceeds
<1>11. SyscallFinish(l, tx, ok) = m
  BY DEF SyscallFinish, m, closed
<1> QED
  BY <1>3, <1>6, <1>10, <1>11

\* A ledger whose system call is over.
Serves(l, m, from) == Proceeds(l, m, from) /\ m.tx = 0 /\ OpenIds(m) = OpenIds(l)

\* What is recorded between the two.
LEMMA SyscallServes ==
  ASSUME NEW l, NEW from, Live(l, from), l.next \in 1..MaxSeq, NEW target \in Labels,
         active \in 1..ProcessCap, NEW m, NEW ok \in BOOLEAN,
         Works(SyscallBegin(l, target), m, from)
  PROVE  Serves(l, SyscallFinish(m, BeginResult(l), ok), from)
<1> DEFINE begun == SyscallBegin(l, target)
           tx == BeginResult(l)
           n == SyscallFinish(m, tx, ok)
<1>1. /\ Proceeds(l, begun, from) /\ begun.tx = tx
      /\ tx \in {0, l.next} /\ tx \notin OpenIds(l)
      /\ OpenIds(begun) = OpenIds(l) \cup ({tx} \ {0})
  BY SyscallBegins
<1>2. Live(begun, from)
  BY <1>1 DEF Proceeds
<1>3. /\ Proceeds(begun, m, from) /\ Live(m, from) /\ OpenIds(m) = OpenIds(begun)
  BY WorksLive DEF Works
<1>4. l.next \in Nat /\ from \in Nat /\ l.current \in from..(l.next - 1)
  BY DEF Live, Fit, Whole, LedgerType
<1> HIDE DEF begun, tx
<1>5. (tx = 0 \/ tx \in OpenIds(m)) /\ (tx # 0 => from =< tx)
  BY <1>1, <1>3, <1>4
<1>6. Proceeds(m, n, from) /\ n.tx = 0 /\ OpenIds(n) = OpenIds(m) \ {tx}
  BY <1>3, <1>5, SyscallFinishes
<1> HIDE DEF n
<1>7. Proceeds(l, n, from)
  <2>1. Proceeds(l, m, from)
    BY <1>1, <1>3, ProceedsOn
  <2> QED
    BY <1>6, <2>1, ProceedsOn
<1>8. 0 \notin OpenIds(l)
  <2>1. Whole(l)
    BY DEF Live, Fit
  <2> QED
    BY <2>1, OpenIdsType
<1>9. OpenIds(n) = OpenIds(l)
  BY <1>1, <1>3, <1>6, <1>8
<1> QED
  BY <1>6, <1>7, <1>9 DEF Serves, n, tx

LEMMA RefusedServes ==
  ASSUME NEW l, NEW from, Live(l, from), l.next \in 1..MaxSeq, active \in 1..ProcessCap
  PROVE  Serves(l, Refused(l), from)
<1> DEFINE begun == SyscallBegin(l, "kernel")
           told == Record(begun, Report(Thread, "kernel", "unknown_syscall", "denied",
                                        begun.current, "syscall"))
<1>1. /\ Thread \in Labels /\ "kernel" \in Labels /\ "unknown_syscall" \in Operations
      /\ "denied" \in Results /\ "syscall" \in Kinds
  BY UserWords DEF Thread
<1>2. Refused(l) = SyscallFinish(told, BeginResult(l), FALSE)
  BY DEF Refused
<1>3. Live(begun, from)
  BY <1>1, SyscallBegins DEF Proceeds
<1>4. begun.current \in from..(begun.next - 1)
  BY <1>3 DEF Live
<1>5. Works(begun, begun, from)
  BY <1>3, WorksNot
<1>6. Works(begun, told, from)
  <2> HIDE DEF begun
  <2> QED
    BY <1>1, <1>3, <1>4, <1>5, WorksReport
<1> HIDE DEF told
<1> QED
  BY <1>1, <1>2, <1>6, SyscallServes

LEMMA ServedServes ==
  ASSUME NEW l, NEW from, Live(l, from), l.next \in 1..MaxSeq, active \in 1..ProcessCap,
         NEW call \in DOMAIN Asks, NEW argument \in Labels
  PROVE  Serves(l, Served(l, call, argument), from)
<1> DEFINE target == IF call = "yield" THEN Thread ELSE argument
           begun == SyscallBegin(l, target)
           allowed == Allowed(policy, Thread, target, Asks[call])
           decided == PolicyCheck(policy, begun, Thread, target, Asks[call])
           found == call = "config_get" => target \in DOMAIN config
           told == IF found THEN "ok" ELSE "denied"
           yielded == Record(decided, Report(Thread, "scheduler", "yield", "ok", begun.next,
                                             "syscall"))
           turned == Record(yielded, Report("scheduler", Thread, "schedule", "ok", begun.next,
                                            "state"))
           done == Record(decided, Report(Thread, target, call, told, begun.next, "syscall"))
           effect == IF call = "yield" THEN turned ELSE done
<1>1. Served(l, call, argument) =
        IF allowed THEN SyscallFinish(effect, BeginResult(l), found)
                   ELSE SyscallFinish(decided, BeginResult(l), FALSE)
  BY DEF Served
<1>2. /\ Thread \in Labels /\ target \in Labels /\ "scheduler" \in Labels
      /\ call \in Operations /\ "yield" \in Operations /\ "schedule" \in Operations
      /\ "policy_check" \in Operations
      /\ "ok" \in Results /\ "denied" \in Results /\ told \in Results
      /\ "syscall" \in Kinds /\ "state" \in Kinds /\ "policy" \in Kinds
      /\ found \in BOOLEAN
  <2>1. Thread \in Labels
    BY UserWords DEF Thread
  <2>2. call \in Operations
    BY UserWords DEF Asks
  <2> QED
    BY <2>1, <2>2, UserWords
<1>3. Live(begun, from)
  BY <1>2, SyscallBegins DEF Proceeds
<1>4. /\ begun.current \in from..(begun.next - 1) /\ begun.next \in Nat
      /\ from \in Nat
  BY <1>3 DEF Live, Fit, Whole, LedgerType
<1>5. Works(begun, begun, from)
  BY <1>3, WorksNot
<1>6. Works(begun, decided, from) /\ decided.next = begun.next + 1
  <2> DEFINE said == IF allowed THEN "ok" ELSE "denied"
  <2>1. said \in Results
    BY <1>2
  <2>2. decided = Record(begun, Report(Thread, target, "policy_check", said, begun.current,
                                       "policy"))
    BY DEF PolicyCheck
  <2>3. target \in Labels /\ Thread \in Labels
    BY <1>2
  <2> DEFINE cause == begun.current
  <2>4. cause \in from..(begun.next - 1)
    BY <1>4
  <2> HIDE DEF begun, said, target, decided, cause
  <2>5. /\ Works(begun, Record(begun, Report(Thread, target, "policy_check", said, cause,
                                             "policy")), from)
        /\ Record(begun, Report(Thread, target, "policy_check", said, cause, "policy")).next
             = begun.next + 1
    BY <1>2, <1>3, <1>5, <2>1, <2>3, <2>4, WorksReport
  <2> QED
    BY <2>2, <2>5 DEF cause
<1>7. begun.next \in from..(decided.next - 1)
  BY <1>4, <1>6
<1> HIDE DEF decided, target, told, found, allowed
<1>8. Works(begun, done, from)
  <2> DEFINE cause == begun.next
  <2>1. cause \in from..(decided.next - 1)
    BY <1>7
  <2> HIDE DEF begun, cause
  <2>2. Works(begun, Record(decided, Report(Thread, target, call, told, cause, "syscall")), from)
    BY <1>2, <1>3, <1>6, <2>1, WorksReport
  <2> QED
    BY <2>2 DEF cause
<1>9. Works(begun, yielded, from) /\ yielded.next = decided.next + 1
  <2> DEFINE cause == begun.next
  <2>1. cause \in from..(decided.next - 1)
    BY <1>7
  <2> HIDE DEF begun, cause
  <2> DEFINE n == Record(decided, Report(Thread, "scheduler", "yield", "ok", cause, "syscall"))
  <2>2. /\ Thread \in Labels /\ "scheduler" \in Labels /\ "yield" \in Operations
        /\ "ok" \in Results /\ "syscall" \in Kinds
    BY <1>2
  <2>3. Works(begun, decided, from) /\ Live(begun, from)
    BY <1>3, <1>6
  <2>4. Works(begun, n, from)
    BY <2>1, <2>2, <2>3, WorksReport
  <2>5. n.next = decided.next + 1
    BY <2>1, <2>2, <2>3, WorksReport
  <2> QED
    BY <2>4, <2>5 DEF cause
<1>10. begun.next \in from..(yielded.next - 1)
  BY <1>4, <1>6, <1>9
<1>11. Works(begun, turned, from)
  <2> HIDE DEF begun, yielded
  <2> QED
    BY <1>2, <1>3, <1>9, <1>10, WorksReport
<1>12. Works(begun, effect, from)
  BY <1>8, <1>11
<1> HIDE DEF effect
<1>13. Serves(l, SyscallFinish(effect, BeginResult(l), found), from)
  BY <1>2, <1>12, SyscallServes
<1>14. Serves(l, SyscallFinish(decided, BeginResult(l), FALSE), from)
  BY <1>2, <1>6, SyscallServes
<1> QED
  BY <1>1, <1>13, <1>14

(***************************************************************************)
(* The inductive invariant.                                                *)
(***************************************************************************)
InDemo == phase \in {"execute", "finish"} /\ job.line.verb = "userdemo"

\* In the course of userdemo the shell's transaction stays open, though a system call
\* puts it out of force, and the current event is one of the command's.
DemoLedger ==
  /\ Live(ledger, job.event) /\ 1 < ledger.next /\ Shown(ledger, "shell") # {}
  /\ ledger.tx \in {0, job.tx} /\ OpenIds(ledger) = {job.tx} \ {0}

\* The shell's part: its own invariant, but for the ledger of userdemo.
ShellSide ==
  IF InDemo THEN DemoLedger /\ PolicyPart /\ ConfigPart /\ ShellPart ELSE ShellInvariant

\* The causes of the command's events.
CausedSince(l, from) ==
  \A event \in Seen(l) :
    event.seq > from /\ event.op # "exception" => event.parent \in from..(event.seq - 1)
CauseSide == phase \in {"execute", "finish"} => CausedSince(ledger, job.event)

MemorySide == Apart(free, processes) /\ Len(processes) =< ProcessCap

\* A process that reaches the private page and nothing else.
Probed(process) ==
  /\ process.directories[3] = "user"
  /\ \A area \in Areas : process.pages[area].user <=> area = "probe"

\* Where userdemo is: what runs, in which address space, and what its peer reaches.
DemoSide ==
  /\ turn \in Nat /\ program \in Seq(Steps)
  /\ IF processes = << >> THEN turn = 0 ELSE turn < Len(processes)
  /\ demo \in {"create", "peer", "load", "probe", "enter", "ring3", "return"}
  /\ demo = "create" \/ Running("userdemo") \/ phase = "halted"
  /\ demo \notin {"ring3", "return"} => cr3 = 0 /\ active = 0
  /\ demo = "peer" => processes # << >>
  /\ demo \notin {"create", "peer"} => 1 < Len(processes)
  /\ demo \in {"load", "probe"} => Bare(processes[Peer])
  /\ demo \in {"enter", "ring3"} => Probed(processes[Peer])
  /\ demo = "ring3" =>
       active = Runner /\ cr3 = processes[active].cr3 /\ processes[active].peer = Peer
  /\ demo = "return" => cr3 = 0 /\ active \in DOMAIN processes

UserInvariant == ShellSide /\ CauseSide /\ MemorySide /\ DemoSide

\* A step of userdemo, as the shell's side sees it.
DemoStep ==
  /\ phase = "execute" /\ phase' \in {"execute", "finish", "halted"}
  /\ Proceeds(ledger, ledger', job.event)
  /\ ledger'.tx \in {0, job.tx} /\ OpenIds(ledger') = OpenIds(ledger)
  /\ policy' = policy /\ config' = config
  /\ job' = [job EXCEPT !.ok = job'.ok] /\ job'.ok \in BOOLEAN

LEMMA CausedSinceGrows ==
  ASSUME NEW l, NEW m, NEW from, CausedSince(l, from), Proceeds(l, m, from)
  PROVE  CausedSince(m, from)
BY DEF CausedSince, Proceeds

LEMMA DemoKeepsShell ==
  ASSUME ShellSide, CauseSide, InDemo, DemoStep
  PROVE  ShellSide' /\ CauseSide'
<1>1. /\ phase = "execute" /\ phase' \in {"execute", "finish", "halted"}
      /\ Proceeds(ledger, ledger', job.event)
      /\ ledger'.tx \in {0, job.tx} /\ OpenIds(ledger') = OpenIds(ledger)
      /\ policy' = policy /\ config' = config
      /\ job' = [job EXCEPT !.ok = job'.ok] /\ job'.ok \in BOOLEAN
  BY DEF DemoStep
<1>2. DemoLedger /\ PolicyPart /\ ConfigPart /\ ShellPart
  BY DEF ShellSide
<1>3. /\ job' \in [line : Lines \cup {NoLine}, tx : Nat, event : Nat, ok : BOOLEAN]
      /\ job'.line = job.line /\ job'.tx = job.tx /\ job'.event = job.event
  BY <1>1, <1>2 DEF ShellPart
<1>4. /\ Live(ledger', job.event) /\ ledger.next =< ledger'.next
      /\ ledger.next \in Nat /\ ledger'.next \in Nat
      /\ \A name \in Watched : Shown(ledger', name) = Shown(ledger, name)
  BY <1>1, <1>2 DEF Proceeds, DemoLedger, Live, Fit, Whole, LedgerType
<1>5. /\ Shown(ledger', "shell") = Shown(ledger, "shell")
      /\ Shown(ledger', ThePolicy) = Shown(ledger, ThePolicy)
      /\ \A key \in DOMAIN FirstConfig : Shown(ledger', key) = Shown(ledger, key)
  BY <1>4 DEF Watched
<1>6. DemoLedger'
  BY <1>1, <1>2, <1>3, <1>4, <1>5 DEF DemoLedger
<1>7. PolicyPart'
  BY <1>1, <1>2, <1>5 DEF PolicyPart
<1>8. ConfigPart'
  BY <1>1, <1>2, <1>5 DEF ConfigPart, BootPhases
<1>9. ShellPart'
  BY <1>1, <1>2, <1>3 DEF ShellPart
<1>10. ShellSide'
  <2>1. CASE phase' = "halted"
    <3>1. LedgerPart'
      BY <1>6, <2>1 DEF LedgerPart, DemoLedger, Live, Fit, BootPhases
    <3> QED
      BY <1>7, <1>8, <1>9, <2>1, <3>1 DEF ShellSide, InDemo, ShellInvariant
  <2>2. CASE phase' # "halted"
    <3>1. InDemo'
      BY <1>1, <1>3, <2>2 DEF InDemo
    <3> QED
      BY <1>6, <1>7, <1>8, <1>9, <3>1 DEF ShellSide
  <2> QED
    BY <2>1, <2>2
<1>11. CauseSide'
  <2>1. CausedSince(ledger, job.event)
    BY <1>1 DEF CauseSide
  <2>2. CausedSince(ledger', job.event)
    BY <1>1, <2>1, CausedSinceGrows
  <2> QED
    BY <1>3, <2>2 DEF CauseSide
<1> QED
  BY <1>10, <1>11

\* No step of the shell's own is possible in the middle of userdemo.
LEMMA ShellWaits ==
  ASSUME InDemo, phase = "execute"
  PROVE  ~ Next
<1>1. ~ Boot /\ ~ Accept /\ ~ Finish /\ ~ Wait
  BY DEF Boot, EnterKernel, LoadPolicy, StartMemory, FailMemory, StartRamfs, StartConfig,
         StartUser, StartInterrupts, StartShell, Accept, Finish, Wait
<1>2. ~ Execute
  BY DEF InDemo, Execute, Running, Tell, Draw, Meminfo, ListFiles, Cat, RunModule,
         ShowConfig, SetConfig, ShowPolicy, MisusePolicy, ChangePolicy, Query,
         DenyPolicy, Fault, Unknown, QueryVerbs, Recognised
<1> QED
  BY <1>1, <1>2 DEF Next

\* Before userdemo and after it the shell's own steps keep the invariant.
LEMMA SteppedOutside ==
  ASSUME ShellSide, CauseSide, Next
  PROVE  ShellSide' /\ CauseSide'
<1>1. CASE InDemo /\ phase = "execute"
  BY <1>1, ShellWaits
<1>2. CASE InDemo /\ phase = "finish"
  <2>1. Finish
    BY <1>2 DEF Next, Boot, EnterKernel, LoadPolicy, StartMemory, FailMemory, StartRamfs,
                StartConfig, StartUser, StartInterrupts, StartShell, Accept, Wait,
                Execute, Running, Tell, Draw, Meminfo, ListFiles, Cat, RunModule,
                ShowConfig, SetConfig, ShowPolicy, MisusePolicy, ChangePolicy, Query,
                DenyPolicy, Fault, Unknown
  <2>2. /\ phase' = "prompt" /\ job' = NoJob
        /\ ledger' = CloseJob(ledger, job.tx, job.ok) /\ UNCHANGED <<policy, config>>
    BY <2>1 DEF Finish
  <2>3. DemoLedger /\ PolicyPart /\ ConfigPart /\ ShellPart
    BY <1>2 DEF ShellSide
  <2>4. /\ Whole(ledger) /\ OpenIds(ledger) = {job.tx} \ {0} /\ 1 < ledger.next
        /\ Shown(ledger, "shell") # {} /\ job.ok \in BOOLEAN
    BY <2>3 DEF DemoLedger, Live, Fit, ShellPart
  <2>5. /\ Whole(ledger') /\ Idle(ledger') /\ 1 < ledger'.next
        /\ \A name \in Names : Shown(ledger', name) = Shown(ledger, name)
    BY <2>2, <2>4, CloseJobGoes
  <2>6. /\ "shell" \in Names /\ DOMAIN FirstConfig \subseteq Names /\ ThePolicy \in Names
    BY BootWordAssumption, PolicyWordAssumption
  <2>7. LedgerPart'
    BY <2>2, <2>4, <2>5, <2>6 DEF LedgerPart
  <2>8. PolicyPart'
    BY <1>2, <2>2, <2>3, <2>5, <2>6 DEF PolicyPart
  <2>9. ConfigPart'
    BY <1>2, <2>2, <2>3, <2>5, <2>6 DEF ConfigPart, BootPhases
  <2>10. ShellPart'
    BY <2>2 DEF ShellPart, NoJob
  <2> QED
    BY <2>2, <2>7, <2>8, <2>9, <2>10 DEF ShellSide, InDemo, ShellInvariant, CauseSide
<1>3. CASE ~ InDemo
  <2>1. ShellInvariant
    BY <1>3 DEF ShellSide
  <2>2. ShellInvariant'
    BY <2>1, ShellInvariantSteps
  <2>3. ShellSide'
    <3>1. CASE InDemo'
      <4>1. LedgerPart' /\ PolicyPart' /\ ConfigPart' /\ ShellPart'
        BY <2>2 DEF ShellInvariant
      <4>2. /\ Whole(ledger') /\ 1 < ledger'.next /\ Shown(ledger', "shell") # {}
            /\ Busy(ledger', job')
        BY <3>1, <4>1 DEF InDemo, LedgerPart
      <4>3. /\ ledger'.tx = job'.tx /\ OpenIds(ledger') = {job'.tx} \ {0}
            /\ ledger'.current = (IF job'.tx = 0 THEN job'.event ELSE job'.tx)
            /\ job'.event \in 1..(ledger'.next - 1)
            /\ job'.tx # 0 => job'.event < job'.tx
        BY <4>2 DEF Busy
      <4>4. Fit(ledger')
        BY <4>2, <4>3, FitIsSettled
      <4>5. ledger'.current \in job'.event..(ledger'.next - 1)
        <5>1. ledger'.next \in Nat /\ ledger'.current \in 0..(ledger'.next - 1)
          BY <4>2 DEF Whole, LedgerType, Sound, Recorded
        <5>2. job'.tx \in Nat
          BY <4>1 DEF ShellPart
        <5> QED
          BY <4>3, <5>1, <5>2
      <4>6. job'.event \in Nat
        BY <4>1 DEF ShellPart
      <4>7. DemoLedger'
        BY <4>2, <4>3, <4>4, <4>5, <4>6 DEF DemoLedger, Live
      <4> QED
        BY <3>1, <4>1, <4>7 DEF ShellSide
    <3>2. CASE ~ InDemo'
      BY <2>2, <3>2 DEF ShellSide
    <3> QED
      BY <3>1, <3>2
  <2>4. CauseSide'
    <3>1. CASE Boot
      BY <3>1 DEF CauseSide, Boot, EnterKernel, LoadPolicy, StartMemory, FailMemory,
                  StartRamfs, StartConfig, StartUser, StartInterrupts, StartShell
    <3>2. CASE Accept
      <4>1. /\ phase = "prompt" /\ Accepts(ledger, ledger', job'.event, job'.tx)
            /\ job'.event = ledger.next /\ job'.tx \in {0, ledger.next + 1}
        BY <2>1, <3>2, AcceptStep
      <4>2. Whole(ledger) /\ ledger.next \in Nat
        BY <2>1, <4>1 DEF ShellInvariant, LedgerPart, Whole, LedgerType
      <4>3. CausedSince(ledger', job'.event)
        <5> SUFFICES ASSUME NEW event \in Seen(ledger'), event.seq > job'.event
                     PROVE  event.parent \in job'.event..(event.seq - 1)
          BY DEF CausedSince
        <5>1. event \notin Seen(ledger)
          <6> SUFFICES ASSUME event \in Seen(ledger)
                       PROVE  FALSE
            OBVIOUS
          <6>1. event.seq \in Nat /\ event.seq < ledger.next
            BY <4>2, SeenIsPast
          <6> QED
            BY <4>1, <4>2, <6>1
        <5>2. event.seq = job'.tx /\ event.parent = job'.event /\ job'.tx # 0
          BY <4>1, <4>2, <5>1 DEF Accepts
        <5> QED
          BY <4>1, <4>2, <5>2
      <4> QED
        BY <4>3 DEF CauseSide
    <3>3. CASE Execute
      <4>1. RunsBody
        BY <2>1, <3>3, ExecuteBody
      <4>2. PICK changed : Body(changed)
        BY <4>1 DEF RunsBody
      <4>3. /\ phase = "execute" /\ Does(ledger, ledger', changed, job.event)
            /\ job' = [job EXCEPT !.ok = job'.ok]
        BY <4>2 DEF Body
      <4>4. /\ Whole(ledger) /\ Busy(ledger, job) /\ ledger.next \in Nat
            /\ job'.event = job.event /\ job.tx \in Nat
        BY <2>1, <4>3 DEF ShellInvariant, LedgerPart, ShellPart, Whole, LedgerType
      <4>5. job.event \in Nat /\ ledger.current \in Nat /\ job.event =< ledger.current
            /\ ledger.current < ledger.next
        <5>1. ledger.current \in 0..(ledger.next - 1)
          BY <4>4 DEF Whole, LedgerType, Sound, Recorded
        <5> QED
          BY <4>4, <5>1 DEF Busy
      <4>6. ASSUME NEW event \in Seen(ledger'), event.seq > job.event, event.op # "exception"
            PROVE  event.parent \in job.event..(event.seq - 1)
        <5>1. CASE event \in Seen(ledger)
          <6>1. CausedSince(ledger, job.event)
            BY <4>3 DEF CauseSide
          <6> QED
            BY <4>6, <5>1, <6>1 DEF CausedSince
        <5>2. CASE event \notin Seen(ledger)
          <6>1. /\ event.seq \in ledger.next..(ledger'.next - 1)
                /\ event.parent \in {ledger.current, job.event}
                                      \cup ledger.next..(event.seq - 1)
            BY <4>3, <4>6, <5>2 DEF Does
          <6>2. ledger'.next \in Nat
            BY <4>3 DEF Does, Fit, Whole, LedgerType
          <6> QED
            BY <4>4, <4>5, <6>1, <6>2
        <5> QED
          BY <5>1, <5>2
      <4>7. CausedSince(ledger', job'.event)
        BY <4>4, <4>6 DEF CausedSince
      <4> QED
        BY <4>7 DEF CauseSide
    <3>4. CASE Finish
      BY <3>4 DEF CauseSide, Finish
    <3>5. CASE Wait
      BY <3>5 DEF CauseSide, Wait, vars
    <3> QED
      BY <3>1, <3>2, <3>3, <3>4, <3>5 DEF Next
  <2> QED
    BY <2>3, <2>4
<1> QED
  BY <1>1, <1>2, <1>3 DEF InDemo

LEMMA OutsideKeepsDemo ==
  ASSUME UserInvariant, Next \/ UNCHANGED vars, UNCHANGED userVars
  PROVE  MemorySide' /\ DemoSide'
<1>1. /\ processes' = processes /\ free' = free /\ cr3' = cr3 /\ active' = active
      /\ turn' = turn /\ demo' = demo /\ program' = program
  BY DEF userVars
<1>2. MemorySide'
  BY <1>1 DEF UserInvariant, MemorySide
<1>3. demo = "create" \/ (phase' = phase /\ job' = job)
  <2>1. CASE UNCHANGED vars
    BY <2>1 DEF vars
  <2>2. CASE Next /\ Running("userdemo")
    <3>1. ~ Next
      BY <2>2, ShellWaits DEF InDemo, Running
    <3> QED
      BY <2>2, <3>1
  <2>3. CASE Next /\ phase = "halted"
    <3>1. Wait
      BY <2>3 DEF Next, Boot, EnterKernel, LoadPolicy, StartMemory, FailMemory, StartRamfs,
                  StartConfig, StartUser, StartInterrupts, StartShell, Accept, Finish,
                  Execute, Running, Tell, Draw, Meminfo, ListFiles, Cat, RunModule,
                  ShowConfig, SetConfig, ShowPolicy, MisusePolicy, ChangePolicy, Query,
                  DenyPolicy, Fault, Unknown
    <3> QED
      BY <3>1 DEF Wait, vars
  <2> QED
    BY <2>1, <2>2, <2>3 DEF UserInvariant, DemoSide
<1>4. demo' = "create" \/ Running("userdemo")' \/ phase' = "halted"
  BY <1>1, <1>3 DEF UserInvariant, DemoSide, Running
<1> QED
  BY <1>1, <1>2, <1>4 DEF UserInvariant, DemoSide, Peer, Runner

(***************************************************************************)
(* The parts of userdemo.                                                  *)
(***************************************************************************)
LEMMA DemoBegins ==
  ASSUME UserInvariant, NEW part, Demoing(part)
  PROVE  /\ InDemo /\ phase = "execute" /\ demo = part /\ Running("userdemo")
         /\ Live(ledger, job.event) /\ Operates(ledger, Machine, job.event)
         /\ ledger.tx \in {0, job.tx}
         /\ ledger.current \in job.event..(ledger.next - 1)
         /\ job.event \in Nat /\ ledger.next \in Nat \ {0} /\ MaxSeq \in Nat
         /\ job.ok \in BOOLEAN /\ job = [job EXCEPT !.ok = job.ok]
         /\ processes \in Seq(Process) /\ Apart(free, processes)
         /\ Len(processes) \in 0..ProcessCap
         /\ Machine.ledger = ledger /\ Machine.free = free /\ Machine.processes = processes
<1>1. InDemo /\ phase = "execute" /\ demo = part /\ Running("userdemo")
  BY DEF Demoing, Running, InDemo
<1>2. DemoLedger /\ ShellPart
  BY <1>1 DEF UserInvariant, ShellSide
<1>3. Live(ledger, job.event) /\ ledger.tx \in {0, job.tx}
  BY <1>2 DEF DemoLedger
<1>4. ledger.current \in job.event..(ledger.next - 1) /\ ledger.next \in Nat \ {0}
  BY <1>3 DEF Live, Fit, Whole, LedgerType
<1>5. job.event \in Nat /\ job.ok \in BOOLEAN /\ job = [job EXCEPT !.ok = job.ok]
  BY <1>2 DEF ShellPart
<1>6. Apart(free, processes) /\ Len(processes) =< ProcessCap
  BY DEF UserInvariant, MemorySide
<1>7. processes \in Seq(Process) /\ Len(processes) \in 0..ProcessCap
  <2>1. processes \in Seq(Process)
    BY <1>6 DEF Apart
  <2> QED
    BY <1>6, <2>1, UserAssumption
<1>8. /\ Machine.ledger = ledger /\ Machine.free = free /\ Machine.processes = processes
      /\ IsMachine(Machine)
  BY DEF Machine, IsMachine
<1>9. Operates(ledger, Machine, job.event)
  BY <1>3, <1>6, <1>8, WorksNot DEF Operates
<1> QED
  BY <1>1, <1>3, <1>4, <1>5, <1>6, <1>7, <1>8, <1>9, CapacityAssumption

\* The parts that go on with the next or give the demo up.
LEMMA ContinuesStep ==
  ASSUME UserInvariant, NEW part, Demoing(part), NEW m, Operates(ledger, m, job.event),
         NEW ok, NEW following, Continues(m, ok, following)
  PROVE  /\ ShellSide' /\ CauseSide'
         /\ free' = m.free /\ processes' = m.processes /\ Apart(free', processes')
         /\ ok => Running("userdemo")' /\ demo' = following
         /\ ~ ok => demo' = "create"
         /\ cr3' = cr3 /\ turn' = turn /\ program' = program
<1>1. /\ InDemo /\ phase = "execute" /\ Running("userdemo") /\ ledger.tx \in {0, job.tx}
      /\ job.ok \in BOOLEAN /\ job = [job EXCEPT !.ok = job.ok]
  BY DemoBegins
<1>2. /\ free' = m.free /\ processes' = m.processes /\ ledger' = m.ledger
      /\ policy' = policy /\ config' = config /\ cr3' = cr3 /\ turn' = turn
      /\ program' = program
      /\ ok => demo' = following /\ phase' = phase /\ job' = job
      /\ ~ ok => demo' = "create" /\ phase' = "finish" /\ job' = [job EXCEPT !.ok = FALSE]
  BY DEF Continues, Completes
<1>3. Works(ledger, ledger', job.event) /\ Apart(free', processes')
  BY <1>2 DEF Operates
<1>4. job' = [job EXCEPT !.ok = job'.ok] /\ job'.ok \in BOOLEAN
  <2>1. CASE ok
    BY <1>1, <1>2, <2>1
  <2>2. CASE ~ ok
    <3>1. ShellPart
      BY <1>1 DEF UserInvariant, ShellSide
    <3> QED
      BY <1>2, <2>2, <3>1 DEF ShellPart
  <2> QED
    BY <2>1, <2>2
<1>5. phase' \in {"execute", "finish", "halted"}
  BY <1>1, <1>2
<1>6. DemoStep
  BY <1>1, <1>2, <1>3, <1>4, <1>5 DEF DemoStep, Works
<1>7. ShellSide' /\ CauseSide'
  BY <1>1, <1>6, DemoKeepsShell DEF UserInvariant
<1>8. ok => Running("userdemo")'
  BY <1>1, <1>2 DEF Running
<1> QED
  BY <1>2, <1>3, <1>7, <1>8

LEMMA CreateStep ==
  ASSUME UserInvariant, Create
  PROVE  UserInvariant'
<1>1. PICK part \in {"create", "peer"} :
        /\ Demoing(part)
        /\ LET m == CreateProcess(Machine)
           IN  Continues(m, HasRoom(Machine) /\ m.processes[Len(m.processes)].cr3 # 0,
                         IF part = "create" THEN "peer" ELSE "load")
  BY DEF Create
<1> DEFINE m == CreateProcess(Machine)
           ok == HasRoom(Machine) /\ m.processes[Len(m.processes)].cr3 # 0
           following == IF part = "create" THEN "peer" ELSE "load"
<1>2. /\ demo = part /\ Live(ledger, job.event) /\ Operates(ledger, Machine, job.event)
      /\ processes \in Seq(Process) /\ Len(processes) \in 0..ProcessCap
      /\ Machine.processes = processes
  BY <1>1, DemoBegins
<1> HIDE DEF Machine
<1>3. Operates(ledger, m, job.event) /\ GainsProcess(Machine, m)
  BY <1>2, ProcessOperates
<1>4. Continues(m, ok, following)
  BY <1>1
<1> HIDE DEF m, ok
<1>5. /\ ShellSide' /\ CauseSide'
      /\ processes' = m.processes /\ Apart(free', processes')
      /\ ok => Running("userdemo")' /\ demo' = following
      /\ ~ ok => demo' = "create"
      /\ cr3' = cr3 /\ turn' = turn /\ program' = program
  BY <1>1, <1>3, <1>4, ContinuesStep
<1>6. active' = active
  BY DEF Create
<1>7. /\ HasRoom(Machine) <=> Len(processes) < ProcessCap
      /\ ~ HasRoom(Machine) => processes' = processes
      /\ HasRoom(Machine) => /\ Len(processes') = Len(processes) + 1
                             /\ Bare(processes'[Len(processes) + 1])
  BY <1>2, <1>3, <1>5 DEF GainsProcess, HasRoom
<1>8. ok => HasRoom(Machine)
  BY DEF ok
<1>9. Len(processes) \in Nat /\ ProcessCap \in Nat
  BY <1>2, UserAssumption
<1>10. MemorySide'
  BY <1>2, <1>5, <1>7, <1>9 DEF MemorySide
<1>11. /\ turn \in Nat /\ program \in Seq(Steps)
       /\ processes = << >> => turn = 0
       /\ processes # << >> => turn < Len(processes)
       /\ cr3 = 0 /\ active = 0
       /\ demo = "peer" => processes # << >>
  BY <1>1, <1>2 DEF UserInvariant, DemoSide
<1>12. /\ processes' = << >> => turn' = 0
       /\ processes' # << >> => turn' < Len(processes')
  <2>1. CASE HasRoom(Machine)
    <3>1. processes' # << >> /\ Len(processes') = Len(processes) + 1
      BY <1>7, <1>9, <2>1
    <3>2. turn < Len(processes) + 1
      <4>1. processes = << >> => Len(processes) = 0
        OBVIOUS
      <4> QED
        BY <1>9, <1>11, <4>1
    <3> QED
      BY <1>5, <3>1, <3>2
  <2>2. CASE ~ HasRoom(Machine)
    BY <1>5, <1>7, <1>11, <2>2
  <2> QED
    BY <2>1, <2>2
<1>13. /\ demo' = "peer" => processes' # << >>
       /\ demo' = "load" => 1 < Len(processes') /\ Bare(processes'[Len(processes')])
  <2> SUFFICES ASSUME ok
               PROVE  /\ processes' # << >>
                      /\ demo' = "load" =>
                           1 < Len(processes') /\ Bare(processes'[Len(processes')])
    BY <1>5
  <2>1. Len(processes') = Len(processes) + 1 /\ Bare(processes'[Len(processes')])
    BY <1>7, <1>8
  <2>2. processes' # << >>
    BY <1>9, <2>1
  <2>3. demo' = "load" => 0 < Len(processes)
    <3>1. demo' = "load" => processes # << >>
      BY <1>1, <1>2, <1>5, <1>11
    <3> QED
      BY <1>2, <3>1
  <2> QED
    BY <1>9, <2>1, <2>2, <2>3
<1>14. demo' \in {"create", "peer", "load"} /\ (demo' = "create" \/ Running("userdemo")')
  BY <1>1, <1>5
<1>15. DemoSide'
  BY <1>5, <1>6, <1>11, <1>12, <1>13, <1>14 DEF DemoSide, Peer
<1> QED
  BY <1>5, <1>10, <1>15 DEF UserInvariant

\* Where two processes have been created, the last is the peer.
LEMMA TwoProcesses ==
  ASSUME UserInvariant, demo \notin {"create", "peer"}
  PROVE  /\ Runner \in DOMAIN processes /\ Peer \in DOMAIN processes /\ Runner # Peer
         /\ Runner \in 1..ProcessCap /\ Peer \in 1..ProcessCap /\ 1 < Len(processes)
         /\ Len(processes) \in Nat
         /\ turn \in Nat /\ turn < Len(processes) /\ program \in Seq(Steps)
<1>1. processes \in Seq(Process) /\ Len(processes) =< ProcessCap /\ 1 < Len(processes)
      /\ ProcessCap \in Nat
  BY UserAssumption DEF UserInvariant, MemorySide, Apart, DemoSide
<1>2. turn \in Nat /\ turn < Len(processes) /\ program \in Seq(Steps)
  BY <1>1 DEF UserInvariant, DemoSide
<1> QED
  BY <1>1, <1>2 DEF Runner, Peer

\* Another ledger.
LEMMA LedgerOperates ==
  ASSUME NEW l, NEW m, NEW from, Live(l, from), Operates(l, m, from),
         NEW k, Works(l, k, from)
  PROVE  LET n == [m EXCEPT !.ledger = k]
         IN  /\ Operates(l, n, from)
             /\ n.ledger = k /\ n.free = m.free /\ n.processes = m.processes
<1> DEFINE n == [m EXCEPT !.ledger = k]
<1>1. n = [ledger |-> k, free |-> m.free, processes |-> m.processes]
  BY DEF Operates, IsMachine
<1> HIDE DEF n
<1>2. IsMachine(n) /\ n.ledger = k /\ n.free = m.free /\ n.processes = m.processes
  BY <1>1 DEF IsMachine
<1> QED
  BY <1>2 DEF Operates, n

LEMMA WorksCheck ==
  ASSUME NEW l, NEW k, NEW from, Live(l, from), Works(l, k, from),
         NEW target \in Labels, NEW operation
  PROVE  /\ Works(l, Check(k, target, operation), from)
         /\ Check(k, target, operation).next = k.next + 1
<1> DEFINE said == IF Permitted(target, operation) THEN "ok" ELSE "denied"
           cause == k.current
<1>1. Check(k, target, operation) =
        Record(k, Report("shell", target, "policy_check", said, cause, "policy"))
  BY DEF Check, PolicyCheck, Permitted
<1>2. /\ "shell" \in Labels /\ "policy_check" \in Operations
      /\ said \in Results /\ "policy" \in Kinds
  BY UserWords
<1>3. cause \in from..(k.next - 1)
  BY WorksLive
<1> HIDE DEF said, cause
<1>4. Works(l, Record(k, Report("shell", target, "policy_check", said, cause, "policy")), from)
  BY <1>2, <1>3, WorksReport
<1>5. Record(k, Report("shell", target, "policy_check", said, cause, "policy")).next
        = k.next + 1
  BY <1>2, <1>3, WorksReport
<1> QED
  BY <1>1, <1>4, <1>5

LEMMA WorksLookup ==
  ASSUME NEW l, NEW k, NEW from, Live(l, from), Works(l, k, from),
         NEW path \in Labels, NEW decision \in from..(k.next - 1)
  PROVE  /\ Works(l, Lookup(k, path, decision), from)
         /\ Lookup(k, path, decision).next = k.next + 1
<1> DEFINE said == IF path \in Files THEN "ok" ELSE "denied"
<1>1. Lookup(k, path, decision) =
        Record(k, Report("ramfs", path, "lookup", said, decision, "state"))
  BY DEF Lookup
<1>2. /\ "ramfs" \in Labels /\ "lookup" \in Operations
      /\ said \in Results /\ "state" \in Kinds
  BY UserWords
<1> HIDE DEF said
<1>3. Works(l, Record(k, Report("ramfs", path, "lookup", said, decision, "state")), from)
  BY <1>2, WorksReport
<1>4. Record(k, Report("ramfs", path, "lookup", said, decision, "state")).next = k.next + 1
  BY <1>2, WorksReport
<1> QED
  BY <1>1, <1>3, <1>4

LEMMA LoadStep ==
  ASSUME UserInvariant, Load
  PROVE  UserInvariant'
<1> DEFINE from == job.event
           path == "/bin/hello"
           ready == NotedState(Machine, "scheduler", ThreadName(Runner),
                               "user_transition_scaffold", "ok", ledger.current)
           decision == ready.ledger.next
           checked == Check(ready.ledger, path, "process:load")
           decided == [ready EXCEPT !.ledger = checked]
           found == Lookup(decided.ledger, path, decision)
           looked == [decided EXCEPT !.ledger = found]
           loaded == LoadImage(looked, decision)
           ok == \A area \in {"code", "stack"} : loaded.processes[Runner].pages[area] # NoEntry
<1>1. /\ Demoing("load") /\ active' = active
      /\ IF Permitted(path, "process:load") THEN Continues(loaded, ok, "probe")
                                            ELSE Continues(decided, FALSE, "probe")
  BY DEF Load
<1>2. /\ demo = "load" /\ Live(ledger, from) /\ Operates(ledger, Machine, from)
      /\ ledger.current \in from..(ledger.next - 1)
      /\ from \in Nat /\ ledger.next \in Nat
      /\ Machine.ledger = ledger /\ Machine.processes = processes
  BY <1>1, DemoBegins
<1>3. /\ Runner \in DOMAIN processes /\ Peer \in DOMAIN processes /\ Runner # Peer
      /\ Runner \in 1..ProcessCap /\ 1 < Len(processes)
      /\ turn \in Nat /\ turn < Len(processes) /\ program \in Seq(Steps)
  BY <1>2, TwoProcesses
<1>4. /\ cr3 = 0 /\ active = 0 /\ Bare(processes[Peer]) /\ Len(processes) =< ProcessCap
  BY <1>2 DEF UserInvariant, DemoSide, MemorySide
<1>5. /\ "scheduler" \in Labels /\ "user_transition_scaffold" \in Operations
      /\ "ok" \in Results /\ path \in Labels
      /\ ThreadName(Runner) \in Labels /\ ProcessName(Runner) \in Labels
  BY <1>3, UserWords
<1> HIDE DEF from, Machine, path
<1>6. /\ Operates(ledger, ready, from) /\ ready.processes = processes
      /\ ready.ledger.next = ledger.next + 1
  <2> DEFINE cause == ledger.current
  <2>1. cause \in from..(Machine.ledger.next - 1)
    BY <1>2
  <2> HIDE DEF cause
  <2>2. LET k == NotedState(Machine, "scheduler", ThreadName(Runner),
                            "user_transition_scaffold", "ok", cause)
        IN  /\ Operates(ledger, k, from) /\ k.processes = Machine.processes
            /\ k.ledger.next = Machine.ledger.next + 1
    BY <1>2, <1>5, <2>1, StateOperates
  <2> QED
    BY <1>2, <2>2 DEF cause
<1> HIDE DEF ready
<1>7. Works(ledger, checked, from) /\ checked.next = ready.ledger.next + 1
  <2>1. Works(ledger, ready.ledger, from)
    BY <1>6 DEF Operates
  <2> QED
    BY <1>2, <1>5, <2>1, WorksCheck
<1> HIDE DEF checked
<1>8. /\ Operates(ledger, decided, from) /\ decided.ledger = checked
      /\ decided.processes = processes
  BY <1>2, <1>6, <1>7, LedgerOperates
<1> HIDE DEF decided
<1>9. decision \in from..(decided.ledger.next - 1) /\ decision \in Nat
  BY <1>2, <1>6, <1>7, <1>8
<1> HIDE DEF decision
<1>10. Works(ledger, found, from) /\ found.next = decided.ledger.next + 1
  <2>1. Works(ledger, decided.ledger, from)
    BY <1>8 DEF Operates
  <2> QED
    BY <1>2, <1>5, <1>9, <2>1, WorksLookup
<1> HIDE DEF found
<1>11. /\ Operates(ledger, looked, from) /\ looked.ledger = found
       /\ looked.processes = processes
  BY <1>2, <1>8, <1>10, LedgerOperates
<1> HIDE DEF looked
<1>12. decision \in from..(looked.ledger.next - 1)
  <2>1. decided.ledger.next \in Nat
    BY <1>8, WorksLive DEF Operates
  <2> QED
    BY <1>2, <1>9, <1>10, <1>11, <2>1
<1>13. Operates(ledger, loaded, from) /\ Keeps(looked, loaded, Runner)
  BY <1>2, <1>3, <1>5, <1>11, <1>12, LoadOperates
<1> HIDE DEF loaded, ok
<1>14. \E m, done : /\ Operates(ledger, m, from) /\ Keeps(looked, m, Runner)
                    /\ Continues(m, done, "probe")
  <2>1. Keeps(looked, decided, Runner)
    BY <1>8, <1>11 DEF Keeps
  <2> QED
    BY <1>1, <1>8, <1>13, <2>1
<1>15. PICK m, done : /\ Operates(ledger, m, from) /\ Keeps(looked, m, Runner)
                      /\ Continues(m, done, "probe")
  BY <1>14
<1>16. /\ ShellSide' /\ CauseSide'
       /\ processes' = m.processes /\ Apart(free', processes')
       /\ done => Running("userdemo")' /\ demo' = "probe"
       /\ ~ done => demo' = "create"
       /\ cr3' = cr3 /\ turn' = turn /\ program' = program
  BY <1>1, <1>15, ContinuesStep DEF from
<1>17. Len(processes') = Len(processes) /\ processes'[Peer] = processes[Peer]
  <2>1. DOMAIN processes' = DOMAIN processes /\ processes'[Peer] = processes[Peer]
    BY <1>3, <1>11, <1>15, <1>16 DEF Keeps
  <2>2. processes \in Seq(Process) /\ processes' \in Seq(Process)
    BY <1>16 DEF Apart, UserInvariant, MemorySide
  <2> QED
    BY <2>1, <2>2
<1>18. MemorySide'
  BY <1>4, <1>16, <1>17 DEF MemorySide
<1>19. processes' # << >>
  BY <1>3, <1>17
<1>20. DemoSide'
  BY <1>1, <1>3, <1>4, <1>16, <1>17, <1>19 DEF DemoSide, Peer
<1> QED
  BY <1>16, <1>18, <1>20 DEF UserInvariant

LEMMA HelloIsTyped == Hello \in Seq(Steps)
<1>1. "system" \in Labels /\ "kernel" \in Labels /\ "/config/theme" \in Labels
  <2>1. "/config/theme" \in DOMAIN FirstConfig
    BY DEF FirstConfig
  <2> QED
    BY <2>1, WordsAreTyped, BootWordAssumption
<1>2. \A call \in DOMAIN Asks, what \in Labels : Step(call, what) \in Steps
  BY DEF Step, Steps
<1>3. Step("read", "probe") \in Steps
  BY DEF Step, Steps, Areas
<1>4. {"inspect", "yield", "config_get", "config_set"} \subseteq DOMAIN Asks
  BY DEF Asks
<1> QED
  BY <1>1, <1>2, <1>3, <1>4 DEF Hello

LEMMA MappedIsProbed ==
  ASSUME NEW process \in Process, Bare(process), NEW page, NEW tables
  PROVE  Probed(Mapped(process, "probe", page, TRUE, tables))
<1> SUFFICES ASSUME NEW new, new = Mapped(process, "probe", page, TRUE, tables)
             PROVE  Probed(new)
  OBVIOUS
<1>1. Directory("probe") = 3 /\ "probe" \in Areas
  BY DEF Directory, Areas
<1>2. /\ new.directories[3] = "user" /\ new.pages["probe"].user = TRUE
      /\ \A area \in Areas \ {"probe"} : new.pages[area] = process.pages[area]
  BY <1>1 DEF Mapped, Process, PageEntry
<1>3. \A area \in Areas : new.pages[area].user <=> area = "probe"
  BY <1>2 DEF Bare
<1> QED
  BY <1>2, <1>3 DEF Probed

LEMMA MapProbeStep ==
  ASSUME UserInvariant, MapProbe
  PROVE  UserInvariant'
<1> DEFINE from == job.event
           taken == PageAlloc(Machine)
           mapped == MapPage(taken, Peer, "probe", Page(Machine), TRUE)
           told == NotedState(mapped, "scheduler", ProcessName(Peer), "map_private_page", "ok",
                              ledger.current)
           can == CanMap(taken, Peer, "probe")
<1>1. /\ Demoing("probe") /\ active' = active
      /\ IF free = {} THEN Continues(taken, FALSE, "enter")
         ELSE IF ~ can THEN Continues(mapped, FALSE, "enter")
         ELSE Continues(told, TRUE, "enter")
  BY DEF MapProbe
<1>2. /\ demo = "probe" /\ Live(ledger, from) /\ Operates(ledger, Machine, from)
      /\ ledger.current \in from..(ledger.next - 1)
      /\ from \in Nat /\ ledger.next \in Nat
      /\ Machine.ledger = ledger /\ Machine.processes = processes /\ Machine.free = free
      /\ processes \in Seq(Process)
  BY <1>1, DemoBegins
<1>3. /\ Runner \in DOMAIN processes /\ Peer \in DOMAIN processes /\ Runner # Peer
      /\ Peer \in 1..ProcessCap /\ 1 < Len(processes)
      /\ turn \in Nat /\ turn < Len(processes) /\ program \in Seq(Steps)
  BY <1>2, TwoProcesses
<1>4. /\ cr3 = 0 /\ active = 0 /\ Bare(processes[Peer]) /\ Len(processes) =< ProcessCap
  BY <1>2 DEF UserInvariant, DemoSide, MemorySide
<1>5. /\ "scheduler" \in Labels /\ "map_private_page" \in Operations
      /\ "ok" \in Results /\ ProcessName(Peer) \in Labels /\ "probe" \in Areas
  BY <1>3, UserWords DEF Areas
<1> HIDE DEF from, Machine
<1>6. Operates(ledger, taken, from) /\ Allocates(Machine, taken)
  BY <1>2, AllocOperates
<1>7. taken.processes = processes /\ (free # {} => Fresh(taken, Page(Machine)))
      /\ ledger.next < taken.ledger.next
  BY <1>2, <1>6 DEF Allocates
<1> HIDE DEF taken
<1>8. ASSUME NEW m, NEW done, Operates(ledger, m, from), Continues(m, done, "enter"),
             Len(m.processes) = Len(processes), done => Probed(m.processes[Peer])
      PROVE  UserInvariant'
  <2>1. /\ ShellSide' /\ CauseSide'
        /\ processes' = m.processes /\ Apart(free', processes')
        /\ done => Running("userdemo")' /\ demo' = "enter"
        /\ ~ done => demo' = "create"
        /\ cr3' = cr3 /\ turn' = turn /\ program' = program
    BY <1>1, <1>8, ContinuesStep DEF from
  <2>2. MemorySide'
    BY <1>4, <1>8, <2>1 DEF MemorySide
  <2>3. processes' # << >> /\ Len(processes') = Len(processes)
    BY <1>3, <1>8, <2>1
  <2>4. DemoSide'
    BY <1>1, <1>3, <1>4, <1>8, <2>1, <2>3 DEF DemoSide, Peer
  <2> QED
    BY <2>1, <2>2, <2>4 DEF UserInvariant
<1>9. CASE free = {}
  <2>1. Continues(taken, FALSE, "enter")
    BY <1>1, <1>9
  <2> QED
    BY <1>6, <1>7, <1>8, <2>1
<1>10. CASE free # {}
  <2>1. Operates(ledger, mapped, from)
        /\ Maps(taken, mapped, Peer, "probe", Page(Machine), TRUE)
    BY <1>2, <1>3, <1>5, <1>6, <1>7, <1>10, MapOperates
  <2> HIDE DEF mapped
  <2>2. /\ DOMAIN mapped.processes = DOMAIN processes /\ taken.ledger.next =< mapped.ledger.next
        /\ can => \E tables : mapped.processes[Peer] =
                                Mapped(processes[Peer], "probe", Page(Machine), TRUE, tables)
    BY <1>7, <2>1 DEF Maps
  <2>3. Len(mapped.processes) = Len(processes)
    <3>1. mapped.processes \in Seq(Process)
      BY <2>1 DEF Operates, Apart
    <3> QED
      BY <1>2, <2>2, <3>1
  <2>4. CASE ~ can
    <3>1. Continues(mapped, FALSE, "enter")
      BY <1>1, <1>10, <2>4
    <3> QED
      BY <1>8, <2>1, <2>3, <3>1
  <2>5. CASE can
    <3>1. Continues(told, TRUE, "enter")
      BY <1>1, <1>10, <2>5
    <3>2. Probed(mapped.processes[Peer])
      <4>1. processes[Peer] \in Process
        BY <1>2, <1>3
      <4> QED
        BY <1>4, <2>2, <2>5, <4>1, MappedIsProbed
    <3> DEFINE cause == ledger.current
    <3>3. cause \in from..(mapped.ledger.next - 1)
      <4>1. taken.ledger.next \in Nat /\ mapped.ledger.next \in Nat
        BY <1>6, <2>1, WorksLive DEF Operates
      <4> QED
        BY <1>2, <1>7, <2>2, <4>1
    <3> HIDE DEF cause
    <3>4. LET k == NotedState(mapped, "scheduler", ProcessName(Peer), "map_private_page", "ok",
                              cause)
          IN  Operates(ledger, k, from) /\ k.processes = mapped.processes
      BY <1>2, <1>5, <2>1, <3>3, StateOperates
    <3>5. Operates(ledger, told, from) /\ told.processes = mapped.processes
      BY <3>4 DEF cause
    <3> HIDE DEF told
    <3> QED
      BY <1>8, <2>3, <3>1, <3>2, <3>5
  <2> QED
    BY <2>4, <2>5
<1> QED
  BY <1>9, <1>10

\* Naming the peer moves no frame.
LEMMA PeerKeepsApart ==
  ASSUME NEW pool, NEW table, Apart(pool, table), NEW pid \in DOMAIN table, NEW peer \in Nat
  PROVE  LET new == [table EXCEPT ![pid].peer = peer]
         IN  /\ Apart(pool, new) /\ Len(new) = Len(table)
             /\ new[pid].peer = peer /\ new[pid].cr3 = table[pid].cr3
             /\ \A other \in DOMAIN table \ {pid} : new[other] = table[other]
<1> DEFINE process == [table[pid] EXCEPT !.peer = peer]
           new == [table EXCEPT ![pid].peer = peer]
<1>1. /\ table \in Seq(Process) /\ table[pid] \in Process
      /\ Private(table[pid]) /\ Owned(table[pid]) \cap pool = {}
      /\ \A other \in DOMAIN table \ {pid} : Owned(table[pid]) \cap Owned(table[other]) = {}
  BY DEF Apart
<1>2. new = [table EXCEPT ![pid] = process]
  OBVIOUS
<1>3. /\ process \in Process /\ process.tables = table[pid].tables
      /\ process.pages = table[pid].pages /\ process.peer = peer
      /\ process.cr3 = table[pid].cr3
  BY <1>1 DEF Process
<1> HIDE DEF process, new
<1>4. Private(process) /\ Owned(process) = Owned(table[pid])
  BY <1>1, <1>3 DEF Private, Owned, Frames
<1>5. Apart(pool, new)
  BY <1>1, <1>2, <1>3, <1>4, ApartReplace
<1>6. /\ Len(new) = Len(table) /\ new[pid] = process
      /\ \A other \in DOMAIN table \ {pid} : new[other] = table[other]
  BY <1>1, <1>2, <1>3
<1> QED
  BY <1>3, <1>5, <1>6 DEF new

LEMMA EnterStep ==
  ASSUME UserInvariant, Enter
  PROVE  UserInvariant'
<1> DEFINE from == job.event
           cause == ledger.current
           entered == Record(ledger, Report("scheduler", ThreadName(Runner), "enter_cpl3", "ok",
                                            cause, "state"))
           final == Switched(entered, "scheduler", SpaceName(Runner))
<1>1. /\ Demoing("enter") /\ demo' = "ring3"
      /\ processes' = [processes EXCEPT ![Runner].peer = Peer]
      /\ active' = Runner /\ cr3' = processes[Runner].cr3
      /\ program' \in {Hello} \cup OtherPrograms
      /\ ledger' = final
      /\ policy' = policy /\ config' = config /\ phase' = phase /\ job' = job
      /\ free' = free /\ turn' = turn
  BY DEF Enter
<1>2. /\ InDemo /\ demo = "enter" /\ phase = "execute" /\ Running("userdemo")
      /\ Live(ledger, from) /\ cause \in from..(ledger.next - 1)
      /\ ledger.tx \in {0, job.tx} /\ job.ok \in BOOLEAN
      /\ job = [job EXCEPT !.ok = job.ok] /\ Apart(free, processes)
      /\ Len(processes) \in 0..ProcessCap
  BY <1>1, DemoBegins
<1>3. /\ Runner \in DOMAIN processes /\ Peer \in DOMAIN processes /\ Runner # Peer
      /\ Runner \in 1..ProcessCap /\ Peer \in 1..ProcessCap /\ 1 < Len(processes)
      /\ turn \in Nat /\ turn < Len(processes)
  BY <1>2, TwoProcesses
<1>4. Probed(processes[Peer])
  BY <1>2 DEF UserInvariant, DemoSide
<1>5. /\ "scheduler" \in Labels /\ "enter_cpl3" \in Operations /\ "switch_cr3" \in Operations
      /\ "ok" \in Results /\ "state" \in Kinds
      /\ ThreadName(Runner) \in Labels /\ SpaceName(Runner) \in Labels
  BY <1>3, UserWords
<1> HIDE DEF from, cause
<1>6. Works(ledger, ledger, from)
  BY <1>2, WorksNot
<1>7. Works(ledger, entered, from)
  BY <1>2, <1>5, <1>6, WorksReport
<1> HIDE DEF entered
<1>8. Works(ledger, final, from)
  BY <1>2, <1>5, <1>7, WorksAnnounce DEF Switched
<1> HIDE DEF final
<1>9. DemoStep
  BY <1>1, <1>2, <1>8 DEF DemoStep, Works, from
<1>10. ShellSide' /\ CauseSide'
  BY <1>2, <1>9, DemoKeepsShell DEF UserInvariant
<1>11. Peer \in Nat
  BY <1>3
<1>12. /\ Apart(free', processes') /\ Len(processes') = Len(processes)
       /\ processes'[Runner].peer = Peer /\ processes'[Runner].cr3 = processes[Runner].cr3
       /\ processes'[Peer] = processes[Peer]
  <2> DEFINE new == [processes EXCEPT ![Runner].peer = Peer]
  <2>1. /\ Apart(free, new) /\ Len(new) = Len(processes)
        /\ new[Runner].peer = Peer /\ new[Runner].cr3 = processes[Runner].cr3
        /\ \A other \in DOMAIN processes \ {Runner} : new[other] = processes[other]
    BY <1>2, <1>3, <1>11, PeerKeepsApart
  <2>2. processes' = new /\ free' = free
    BY <1>1
  <2> HIDE DEF new
  <2> QED
    BY <1>3, <2>1, <2>2
<1>13. MemorySide'
  BY <1>2, <1>12, UserAssumption DEF MemorySide
<1>14. program' \in Seq(Steps)
  BY <1>1, HelloIsTyped, UserAssumption
<1>15. /\ Runner' = Runner /\ Peer' = Peer
  BY <1>12 DEF Runner, Peer
<1>16. Running("userdemo")'
  BY <1>1, <1>2 DEF Running
<1>17. processes' # << >>
  BY <1>3, <1>12
<1>18. DemoSide'
  BY <1>1, <1>3, <1>4, <1>12, <1>14, <1>15, <1>16, <1>17 DEF DemoSide
<1> QED
  BY <1>10, <1>13, <1>18 DEF UserInvariant

\* What is common to the entries from user mode.
LEMMA UserRuns ==
  ASSUME UserInvariant, NEW kinds, Executes(kinds)
  PROVE  /\ InDemo /\ demo = "ring3" /\ phase = "execute" /\ Running("userdemo")
         /\ Live(ledger, job.event) /\ ledger.tx \in {0, job.tx}
         /\ ledger.current \in job.event..(ledger.next - 1)
         /\ job.event \in Nat /\ ledger.next \in Nat \ {0} /\ MaxSeq \in Nat
         /\ job.ok \in BOOLEAN /\ job = [job EXCEPT !.ok = job.ok]
         /\ program \in Seq(Steps) /\ program # << >> /\ Head(program) \in Steps
         /\ Head(program).do \in kinds /\ Tail(program) \in Seq(Steps)
         /\ active = Runner /\ active \in DOMAIN processes /\ Peer \in DOMAIN processes
         /\ active \in 1..ProcessCap /\ Peer \in 1..ProcessCap /\ active # Peer
         /\ Thread \in Labels /\ SpaceName(active) \in Labels
         /\ turn \in Nat /\ turn < Len(processes) /\ 1 < Len(processes)
         /\ Len(processes) \in Nat
<1>1. Demoing("ring3") /\ program # << >> /\ Head(program).do \in kinds
  BY DEF Executes
<1>2. /\ InDemo /\ demo = "ring3" /\ phase = "execute" /\ Running("userdemo")
      /\ Live(ledger, job.event) /\ ledger.tx \in {0, job.tx}
      /\ ledger.current \in job.event..(ledger.next - 1)
      /\ job.event \in Nat /\ ledger.next \in Nat \ {0} /\ MaxSeq \in Nat
      /\ job.ok \in BOOLEAN /\ job = [job EXCEPT !.ok = job.ok]
  BY <1>1, DemoBegins
<1>3. /\ Runner \in DOMAIN processes /\ Peer \in DOMAIN processes /\ Runner # Peer
      /\ Runner \in 1..ProcessCap /\ Peer \in 1..ProcessCap /\ 1 < Len(processes)
      /\ Len(processes) \in Nat
      /\ turn \in Nat /\ turn < Len(processes) /\ program \in Seq(Steps)
  BY <1>2, TwoProcesses
<1>4. active = Runner
  BY <1>2 DEF UserInvariant, DemoSide
<1>5. Thread \in Labels /\ SpaceName(active) \in Labels
  BY <1>3, <1>4, UserWords DEF Thread
<1>6. Head(program) \in Steps /\ Tail(program) \in Seq(Steps)
  BY <1>1, <1>3
<1> QED
  BY <1>1, <1>2, <1>3, <1>4, <1>5, <1>6

\* user_syscall_trap, in the ledger.
LEMMA TrapServes ==
  ASSUME UserInvariant, Syscall
  PROVE  Serves(ledger, ledger', job.event)
<1> DEFINE from == job.event
           call == Head(program)
           cause == ledger.current
           noted == Record(ledger, Report(Thread, "kernel", "cpl3_trap", "ok", cause, "syscall"))
           trapped == Switched(noted, Thread, "kernel")
           served == IF call.do = "unknown" THEN Refused(trapped)
                     ELSE Served(trapped, call.do, call.what)
           final == Switched(served, Thread, SpaceName(active))
           kinds == DOMAIN Asks \cup {"unknown"}
<1>1. Executes(kinds) /\ ledger.next + 2 <= MaxSeq /\ ledger' = final
  BY DEF Syscall
<1> HIDE DEF kinds
<1>2. /\ Live(ledger, from) /\ cause \in from..(ledger.next - 1)
      /\ ledger.next \in Nat \ {0} /\ MaxSeq \in Nat
      /\ call \in Steps /\ call.do \in kinds
      /\ active \in 1..ProcessCap
      /\ Thread \in Labels /\ SpaceName(active) \in Labels
  BY <1>1, UserRuns
<1>3. /\ "kernel" \in Labels /\ "cpl3_trap" \in Operations /\ "switch_cr3" \in Operations
      /\ "ok" \in Results /\ "syscall" \in Kinds
  BY UserWords
<1>4. call.what \in Labels /\ (call.do # "unknown" => call.do \in DOMAIN Asks)
  BY <1>2 DEF kinds, Steps, Asks
<1> HIDE DEF from, call, cause
<1>5. Works(ledger, ledger, from)
  BY <1>2, WorksNot
<1>6. Works(ledger, noted, from) /\ noted.next = ledger.next + 1
  <2>1. Works(ledger, noted, from)
    BY <1>2, <1>3, <1>5, WorksReport
  <2>2. noted.next = ledger.next + 1
    BY <1>2, <1>3, <1>5, WorksReport
  <2> QED
    BY <2>1, <2>2
<1> HIDE DEF noted
<1>7. Works(ledger, trapped, from) /\ trapped.next = noted.next + 1
  <2>1. Works(ledger, Announce(noted, Thread, "kernel", "switch_cr3", "ok"), from)
    BY <1>2, <1>3, <1>6, WorksAnnounce
  <2>2. Announce(noted, Thread, "kernel", "switch_cr3", "ok").next = noted.next + 1
    BY <1>2, <1>3, <1>6, WorksAnnounce
  <2> QED
    BY <2>1, <2>2 DEF Switched
<1> HIDE DEF trapped
<1>8. trapped.next \in 1..MaxSeq /\ Live(trapped, from)
  BY <1>1, <1>2, <1>6, <1>7, WorksLive
<1>9. Serves(trapped, served, from)
  <2>1. CASE call.do = "unknown"
    BY <1>2, <1>8, <2>1, RefusedServes
  <2>2. CASE call.do # "unknown"
    BY <1>2, <1>4, <1>8, <2>2, ServedServes
  <2> QED
    BY <2>1, <2>2
<1> HIDE DEF served
<1>10. Live(served, from)
  BY <1>9 DEF Serves, Proceeds
<1>11. Works(served, final, from)
  <2>1. Works(served, served, from)
    BY <1>10, WorksNot
  <2> QED
    BY <1>2, <1>3, <1>10, <2>1, WorksAnnounce DEF Switched
<1> HIDE DEF final
<1>12. Proceeds(ledger, final, from)
  <2>1. Proceeds(ledger, served, from)
    BY <1>2, <1>7, <1>9, ProceedsOn DEF Works, Serves
  <2> QED
    BY <1>2, <1>11, <2>1, ProceedsOn DEF Works
<1>13. final.tx = 0 /\ OpenIds(final) = OpenIds(ledger)
  BY <1>7, <1>9, <1>11 DEF Works, Serves
<1> QED
  BY <1>1, <1>12, <1>13 DEF Serves, from

LEMMA SyscallStep ==
  ASSUME UserInvariant, Syscall
  PROVE  UserInvariant'
<1> DEFINE kinds == DOMAIN Asks \cup {"unknown"}
           yields == Head(program).do = "yield"
                       /\ Allowed(policy, Thread, Thread, "syscall:yield")
<1>1. /\ Executes(kinds)
      /\ turn' = (IF yields THEN (turn + 1) % Len(processes) ELSE turn)
      /\ cr3' = processes[active].cr3 /\ program' = Tail(program)
      /\ policy' = policy /\ config' = config /\ phase' = phase /\ job' = job
      /\ processes' = processes /\ free' = free /\ active' = active /\ demo' = demo
  BY DEF Syscall
<1> HIDE DEF kinds, yields
<1>2. /\ InDemo /\ demo = "ring3" /\ phase = "execute" /\ Running("userdemo")
      /\ job.ok \in BOOLEAN /\ job = [job EXCEPT !.ok = job.ok]
      /\ Tail(program) \in Seq(Steps) /\ active \in DOMAIN processes
      /\ turn \in Nat /\ turn < Len(processes) /\ 1 < Len(processes)
      /\ Len(processes) \in Nat
  BY <1>1, UserRuns
<1>3. Serves(ledger, ledger', job.event)
  BY TrapServes
<1>4. DemoStep
  BY <1>1, <1>2, <1>3 DEF DemoStep, Serves
<1>5. ShellSide' /\ CauseSide'
  BY <1>2, <1>4, DemoKeepsShell DEF UserInvariant
<1>6. turn' \in Nat /\ turn' < Len(processes')
  BY <1>1, <1>2
<1>7. MemorySide'
  BY <1>1 DEF UserInvariant, MemorySide
<1>8. Running("userdemo")' /\ Runner' = Runner /\ Peer' = Peer
  BY <1>1, <1>2 DEF Running, Runner, Peer
<1>9. processes' # << >>
  BY <1>1, <1>2
<1>10. DemoSide'
  BY <1>1, <1>2, <1>6, <1>8, <1>9 DEF UserInvariant, DemoSide
<1> QED
  BY <1>5, <1>7, <1>10 DEF UserInvariant

LEMMA AccessStep ==
  ASSUME UserInvariant, Access
  PROVE  UserInvariant'
<1>1. /\ Executes({"read", "write"}) /\ program' = Tail(program)
      /\ UNCHANGED vars
      /\ processes' = processes /\ free' = free /\ cr3' = cr3 /\ active' = active
      /\ turn' = turn /\ demo' = demo
  BY DEF Access, Accesses
<1>2. Tail(program) \in Seq(Steps) /\ demo = "ring3" /\ 1 < Len(processes)
  BY <1>1, UserRuns
<1>3. /\ ledger' = ledger /\ policy' = policy /\ config' = config /\ phase' = phase
      /\ job' = job
  BY <1>1 DEF vars
<1>4. ShellSide'
  BY <1>3 DEF UserInvariant, ShellSide, InDemo, DemoLedger, PolicyPart, ConfigPart, ShellPart,
              ShellInvariant, LedgerPart
<1>5. CauseSide' /\ MemorySide'
  BY <1>1, <1>3 DEF UserInvariant, CauseSide, MemorySide
<1>6. Running("userdemo")' = Running("userdemo") /\ Runner' = Runner /\ Peer' = Peer
  BY <1>1, <1>3 DEF Running, Runner, Peer
<1>7. DemoSide'
  BY <1>1, <1>2, <1>3, <1>6 DEF UserInvariant, DemoSide
<1> QED
  BY <1>4, <1>5, <1>7 DEF UserInvariant

LEMMA PageFaultStep ==
  ASSUME UserInvariant, PageFault
  PROVE  UserInvariant'
<1> DEFINE from == job.event
           cause == ledger.current
           isolates == Isolates(Head(program).what)
           blamed == IF isolates THEN ProcessName(processes[active].peer) ELSE "kernel"
           op == IF isolates THEN "isolation_fault" ELSE "page_fault"
           left == Switched(ledger, Thread, "kernel")
           final == Record(left, Report(Thread, blamed, op, "fault", cause, "fault"))
<1>1. /\ Executes({"read", "write"}) /\ ledger' = final
      /\ demo' = "return" /\ cr3' = 0 /\ program' = << >>
      /\ policy' = policy /\ config' = config /\ phase' = phase /\ job' = job
      /\ processes' = processes /\ free' = free /\ active' = active /\ turn' = turn
  BY DEF PageFault, Accesses
<1>2. /\ InDemo /\ demo = "ring3" /\ phase = "execute" /\ Running("userdemo")
      /\ Live(ledger, from) /\ cause \in from..(ledger.next - 1)
      /\ from \in Nat /\ ledger.next \in Nat \ {0}
      /\ ledger.tx \in {0, job.tx}
      /\ job.ok \in BOOLEAN /\ job = [job EXCEPT !.ok = job.ok]
      /\ active \in DOMAIN processes /\ Peer \in 1..ProcessCap
      /\ Thread \in Labels /\ 1 < Len(processes)
  BY <1>1, UserRuns
<1>3. processes[active].peer = Peer
  BY <1>2 DEF UserInvariant, DemoSide
<1>4. /\ "kernel" \in Labels /\ "switch_cr3" \in Operations /\ "isolation_fault" \in Operations
      /\ "page_fault" \in Operations /\ "ok" \in Results /\ "fault" \in Results
      /\ "fault" \in Kinds
  BY UserWords
<1>5. blamed \in Labels /\ op \in Operations
  <2>1. ProcessName(Peer) \in Labels
    BY <1>2, UserWords
  <2> QED
    BY <1>3, <1>4, <2>1
<1> HIDE DEF from, cause, blamed, op, isolates
<1>6. Works(ledger, ledger, from)
  BY <1>2, WorksNot
<1>7. Works(ledger, left, from) /\ left.next = ledger.next + 1
  <2>1. Works(ledger, Announce(ledger, Thread, "kernel", "switch_cr3", "ok"), from)
    BY <1>2, <1>4, <1>6, WorksAnnounce
  <2>2. Announce(ledger, Thread, "kernel", "switch_cr3", "ok").next = ledger.next + 1
    BY <1>2, <1>4, <1>6, WorksAnnounce
  <2> QED
    BY <2>1, <2>2 DEF Switched
<1>8. cause \in from..(left.next - 1)
  BY <1>2, <1>7
<1> HIDE DEF left
<1>9. Works(ledger, final, from)
  BY <1>2, <1>4, <1>5, <1>7, <1>8, WorksReport
<1> HIDE DEF final
<1>10. DemoStep
  BY <1>1, <1>2, <1>9 DEF DemoStep, Works, from
<1>11. ShellSide' /\ CauseSide'
  BY <1>2, <1>10, DemoKeepsShell DEF UserInvariant
<1>12. MemorySide'
  BY <1>1 DEF UserInvariant, MemorySide
<1>13. Running("userdemo")' /\ program' \in Seq(Steps) /\ processes' # << >>
  BY <1>1, <1>2 DEF Running
<1>14. DemoSide'
  BY <1>1, <1>2, <1>13 DEF UserInvariant, DemoSide
<1> QED
  BY <1>11, <1>12, <1>14 DEF UserInvariant

LEMMA ExceptionStep ==
  ASSUME UserInvariant, Exception
  PROVE  UserInvariant'
<1> DEFINE report == Report("cpu", "kernel", "exception", "fault", 0, "action")
           final == Record(ledger, report)
<1>1. /\ Executes({"exception"}) /\ phase' = "halted" /\ ledger' = final
      /\ policy' = policy /\ config' = config /\ job' = job
      /\ processes' = processes /\ free' = free /\ cr3' = cr3 /\ active' = active
      /\ turn' = turn /\ demo' = demo /\ program' = program
  BY DEF Exception, userVars
<1>2. /\ InDemo /\ demo = "ring3" /\ phase = "execute"
      /\ Live(ledger, job.event) /\ ledger.tx \in {0, job.tx}
      /\ ledger.next \in Nat \ {0}
      /\ job.ok \in BOOLEAN /\ job = [job EXCEPT !.ok = job.ok]
      /\ 1 < Len(processes)
  BY <1>1, UserRuns
<1>3. report \in ReportType /\ report.parent = 0 /\ report.op = "exception"
  <2>1. /\ "cpu" \in Labels /\ "kernel" \in Labels /\ "exception" \in Operations
        /\ "fault" \in Results /\ "action" \in Kinds
    BY UserWords
  <2> QED
    BY <2>1, ReportIsTyped DEF Report
<1> HIDE DEF report
<1>4. Works(ledger, final, job.event)
  BY <1>2, <1>3, RecordProceeds
<1> HIDE DEF final
<1>5. DemoStep
  BY <1>1, <1>2, <1>4 DEF DemoStep, Works
<1>6. ShellSide' /\ CauseSide'
  BY <1>2, <1>5, DemoKeepsShell DEF UserInvariant
<1>7. MemorySide'
  BY <1>1 DEF UserInvariant, MemorySide
<1>8. Runner' = Runner /\ Peer' = Peer
  BY <1>1 DEF Runner, Peer
<1>9. DemoSide'
  BY <1>1, <1>2, <1>8 DEF UserInvariant, DemoSide
<1> QED
  BY <1>6, <1>7, <1>9 DEF UserInvariant

LEMMA ReturnStep ==
  ASSUME UserInvariant, Return
  PROVE  UserInvariant'
<1> DEFINE final == Switched(ledger, "scheduler", "kernel")
<1>1. /\ Demoing("return") /\ demo' = "create" /\ cr3' = 0 /\ active' = 0
      /\ ledger' = final /\ phase' = "finish" /\ job' = [job EXCEPT !.ok = job.ok /\ TRUE]
      /\ policy' = policy /\ config' = config
      /\ processes' = processes /\ free' = free /\ turn' = turn /\ program' = program
  BY DEF Return, Completes, Left
<1>2. /\ InDemo /\ demo = "return" /\ phase = "execute"
      /\ Live(ledger, job.event) /\ ledger.tx \in {0, job.tx}
      /\ job.ok \in BOOLEAN /\ job = [job EXCEPT !.ok = job.ok]
  BY <1>1, DemoBegins
<1>3. /\ "scheduler" \in Labels /\ "kernel" \in Labels /\ "switch_cr3" \in Operations
      /\ "ok" \in Results
  BY UserWords
<1>4. Works(ledger, ledger, job.event)
  BY <1>2, WorksNot
<1>5. Works(ledger, final, job.event)
  BY <1>2, <1>3, <1>4, WorksAnnounce DEF Switched
<1> HIDE DEF final
<1>6. job' = job
  BY <1>1, <1>2
<1>7. DemoStep
  BY <1>1, <1>2, <1>5, <1>6 DEF DemoStep, Works
<1>8. ShellSide' /\ CauseSide'
  BY <1>2, <1>7, DemoKeepsShell DEF UserInvariant
<1>9. MemorySide'
  BY <1>1 DEF UserInvariant, MemorySide
<1>10. DemoSide'
  BY <1>1, <1>2 DEF UserInvariant, DemoSide
<1> QED
  BY <1>8, <1>9, <1>10 DEF UserInvariant

(***************************************************************************)
(* The theorems.                                                           *)
(***************************************************************************)
LEMMA FirstUserState ==
  ASSUME UserInit
  PROVE  UserInvariant
<1>1. /\ Init /\ processes = << >> /\ cr3 = 0 /\ active = 0 /\ turn = 0
      /\ demo = "create" /\ program = << >>
      /\ free \in {1..count : count \in FrameCounts}
  BY DEF UserInit
<1>2. ShellInvariant /\ phase \notin {"execute", "finish"}
  BY <1>1, FirstState DEF Init
<1>3. ShellSide /\ CauseSide
  BY <1>2 DEF ShellSide, CauseSide, InDemo
<1>4. Apart(free, processes) /\ Len(processes) =< ProcessCap
  <2>1. free \in SUBSET (Nat \ {0})
    BY <1>1, UserAssumption
  <2>2. processes \in Seq(Process) /\ DOMAIN processes = {} /\ Len(processes) = 0
    BY <1>1
  <2> QED
    BY <2>1, <2>2, UserAssumption DEF Apart
<1>5. MemorySide
  BY <1>4 DEF MemorySide
<1>6. << >> \in Seq(Steps)
  OBVIOUS
<1>7. DemoSide
  BY <1>1, <1>6 DEF DemoSide
<1> QED
  BY <1>3, <1>5, <1>7 DEF UserInvariant

LEMMA UserInvariantSteps ==
  ASSUME UserInvariant, [UserNext]_<<vars, userVars>>
  PROVE  UserInvariant'
<1>1. CASE Next /\ UNCHANGED userVars
  <2>1. ShellSide' /\ CauseSide'
    BY <1>1, SteppedOutside DEF UserInvariant
  <2>2. MemorySide' /\ DemoSide'
    BY <1>1, OutsideKeepsDemo
  <2> QED
    BY <2>1, <2>2 DEF UserInvariant
<1>2. CASE UNCHANGED <<vars, userVars>>
  <2>1. UNCHANGED vars /\ UNCHANGED userVars
    BY <1>2
  <2>2. MemorySide' /\ DemoSide'
    BY <2>1, OutsideKeepsDemo
  <2>3. /\ ledger' = ledger /\ policy' = policy /\ config' = config /\ phase' = phase
        /\ job' = job
    BY <2>1 DEF vars
  <2>4. ShellSide'
    BY <2>3 DEF UserInvariant, ShellSide, InDemo, DemoLedger, PolicyPart, ConfigPart,
                ShellPart, ShellInvariant, LedgerPart
  <2>5. CauseSide'
    BY <2>3 DEF UserInvariant, CauseSide
  <2> QED
    BY <2>2, <2>4, <2>5 DEF UserInvariant
<1>3. CASE Create
  BY <1>3, CreateStep
<1>4. CASE Load
  BY <1>4, LoadStep
<1>5. CASE MapProbe
  BY <1>5, MapProbeStep
<1>6. CASE Enter
  BY <1>6, EnterStep
<1>7. CASE Syscall
  BY <1>7, SyscallStep
<1>8. CASE Access
  BY <1>8, AccessStep
<1>9. CASE PageFault
  BY <1>9, PageFaultStep
<1>10. CASE Exception
  BY <1>10, ExceptionStep
<1>11. CASE Return
  BY <1>11, ReturnStep
<1> QED
  BY <1>1, <1>2, <1>3, <1>4, <1>5, <1>6, <1>7, <1>8, <1>9, <1>10, <1>11
  DEF UserNext, UserDemo

\* Whatever image is loaded and whatever part of the demo fails, the shell's state,
\* the causes, the frames and the demo's own state fit together
\* (user.c:237-441, memory.c:276-355, main.c:406-416).
THEOREM UserInvariantHolds == UserSpec => []UserInvariant
<1>1. UserInit => UserInvariant
  BY FirstUserState
<1>2. UserInvariant /\ [UserNext]_<<vars, userVars>> => UserInvariant'
  BY UserInvariantSteps
<1> QED
  BY <1>1, <1>2, PTL DEF UserSpec

\* The processes, the scheduler and the program keep their types (user.c:16-28,
\* 329-363).
THEOREM UserTypesAreCorrect == UserSpec => []UserTypeOK
<1>1. UserInvariant => UserTypeOK
  <2> SUFFICES ASSUME UserInvariant
               PROVE  UserTypeOK
    OBVIOUS
  <2>1. /\ processes \in Seq(Process) /\ Len(processes) =< ProcessCap
        /\ free \subseteq Nat /\ Len(processes) \in Nat
        /\ \A pid \in DOMAIN processes : processes[pid].cr3 \in Nat
    <3>1. Apart(free, processes) /\ Len(processes) =< ProcessCap
      BY DEF UserInvariant, MemorySide
    <3>2. processes \in Seq(Process) /\ free \subseteq Nat
      BY <3>1 DEF Apart
    <3>3. \A pid \in DOMAIN processes : processes[pid] \in Process
      BY <3>2
    <3> QED
      BY <3>1, <3>2, <3>3 DEF Process
  <2>2. cr3 \in Nat /\ active \in 0..Len(processes)
    <3>1. CASE demo = "ring3"
      <4>1. /\ Runner \in DOMAIN processes /\ active = Runner
            /\ cr3 = processes[active].cr3
        BY <3>1, TwoProcesses DEF UserInvariant, DemoSide
      <4> QED
        BY <2>1, <4>1
    <3>2. CASE demo = "return"
      BY <2>1, <3>2 DEF UserInvariant, DemoSide
    <3>3. CASE demo \notin {"ring3", "return"}
      BY <2>1, <3>3 DEF UserInvariant, DemoSide
    <3> QED
      BY <3>1, <3>2, <3>3
  <2>3. /\ turn \in Nat /\ (processes # << >> => turn < Len(processes))
        /\ demo \in {"create", "peer", "load", "probe", "enter", "ring3", "return"}
        /\ program \in Seq(Steps)
    BY DEF UserInvariant, DemoSide
  <2> QED
    BY <2>1, <2>2, <2>3 DEF UserTypeOK
<1> QED
  BY <1>1, UserInvariantHolds, PTL

\* The calls of userdemo, those of its system calls included, leave the ring, the
\* transactions and the registry in agreement (user.c:181-413, memory.c:266-355).
THEOREM UserKeepsLedgerSound == UserSpec => []LedgerStaysSound
<1>1. UserInvariant => LedgerStaysSound
  <2> SUFFICES ASSUME UserInvariant
               PROVE  LedgerStaysSound
    OBVIOUS
  <2>1. Whole(ledger)
    BY EmptyLedgerFits DEF UserInvariant, ShellSide, DemoLedger, Live, ShellInvariant,
                           LedgerPart, Fit
  <2> QED
    BY <2>1 DEF Whole, Sound, Books, OrderedById, Agreement, LedgerStaysSound
<1> QED
  BY <1>1, UserInvariantHolds, PTL

\* User code runs in its own address space and with no transaction open but the
\* shell's (user.c:237-254, 365-413).
THEOREM UserAlwaysRunsClean == UserSpec => []UserRunsClean
<1>1. UserInvariant => UserRunsClean
  <2> SUFFICES ASSUME UserInvariant, demo = "ring3", phase = "execute"
               PROVE  /\ cr3 = processes[active].cr3
                      /\ \A k \in DOMAIN ledger.txs :
                           ledger.txs[k].status = "open" => ledger.txs[k].id = job.tx
    BY DEF UserRunsClean
  <2>1. cr3 = processes[active].cr3 /\ Running("userdemo")
    BY DEF UserInvariant, DemoSide
  <2>2. DemoLedger
    BY <2>1 DEF UserInvariant, ShellSide, InDemo, Running
  <2> QED
    BY <2>1, <2>2 DEF DemoLedger, OpenIds
<1> QED
  BY <1>1, UserInvariantHolds, PTL

\* However userdemo ends, the prompt is in the kernel's address space and no
\* process is active (user.c:329-363, 415-441).
THEOREM KernelAlwaysOwnsPrompt == UserSpec => []KernelOwnsPrompt
<1>1. UserInvariant => KernelOwnsPrompt
  BY DEF UserInvariant, DemoSide, KernelOwnsPrompt, Running
<1> QED
  BY <1>1, UserInvariantHolds, PTL

\* Every cause in a command is as late as the command, that of the fault that ends
\* userdemo included (user.c:237-254, main.c:406-416).
THEOREM CausesAlwaysStayInDemo == UserSpec => []CausesStayInDemo
<1>1. UserInvariant => CausesStayInDemo
  <2>1. \A i \in DOMAIN window : window[i] \in Seen(ledger)
    BY DEF window, Seen
  <2> QED
    BY <2>1 DEF UserInvariant, CauseSide, CausedSince, CausesStayInDemo
<1> QED
  BY <1>1, UserInvariantHolds, PTL

\* What a process reaches at CPL 3 is frames given to it alone, each for one use
\* (memory.c:276-355, user.c:172-209).
THEOREM SpacesStayApart == UserSpec => []SpacesAreApart
<1>1. UserInvariant => SpacesAreApart
  <2> SUFFICES ASSUME UserInvariant, NEW pid \in DOMAIN processes
               PROVE  LET process == processes[pid]
                          Used(of) == of.tables \cup (Frames(of) \ {0})
                          reached == {area \in Areas : Reaches(process, area, FALSE)}
                      IN  /\ Used(process) \cap free = {}
                          /\ \A area \in reached :
                               /\ process.pages[area].frame \notin process.tables \cup {0}
                               /\ \A other \in reached \ {area} :
                                    process.pages[area].frame # process.pages[other].frame
                          /\ \A other \in DOMAIN processes \ {pid} :
                               Used(process) \cap Used(processes[other]) = {}
    BY DEF SpacesAreApart
  <2>1. /\ Private(processes[pid]) /\ Owned(processes[pid]) \cap free = {}
        /\ \A other \in DOMAIN processes \ {pid} :
             Owned(processes[pid]) \cap Owned(processes[other]) = {}
    BY DEF UserInvariant, MemorySide, Apart
  <2>2. \A area \in Areas :
          Reaches(processes[pid], area, FALSE) => processes[pid].pages[area].user
    BY DEF Reaches
  <2>3. \A area \in Areas :
          Reaches(processes[pid], area, FALSE) =>
            /\ processes[pid].pages[area].frame \notin processes[pid].tables \cup {0}
            /\ \A other \in Areas \ {area} :
                 processes[pid].pages[area].frame # processes[pid].pages[other].frame
    BY <2>1, <2>2 DEF Private
  <2> QED
    BY <2>1, <2>3 DEF Owned
<1> QED
  BY <1>1, UserInvariantHolds, PTL

\* A page fault at CPL 3 is the last event of the ring.
LEMMA FaultIsLast ==
  ASSUME UserInvariant, PageFault
  PROVE  LET said == Retained(ledger')[ledger'.count]
             isolates == Isolates(Head(program).what)
         IN  /\ said.op = IF isolates THEN "isolation_fault" ELSE "page_fault"
             /\ isolates => said.target = ProcessName(processes[active].peer)
<1> DEFINE from == job.event
           cause == ledger.current
           isolates == Isolates(Head(program).what)
           blamed == IF isolates THEN ProcessName(processes[active].peer) ELSE "kernel"
           op == IF isolates THEN "isolation_fault" ELSE "page_fault"
           left == Switched(ledger, Thread, "kernel")
           report == Report(Thread, blamed, op, "fault", cause, "fault")
<1>1. Executes({"read", "write"}) /\ ledger' = Record(left, report)
  BY DEF PageFault, Accesses
<1>2. /\ Live(ledger, from) /\ cause \in Nat /\ demo = "ring3"
      /\ Peer \in 1..ProcessCap /\ Thread \in Labels
  <2>1. cause \in from..(ledger.next - 1) /\ from \in Nat /\ ledger.next \in Nat
    BY <1>1, UserRuns
  <2>2. cause \in Nat
    BY <2>1
  <2> QED
    BY <1>1, <2>2, UserRuns
<1>3. processes[active].peer = Peer
  BY <1>2 DEF UserInvariant, DemoSide
<1>4. /\ "kernel" \in Labels /\ "switch_cr3" \in Operations /\ "isolation_fault" \in Operations
      /\ "page_fault" \in Operations /\ "ok" \in Results /\ "fault" \in Results
      /\ "fault" \in Kinds
  BY UserWords
<1>5. blamed \in Labels /\ op \in Operations
  <2>1. ProcessName(Peer) \in Labels
    BY <1>2, UserWords
  <2> QED
    BY <1>3, <1>4, <2>1
<1>6. report.op = op /\ report.target = blamed
  BY DEF Report
<1> HIDE DEF cause, blamed, op
<1>7. report \in ReportType
  BY <1>2, <1>4, <1>5, ReportIsTyped
<1>8. left \in LedgerType
  <2>1. Works(ledger, ledger, from)
    BY <1>2, WorksNot
  <2>2. Works(ledger, left, from)
    BY <1>2, <1>4, <2>1, WorksAnnounce DEF Switched
  <2> QED
    BY <2>2, WorksLive DEF Whole
<1> HIDE DEF left, report
<1>9. Retained(Record(left, report))[Record(left, report).count] = Stamp(left, report)
  BY <1>7, <1>8, RecordIsLast
<1>10. /\ Stamp(left, report).op = report.op /\ Stamp(left, report).target = report.target
  BY DEF Stamp
<1> QED
  BY <1>1, <1>6, <1>9, <1>10 DEF op, blamed

\* A fault is told as one of isolation exactly if the address is a page that the
\* process named reaches (user.c:431-438).
THEOREM IsolationFaultsAreAlwaysTrue == UserSpec => IsolationFaultsAreTrue
<1>1. /\ UserInvariant /\ [UserNext]_<<vars, userVars>>
      => [ PageFault =>
             LET area == Head(program).what
                 said == Retained(ledger')[ledger'.count]
                 owners == {pid \in DOMAIN processes :
                              Reaches(processes[pid], area, FALSE) /\ pid = processes[active].peer}
             IN  IF owners = {} THEN said.op = "page_fault"
                 ELSE /\ said.op = "isolation_fault"
                      /\ said.target \in {ProcessName(pid) : pid \in owners} ]_<<vars, userVars>>
  <2> DEFINE area == Head(program).what
             said == Retained(ledger')[ledger'.count]
             owners == {pid \in DOMAIN processes :
                          Reaches(processes[pid], area, FALSE) /\ pid = processes[active].peer}
             peer == processes[active].peer
  <2> SUFFICES ASSUME UserInvariant, PageFault
               PROVE  IF owners = {} THEN said.op = "page_fault"
                      ELSE /\ said.op = "isolation_fault"
                           /\ said.target \in {ProcessName(pid) : pid \in owners}
    OBVIOUS
  <2>1. Executes({"read", "write"})
    BY DEF PageFault, Accesses
  <2>2. /\ demo = "ring3" /\ Peer \in DOMAIN processes /\ Peer # 0
        /\ Head(program) \in Steps /\ Head(program).do \in {"read", "write"}
    <3>1. Peer \in 1..ProcessCap /\ ProcessCap \in Nat
      BY <2>1, UserRuns, UserAssumption
    <3> QED
      BY <2>1, <3>1, UserRuns
  <2>3. area \in Areas
    BY <2>2 DEF Steps, Asks
  <2>4. peer = Peer /\ Probed(processes[Peer])
    BY <2>2 DEF UserInvariant, DemoSide
  <2>5. /\ said.op = IF Isolates(area) THEN "isolation_fault" ELSE "page_fault"
        /\ Isolates(area) => said.target = ProcessName(peer)
    BY FaultIsLast
  <2> HIDE DEF said
  <2>6. Reaches(processes[Peer], area, FALSE) <=> area = "probe"
    BY <2>3, <2>4 DEF Probed, Reaches, Directory
  <2>7. Isolates(area) <=> area = "probe"
    BY <2>2, <2>4 DEF Isolates
  <2> HIDE DEF area, peer
  <2>8. CASE area = "probe"
    <3>1. Peer \in owners
      BY <2>2, <2>4, <2>6, <2>8 DEF peer
    <3> QED
      BY <2>4, <2>5, <2>7, <2>8, <3>1
  <2>9. CASE area # "probe"
    <3>1. owners = {}
      BY <2>4, <2>6, <2>9 DEF peer
    <3> QED
      BY <2>5, <2>7, <2>9, <3>1
  <2> QED
    BY <2>8, <2>9
<1> QED
  BY <1>1, UserInvariantHolds, PTL DEF UserSpec, IsolationFaultsAreTrue
=============================================================================
