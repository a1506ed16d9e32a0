------------------------------ MODULE UserMode ------------------------------
(***************************************************************************)
(* User mode: the command userdemo (user.c), which creates two processes   *)
(* with address spaces of their own (memory.c), loads /bin/hello into the  *)
(* first, maps a private page of the second, and runs the first at CPL 3   *)
(* until a page fault ends it.  It extends TruthShell.tla by the body of   *)
(* that command; the traps and the fault are entries of the same thread.   *)
(*                                                                         *)
(* An address space is the frames of its tables, the entries of its page   *)
(* directory and those of the pages below them, with their flags; a frame  *)
(* is 0 if the kernel owns it.  The others are the pages the allocator had *)
(* free when it was ready; none is ever freed, so page_alloc (Memory.tla)  *)
(* takes the lowest that is left.                                          *)
(***************************************************************************)
EXTENDS TruthShell

CONSTANTS
  ProcessCap,                 \* USER_PROCESS_CAPACITY, 4 in the kernel
  FrameCounts,                \* how many pages memory_init may have left free
  ProcessName(_), ThreadName(_), SpaceName(_),  \* build_name of a pid
  OtherPrograms               \* what an image built from other bytes would do

\* A step of a program: a system call with the string its argument points to,
\* "kernel" if that is not one in the code page, or the read or write of a page, or
\* an exception other than a page fault.
Step(do, what) == [do |-> do, what |-> what]

\* Programs that stay at CPL 3 for ever are left out.
Stops(step) == step.do = "exception" \/ step \in {Step("read", "kernel"), Step("write", "code")}

\* hello_program.
Hello == << Step("inspect", "system"), Step("yield", "kernel"),
            Step("config_get", "/config/theme"), Step("config_set", "/config/theme"),
            Step("read", "probe") >>

\* The areas a process may have: a page of the kernel, USER_CODE_VA, the page below
\* USER_STACK_TOP and USER_PEER_PROBE_VA; the last two share a directory entry.
Areas == {"kernel", "code", "stack", "probe"}
Directory(area) == CASE area = "kernel" -> 0 [] area = "code" -> 2 [] OTHER -> 3

\* What an entry for a page says, and one that is all zeros; an entry of the directory
\* is absent or for the kernel alone or has the flag user.
PageEntry(frame, user, writable) == [frame |-> frame, user |-> user, writable |-> writable]
NoEntry == PageEntry(0, FALSE, FALSE)
Rights == {"absent", "kernel", "user"}

\* The system calls a program may make, by number, and what the policy is asked.
Asks == [inspect |-> "syscall:inspect", yield |-> "syscall:yield",
         config_get |-> "syscall:config_get", config_set |-> "syscall:config_set"]

Steps == [do : DOMAIN Asks \cup {"unknown", "exception"}, what : Labels]
         \cup [do : {"read", "write"}, what : Areas]

\* The names are those of no other object: they begin with "process/", "thread/" and
\* "address_space/".
ASSUME UserAssumption ==
  /\ ProcessCap \in Nat /\ FrameCounts \subseteq Nat
  /\ \A pid \in 1..ProcessCap :
       {ProcessName(pid), ThreadName(pid), SpaceName(pid)}
         \subseteq Names \ ({"shell", ThePolicy} \cup DOMAIN FirstConfig)
  /\ \A other \in OtherPrograms :
       other \in Seq(Steps) /\ other # << >> /\ Stops(other[Len(other)])

\* The words of user.c and memory.c are among those the constants of the ledger list.
ASSUME UserWordAssumption ==
  /\ {"page_tables"} \subseteq Labels
  /\ {"created", "runnable"} \subseteq States
  /\ {"address_space_create", "map_virtual", "process_create", "thread_create",
      "user_transition_scaffold", "load_executable", "map_private_page", "switch_cr3",
      "enter_cpl3", "cpl3_trap", "yield", "schedule", "config_get", "config_set",
      "unknown_syscall", "page_fault", "isolation_fault"} \subseteq Operations

VARIABLES
  processes,   \* processes, as many as process_count
  free,        \* the pages the allocator has left
  cr3,         \* the root of the address space in use, 0 for the kernel's
  active,      \* the pid of active_user_process, or 0
  turn,        \* scheduler_index
  demo,        \* the part of user_run_demo to come
  program      \* what is left of the program that runs

userVars == <<processes, free, cr3, active, turn, demo, program>>

Process == [cr3 : Nat, tables : SUBSET Nat, directories : [0..3 -> Rights],
            pages : [Areas -> [frame : Nat, user : BOOLEAN, writable : BOOLEAN]], peer : Nat]

NewProcess == [cr3 |-> 0, tables |-> {}, directories |-> [index \in 0..3 |-> "absent"],
               pages |-> [area \in Areas |-> NoEntry], peer |-> 0]

Frames(process) == {process.pages[area].frame : area \in Areas}

UserTypeOK ==
  /\ processes \in Seq(Process) /\ Len(processes) <= ProcessCap
  /\ free \subseteq Nat /\ cr3 \in Nat
  /\ active \in 0..Len(processes)
  /\ turn \in Nat /\ (processes # << >> => turn < Len(processes))
  /\ demo \in {"create", "peer", "load", "probe", "enter", "ring3", "return"}
  /\ program \in Seq(Steps)

UserInit ==
  /\ Init
  /\ processes = << >>
  /\ free \in {1..count : count \in FrameCounts}
  /\ cr3 = 0 /\ active = 0 /\ turn = 0
  /\ demo = "create" /\ program = << >>

(***************************************************************************)
(* Pages and address spaces.  A machine is the ledger, the free pages and  *)
(* the processes that a call works on.                                     *)
(***************************************************************************)
Machine == [ledger |-> ledger, free |-> free, processes |-> processes]

Noted(m, actor, target, op, result) ==
  [m EXCEPT !.ledger = Announce(@, actor, target, op, result)]
NotedState(m, actor, target, op, result, parent) ==
  [m EXCEPT !.ledger = Record(@, Report(actor, target, op, result, parent, "state"))]

Page(m) == IF m.free = {} THEN 0 ELSE Min(m.free)

\* Seeded fault: the last page left is given and not marked.
PageAllocLast(m) ==
  Noted([m EXCEPT !.free = IF Cardinality(@) = 1 THEN @ ELSE @ \ {Page(m)}],
        "memory", "page_allocator", "allocate", IF m.free = {} THEN "denied" ELSE "ok")

\* page_alloc; the page it returns is Page(m).
PageAlloc(m) ==
  Noted([m EXCEPT !.free = @ \ {Page(m)}], "memory", "page_allocator", "allocate",
        IF m.free = {} THEN "denied" ELSE "ok")

TwoPages(m) == PageAlloc(PageAlloc(m))
FivePages(m) == PageAlloc(TwoPages(TwoPages(m)))

\* The first two entries of the directory get copies of the bootstrap's tables.
WithSpace(process, pages) ==
  [process EXCEPT !.cr3 = Min(pages), !.tables = pages,
                  !.directories[0] = "kernel", !.directories[1] = "kernel",
                  !.pages["kernel"] = PageEntry(0, FALSE, TRUE)]

\* memory_create_address_space: the pages it got are not given back if it fails.
CreateSpace(m, pid) ==
  LET taken == FivePages(m)
      pages == m.free \ taken.free
      said(result) == Noted(taken, "memory", SpaceName(pid), "address_space_create", result)
  IN  IF Cardinality(pages) < 5 THEN said("denied")
      ELSE [said("ok") EXCEPT !.processes[pid] = WithSpace(@, pages)]

\* memory_map_process_page for a user page; its other denials do not arise.
Missing(m, pid, area) == m.processes[pid].directories[Directory(area)] = "absent"
CanMap(m, pid, area) == Missing(m, pid, area) => m.free # {}

Mapped(process, area, page, writable, tables) ==
  [process EXCEPT !.tables = tables, !.directories[Directory(area)] = "user",
                  !.pages[area] = PageEntry(page, TRUE, writable)]

MapPage(m, pid, area, page, writable) ==
  LET missing == Missing(m, pid, area)
      ready == IF missing THEN PageAlloc(m) ELSE m
      tables == m.processes[pid].tables \cup (IF missing THEN {Page(m)} ELSE {})
  IN  IF CanMap(m, pid, area)
      THEN Noted([ready EXCEPT
                    !.processes[pid] = Mapped(@, area, page, writable, tables)],
                 "memory", "page_tables", "map_virtual", "ok")
      ELSE Noted(PageAlloc(m), "memory", "page_tables", "map_virtual", "denied")

(***************************************************************************)
(* user_run_demo, up to the entry of user mode.                            *)
(***************************************************************************)
\* Seeded fault: the last slot is taken for the one before it.
HasRoomLate(m) == Len(m.processes) <= ProcessCap

\* create_process.
HasRoom(m) == Len(m.processes) < ProcessCap

CreateProcess(m) ==
  LET pid == Len(m.processes) + 1
      scheduler == ObjectId(m.ledger, "scheduler")
      named == Register(m.ledger, ProcessName(pid), scheduler, "created", m.ledger.current)
      parts == Register(Register(named, ThreadName(pid), ObjectId(named, ProcessName(pid)),
                                 "runnable", m.ledger.current),
                        SpaceName(pid), ObjectId(named, ProcessName(pid)), "created",
                        m.ledger.current)
      listed == [ledger |-> parts, free |-> m.free,
                 processes |-> Append(m.processes, NewProcess)]
      say(acc, target, op, result) ==
        NotedState(acc, "scheduler", target, op, result, m.ledger.current)
      created == CreateSpace(say(say(listed, ProcessName(pid), "process_create", "ok"),
                                 ThreadName(pid), "thread_create", "ok"), pid)
  IN  IF HasRoom(m)
      THEN say(created, SpaceName(pid), "address_space_create",
               IF created.processes[pid].cr3 = 0 THEN "denied" ELSE "ok")
      ELSE say(m, "scheduler", "process_create", "denied")

Demoing(part) == Running("userdemo") /\ demo = part

\* The demo goes on with the next part, or returns 0 to the command.
Continues(m, ok, next) ==
  /\ free' = m.free /\ processes' = m.processes
  /\ IF ok THEN /\ ledger' = m.ledger /\ demo' = next
                /\ UNCHANGED <<phase, job>>
           ELSE Completes(m.ledger, FALSE) /\ demo' = "create"
  /\ UNCHANGED <<policy, config, cr3, turn, program>>

Create ==
  /\ \E part \in {"create", "peer"} :
       /\ Demoing(part)
       /\ LET m == CreateProcess(Machine)
          IN  Continues(m, HasRoom(Machine) /\ m.processes[Len(m.processes)].cr3 # 0,
                        IF part = "create" THEN "peer" ELSE "load")
  /\ UNCHANGED active

\* The process that runs, and its peer.
Runner == Len(processes) - 1
Peer == Len(processes)

\* load_executable; both pages are asked for before either is looked at.
LoadImage(m, decision) ==
  LET code == Page(m)
      stack == Page(PageAlloc(m))
      taken == TwoPages(m)
      coded == MapPage(taken, Runner, "code", code, FALSE)
      mapped == MapPage(coded, Runner, "stack", stack, TRUE)
      say(acc, actor, target, op, result) == NotedState(acc, actor, target, op, result, decision)
  IN  IF stack = 0 THEN say(taken, "scheduler", ProcessName(Runner), "load_executable", "denied")
      ELSE IF ~CanMap(taken, Runner, "code") THEN coded
      ELSE IF ~CanMap(coded, Runner, "stack") THEN mapped
      ELSE say(say(mapped, "ramfs", "/bin/hello", "read", "ok"),
               "scheduler", ProcessName(Runner), "load_executable", "ok")

Load ==
  /\ Demoing("load")
  /\ LET ready == NotedState(Machine, "scheduler", ThreadName(Runner),
                        "user_transition_scaffold", "ok", ledger.current)
         decided == [ready EXCEPT !.ledger = Check(@, "/bin/hello", "process:load")]
         decision == ready.ledger.next
         looked == [decided EXCEPT !.ledger = Lookup(@, "/bin/hello", decision)]
         loaded == LoadImage(looked, decision)
     IN  IF Permitted("/bin/hello", "process:load")
         THEN Continues(loaded, \A area \in {"code", "stack"} :
                                  loaded.processes[Runner].pages[area] # NoEntry, "probe")
         ELSE Continues(decided, FALSE, "probe")
  /\ UNCHANGED active

\* map_private_probe_page.
MapProbe ==
  /\ Demoing("probe")
  /\ LET taken == PageAlloc(Machine)
         mapped == MapPage(taken, Peer, "probe", Page(Machine), TRUE)
     IN  IF free = {} THEN Continues(taken, FALSE, "enter")
         ELSE IF ~CanMap(taken, Peer, "probe") THEN Continues(mapped, FALSE, "enter")
         ELSE Continues(NotedState(mapped, "scheduler", ProcessName(Peer), "map_private_page",
                              "ok", ledger.current), TRUE, "enter")
  /\ UNCHANGED active

\* memory_switch_address_space, in the ledger.
Switched(l, actor, target) == Announce(l, actor, target, "switch_cr3", "ok")

Enter ==
  /\ Demoing("enter") /\ demo' = "ring3"
  /\ processes' = [processes EXCEPT ![Runner].peer = Peer]
  /\ active' = Runner /\ cr3' = processes[Runner].cr3
  /\ program' \in {Hello} \cup OtherPrograms
  /\ LET entered == Record(ledger, Report("scheduler", ThreadName(Runner), "enter_cpl3", "ok",
                                          ledger.current, "state"))
     IN  ledger' = Switched(entered, "scheduler", SpaceName(Runner))
  /\ UNCHANGED <<policy, config, phase, job, free, turn>>

(***************************************************************************)
(* Entries from user mode.                                                 *)
(***************************************************************************)
Thread == ThreadName(active)
Executes(kinds) == Demoing("ring3") /\ program # << >> /\ Head(program).do \in kinds

\* Seeded fault: an event has no cause if the table of transactions is full.
SyscallBeginUnlinked(l, target) ==
  LET tx == BeginResult(l)
  IN  SetCurrent(SetTx(Begin(l, Thread, target, l.current), tx), tx)

\* syscall_begin; without a transaction the current event stays.
SyscallBegin(l, target) ==
  LET tx == BeginResult(l)
  IN  SetCurrent(SetTx(Begin(l, Thread, target, l.current), tx),
                 IF tx = 0 THEN l.current ELSE tx)

\* Seeded faults: a denial leaves its transaction open; the transaction closed
\* stays the current one.
SyscallFinishOpen(l, tx, ok) == SetTx(IF ok THEN Commit(l, tx) ELSE l, 0)
SyscallFinishLate(l, tx, ok) == IF ok THEN Commit(l, tx) ELSE Abort(l, tx)

\* syscall_finish: the shell's transaction is not made the current one again.
SyscallFinish(l, tx, ok) == SetTx(IF ok THEN Commit(l, tx) ELSE Abort(l, tx), 0)

\* The system call between its two changes of address space.
Served(l, call, argument) ==
  LET target == IF call = "yield" THEN Thread ELSE argument
      begun == SyscallBegin(l, target)
      decided == PolicyCheck(policy, begun, Thread, target, Asks[call])
      say(acc, actor, named, op, result, kind) ==
        Record(acc, Report(actor, named, op, result, begun.next, kind))
      found == call = "config_get" => target \in DOMAIN config
      effect == IF call = "yield"
                THEN say(say(decided, Thread, "scheduler", "yield", "ok", "syscall"),
                         "scheduler", Thread, "schedule", "ok", "state")
                ELSE say(decided, Thread, target, call, IF found THEN "ok" ELSE "denied",
                         "syscall")
  IN  IF Allowed(policy, Thread, target, Asks[call])
      THEN SyscallFinish(effect, BeginResult(l), found)
      ELSE SyscallFinish(decided, BeginResult(l), FALSE)

Refused(l) ==
  LET begun == SyscallBegin(l, "kernel")
  IN  SyscallFinish(Record(begun, Report(Thread, "kernel", "unknown_syscall", "denied",
                                         begun.current, "syscall")),
                    BeginResult(l), FALSE)

\* user_syscall_trap; the process's address space is in use again at its end.  The
\* bound on the events is the model's, and no run meets it.
Syscall ==
  /\ Executes(DOMAIN Asks \cup {"unknown"})
  /\ ledger.next + 2 <= MaxSeq
  /\ LET call == Head(program)
         trapped == Switched(Record(ledger, Report(Thread, "kernel", "cpl3_trap", "ok",
                                                   ledger.current, "syscall")),
                             Thread, "kernel")
         served == IF call.do = "unknown" THEN Refused(trapped)
                   ELSE Served(trapped, call.do, call.what)
     IN  /\ ledger' = Switched(served, Thread, SpaceName(active))
         /\ turn' = IF call.do = "yield" /\ Allowed(policy, Thread, Thread, "syscall:yield")
                    THEN (turn + 1) % Len(processes) ELSE turn
  /\ cr3' = processes[active].cr3
  /\ program' = Tail(program)
  /\ UNCHANGED <<policy, config, phase, job, processes, free, active, demo>>

\* The processor's walk of the tables for an access at CPL 3.
Reaches(process, area, writes) ==
  /\ process.directories[Directory(area)] = "user" /\ process.pages[area].user
  /\ writes => process.pages[area].writable

Accesses == Executes({"read", "write"})
Succeeds == Reaches(processes[active], Head(program).what, Head(program).do = "write")

Access ==
  /\ Accesses /\ Succeeds
  /\ program' = Tail(program)
  /\ UNCHANGED <<vars, processes, free, cr3, active, turn, demo>>

\* Seeded fault: every page fault is taken for one of isolation.
IsolatesAlways(area) == TRUE

\* The address is the one the peer's private page has.
Isolates(area) == area = "probe" /\ processes[active].peer # 0

\* exception_handler and user_handle_fault for a page fault at CPL 3.
PageFault ==
  /\ Accesses /\ ~Succeeds
  /\ demo' = "return" /\ cr3' = 0 /\ program' = << >>
  /\ LET isolates == Isolates(Head(program).what)
     IN  ledger' = Record(Switched(ledger, Thread, "kernel"),
                     Report(Thread,
                            IF isolates THEN ProcessName(processes[active].peer) ELSE "kernel",
                            IF isolates THEN "isolation_fault" ELSE "page_fault",
                            "fault", ledger.current, "fault"))
  /\ UNCHANGED <<policy, config, phase, job, processes, free, active, turn>>

\* Any other exception halts the kernel.
Exception ==
  /\ Executes({"exception"})
  /\ phase' = "halted"
  /\ ledger' = Record(ledger, Report("cpu", "kernel", "exception", "fault", 0, "action"))
  /\ UNCHANGED <<policy, config, job, userVars>>

\* Seeded fault: the process stays the active one.
LeftActive == active

Left == 0

\* user_run_demo after user_enter_ring3 returns.
Return ==
  /\ Demoing("return") /\ demo' = "create"
  /\ cr3' = 0 /\ active' = Left
  /\ Completes(Switched(ledger, "scheduler", "kernel"), TRUE)
  /\ UNCHANGED <<policy, config, processes, free, turn, program>>

UserDemo == \/ Create \/ Load \/ MapProbe \/ Enter \/ Syscall \/ Access \/ PageFault
            \/ Exception \/ Return

UserNext == (Next /\ UNCHANGED userVars) \/ UserDemo

UserSpec == UserInit /\ [][UserNext]_<<vars, userVars>>

(***************************************************************************)
(* Properties.                                                             *)
(***************************************************************************)
\* User code runs in its own address space, and with every transaction closed
\* but the shell's: a system call leaves nothing open, denied or not
\* (user.c:237-254, 365-413).
UserRunsClean ==
  demo = "ring3" /\ phase = "execute" =>
    /\ cr3 = processes[active].cr3
    /\ \A k \in DOMAIN ledger.txs :
         ledger.txs[k].status = "open" => ledger.txs[k].id = job.tx

\* Whatever part of userdemo fails or faults, the shell goes on in the kernel's
\* address space with no process active (user.c:329-363, 415-441).
KernelOwnsPrompt == phase \in {"finish", "prompt"} => cr3 = 0 /\ active = 0

\* why leads from any event of userdemo, the fault that ends it included, back to
\* the command: every cause is as late as the command, though a system call
\* leaves its own event the current one (user.c:237-254, main.c:406-416).
CausesStayInDemo ==
  phase \in {"execute", "finish"} =>
    \A i \in DOMAIN window :
      window[i].seq > job.event /\ window[i].op # "exception" =>
        window[i].parent \in job.event..(window[i].seq - 1)

\* What a process reaches at CPL 3 is frames given to it alone, each for one use:
\* never the kernel's memory, a table, its own included, or a free frame; and no table
\* is anyone else's (memory.c:276-355, user.c:172-209).
SpacesAreApart ==
  \A pid \in DOMAIN processes :
    LET process == processes[pid]
        Used(of) == of.tables \cup (Frames(of) \ {0})
        reached == {area \in Areas : Reaches(process, area, FALSE)}
    IN  /\ Used(process) \cap free = {}
        /\ \A area \in reached :
             /\ process.pages[area].frame \notin process.tables \cup {0}
             /\ \A other \in reached \ {area} :
                  process.pages[area].frame # process.pages[other].frame
        /\ \A other \in DOMAIN processes \ {pid} : Used(process) \cap Used(processes[other]) = {}

\* A fault is told as one of isolation exactly if the address touched is a page
\* that the process named reaches and the one that touched it does not
\* (user.c:431-438).
IsolationFaultsAreTrue ==
  [][ PageFault =>
        LET area == Head(program).what
            said == Retained(ledger')[ledger'.count]
            owners == {pid \in DOMAIN processes :
                         Reaches(processes[pid], area, FALSE) /\ pid = processes[active].peer}
        IN  IF owners = {} THEN said.op = "page_fault"
            ELSE /\ said.op = "isolation_fault"
                 /\ said.target \in {ProcessName(pid) : pid \in owners} ]_<<vars, userVars>>

\* README.md:9: what the shell changes flows through policy_check before it is
\* told.  Here, the creation of a process.
ProcessesFollowPermission ==
  \A i, j \in DOMAIN window :
    /\ window[i].op = "process_create" /\ window[i].result = "ok"
    /\ window[j].seq = window[i].parent
      => window[j].op = "policy_check" /\ window[j].result = "ok"
=============================================================================
