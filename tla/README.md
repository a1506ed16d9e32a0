# A verification model of GlassOS

GlassOS is a small x86_64 kernel built around a *truth ledger*: every action is
an event with an actor, a target, a result, a cause and a transaction, and the
shell's queries (`inspect`, `expand`, `why`, `history`) are answered from it.
This directory holds TLA+ modules translated from the C source, the TLC
configurations that check them on small instances, and proofs, for every size of
their tables, of what the ledger, the shell, the prompt and the page allocator promise.
File names below are relative to `src/`.

## 1. The system

One processor, one kernel thread (`kernel_main`), three kinds of entries from
outside it: the timer and keyboard interrupts, and the traps and faults of a
user program that `userdemo` runs. There is no persistence and no preemption: a
handler runs to its end with interrupts disabled.

| Component | State | Operations | Talks to | What makes it correct |
|---|---|---|---|---|
| Event ledger, `kernel/event.c` | ring of 128 events, next number, current event, current transaction, table of 32 transactions | `event_record(_kind)`, `event_set_current`, `event_set_transaction`, `transaction_begin/commit/abort`, `event_at/find` | reads the registry on every event, writes it for every transaction | the ring is the newest events without a gap; a transaction is the stretch from its begin to its end; closed is final |
| Object registry, `kernel/object.c` | up to 128 objects (the kernel never registers more than 127): id, name, state, revision, last event | `object_register`, `object_update_state`, `object_set_state_direct`, `object_find/id/revision` | records an event on every update | a state changes with its revision and by a recorded event; histories never run backwards |
| Policy, `kernel/policy.c` | up to 64 rules, a revision | `policy_init`, `policy_check`, `policy_change_rule` | records decisions, registers capability objects | the last matching rule decides, nothing matches means denied; revision, rules and object advance together |
| Shell, `kernel/main.c` | the locals of the loop | the boot; some twenty commands | everything | each command is one closed transaction; an effect follows its permission and names it as its cause |
| Configuration, `kernel/config.c` | two keys | `config_get`, `config_set` | registry | the store and the registry show the same value |
| RAM files, `kernel/ramfs.c` | constant table | `ramfs_lookup`, `ramfs_read` | ledger | lookups are caused by the decision that allowed them |
| Keyboard, `kernel/keyboard.c` | line, cursor, `command_ready`, history of 8, prefix and shift flags | `keyboard_handler` (interrupt), `keyboard_begin_line` (thread) | shared `kbd_buffer` with the shell | a line is not edited while it runs, every line entered at the prompt runs, the history is the newest lines |
| Timer, `kernel/timer.c` | tick count | `timer_handler` (interrupt) | ends `hlt` | it goes on |
| Memory, `kernel/memory.c` | two page bitmaps, heap bounds and pointer | `memory_init`, `page_alloc(_contiguous)`, `page_free`, `malloc` | ledger | only RAM the firmware reports and nobody reserves is given, to one holder at a time |
| Address spaces, `kernel/memory.c` | page tables | create, map, switch | allocator | processes reach their own pages and no other |
| User mode, `kernel/user.c` | 4 processes, the active one | `userdemo`, traps, four system calls, page faults | all of the above | a system call is a transaction of its thread; a fault stays in its process |
| Console, `kernel/vga.c` | cells, cursor, window mode | print, move, erase, clear, draw the window | written by the thread and by the keyboard handler | the line shown is the line edited; nothing leaves the window's pane |
| Serial, panic, IDT/GDT, loaders | none; none; tables; none | output, set-up | | |

Behaviours that are hard to test: tables that fill (32 transactions is a short
session), the ring's wrap, transactions nested in others, the chain of causes
across four modules, a denial inside a function that returns nothing, a wakeup
that is lost between a test and `hlt`, keys that arrive between two stores or
while a command holds pointers into the line, two writers of one cursor, a line
that wraps and scrolls while it is edited, firmware memory maps that overlap
or wrap. `PROJECT.json` lists each at its line, with the properties about it.

## 2. The modules

    EventWindow            abstract: an append-only window on a log
        ^ implemented by
    Ledger --- LedgerApi   event.c + object.c
        ^          ^
        |      Policy              policy.c
        |          ^
        |      TruthShell          main.c, config.c, ramfs.c
        |          ^
        |      UserMode            user.c, memory.c:265-355

    LedgerApiProofs <- LedgerProofs         lemmas about LedgerApi; then Ledger,
        ^
    TruthShellProofs <- UserModeProofs      TruthShell and UserMode

    LineEditor             abstract: a line, a cursor, the lines entered before
        ^ implemented by
    Prompt --- Keyboard            main.c:389-399, idt.c, timer.c / keyboard.c
      ^            ^
      |          Display --- Screen    main.c:378-450, keyboard.c:81-97 / vga.c

    KeyboardProofs <- PromptProofs          lemmas about Keyboard; then Prompt
        ^
    DisplayProofs                           and Display

    Memory <- MemoryProofs         memory.c:94-241, 387-466

**LedgerApi** is the ledger as a library. `event.c` and `object.c` call each
other on every operation, so their statics are one record (`LedgerType`) and an
API call is an operator from a ledger to a ledger: `Record`, `Begin`, `Commit`,
`Abort`, `Register`, `UpdateState` ... The ring is the array, `first` and
`count`, as in the code. The names of transactions and the number a query
spells are constants (`TxName`, `ParseId`), with the assumptions the code's
formatting justifies (`NameAssumption`). A boot step that registers one object after the
other uses `RegisterAll`, a recursive function over the list it goes through. Time stamps and the texts of policy
decisions are left out. Four predicates say what a ledger satisfies between two
calls: `Consecutive`, `Enveloped`, `ClosedAgree`, `Ordered`.

**Ledger** calls that API one operation at a time, in every order. Its callers
keep to two rules that all callers in the kernel keep to: they name as a cause an
event already recorded (or 0), and after closing a transaction they leave it
(`Settled`) before they record anything else. They may restore an outer
transaction, close transactions in any order, and register names at will.

**EventWindow** is what the readers of the ring rely on, with no slot arithmetic:
a sequence that only grows at its new end and shrinks at its old one when it is
full.

**Policy** and **TruthShell** compose the calls. `TruthShell` has one action per
boot call and one per group of command bodies; `Accept` is the loop's head
(command event, `transaction_begin`), `Finish` its tail. The loop is split there
because nothing else touches this state in between; the body is one action since
no interrupt reads or writes it. The base policy of the checked instances is
`policy/base.policy`, rule by rule. Boot failures end in `FailMemory` and
`panicked`; the CPU exception of test builds in `halted`.

**UserMode** extends `TruthShell` by the body of `userdemo`: an action for each
part of `user_run_demo`, then one for each entry from CPL 3 (`Syscall`, `PageFault`,
`Exception`) and `Return`. The trap and the fault run on the same thread's behalf
and to their end, so they are actions of their own with the user program's steps
between them. A user program is the sequence of what it does; `Hello` is that of
`/bin/hello`, and `OtherPrograms` are a few more, for the paths of the handlers that
`/bin/hello` does not take. An address space is the frames of its tables, the
entries of its page directory and those of its pages, with the user and writable
flags; `Reaches` is the processor's walk. An entry that is not there is one of all zeros,
as in the page the code clears. Frames are
numbered in the order `page_alloc` gives them. `UserNext` is `TruthShell`'s steps or
those of `userdemo`.

**Keyboard** is `keyboard_handler` as an operator from a keyboard and a scancode
to a keyboard, **Prompt** the loop's first ten lines instruction by instruction
against the interrupts: `cli`, the stores of `keyboard_begin_line` one after the
other, `sti`, the test, `hlt`, and the command that runs with pointers into the
line.

**LineEditor** is what a user at the prompt relies on, with no array, slot, scancode or
interrupt: a line is written and erased at its cursor, the lines entered before
are looked through from the newest to the oldest and back, what was being written is put
aside meanwhile and found again, a line that has ended is not edited, and one step
begins the next. `Prompt` implements it (`ImplementsEditor`): the list of lines is read out of the ring of the
history from its newest slot backwards, and the stores of `keyboard_begin_line`
are one `Begin`, because no key comes between `cli` and `sti`.

**Screen** is `vga.c` as operators from a screen (cells, cursor, mode) to a screen.
**Display** composes it with the keyboard: what `redraw_line` and the moves of the
cursor draw after each key, and what the main thread prints. `init_idt` enables
interrupts before the window is drawn, and until the first Enter the handler
draws whenever a key comes; so the drawing of the window and the banner are
modelled step by step (`DrawFrame`, `PrintChar`, `PrintNewLine`, `EndChar`), with keys in between.
`cursor_x`, `cursor_y` and `window_mode` are not `volatile`, so the main thread computes on what it
has loaded (`reg`) and stores what it has assigned (`dirty`) later: each field by itself, at any
time and in any order (`Store`; with `-O2` the wrap stores `cursor_y` before `cursor_x`), and what
it has not assigned it may load again (`Reload`). It has to have stored everything before it writes a cell,
since the cells are written through a pointer to bytes, which may point to the cursor, and before `print_char` calls
`serial_write_char`; after both it loads everything again (`Loads`). So a key comes between the
two stores of a wrap, of `keep_cursor_in_console`, of a newline and of `vga_draw_window` alike. From
then on the thread draws with interrupts masked or with a line ready, which the
handler checks, and one action prints a whole text. A loop over cells (clearing, the frame,
scrolling) is one step.

**Memory** is the page allocator and the heap. A bitmap is the set of its pages;
addresses are the bytes of a small memory with a word that really wraps. `said`
holds the events of the latest call; the same calls inside the ledger are
`StartMemory` and `FailMemory` of `TruthShell`. `page_free` and `malloc` are called by
nothing in the kernel yet: here they are called in every way.

Operators under a comment *Seeded fault* are not used by the specifications. They
are what the code would be with a plausible bug; put in the place of the
operator they stand above, they make a property of a run fail (`mutants` in
`PROJECT.json`).

## 3. The runs

| Run | Instance | Shows |
|---|---|---|
| `ledger` (MCLedger) | ring of 3, few transactions and objects, bounded numbers | the eight properties of `Ledger`, about 10^6 states |
| `shell` (MCTruthShell) | base policy, ring of 16, 3 transactions, 23 rules; all commands but `userdemo`, as many in a row as 15 events hold | agreement of ledger, registry, policy and store across commands; no deadlock |
| `policy` (MCTruthPolicy) | the same, policy lines only, longer rows, 24 rules | the policy's revision, overriding and lockout |
| `prompt` (MCPrompt) | lines of 2, history of 2, one letter and its shift | the interleavings of thread, keyboard and timer, one liveness property, the refinement of `LineEditor` |
| `memory` (MCMemory) | 10 pages of 4 bytes, heap of 2, word of 64, seven maps | the boot's reading of maps, the allocator, the heap |
| `user` (MCUserMode) | base policy, two denials, 7 counts of free pages, 3 processes, 3 transactions, ring of 8 | `userdemo` failing at every point it can, three user programs, no deadlock |
| `display` (MCDisplay) | screen of 7 by 5, pane of 3 by 3, lines of 2, history of 2, two letters, 7 scancodes, 3 of them during the boot | the line on the screen, the prompt before it, the frame |
| `unchecked_processes` | as `user` | section 6 |
| `unjournaled_policy`, `denied_commits`, `stale_capability`, `closing_revision` | as `shell` | what documents or tests say and the code does not do, section 6 |

Why the bounds suffice:

* *Ledger.* Five events pass through a ring of three, so that it wraps and its
  start moves; the transaction table and the registry fill, transactions nest, and three or more events have the same target.
  The slot arithmetic is modulo the capacity and has no other case; the proofs of
  section 5 drop the bound for all of these properties.
* *TruthShell.* `MaxSeq` bounds the events. The boot records 18; `CommandCost` (8)
  is the most one command records, so no command is cut short by the bound. Three
  transactions make the table fill after two commands (the first transaction is the
  policy's), so that the last commands of every row run without one. Sixteen
  events hold the last commands whole. 23 rules leave room for one addition, 24
  for two, so that the table is seen to fill.
* *UserMode.* A whole `userdemo` records 70 events (`CommandCost`) and takes 16
  pages: 5 for each address space, 2 for the image, 1 for the probe, 3 for page
  tables. The counts of free pages end it at its second address space, at the
  second page of the image, at each of the three tables and at the probe, and at
  the first address space of the demo after; with 40 a demo ends and the next
  finds one process left. `MaxSeq` (143) leaves room for that, or for a row of
  policy lines and demos that fail; no run gets to the same bound in `Syscall`. The programs beside `/bin/hello` read the kernel's memory,
  write their code, and end in an exception that is no page fault. The table of three transactions is full
  from the second or third system call on.
* *Prompt.* A line of two characters has a middle, a start and an end; a history of
  two wraps at the third line.
* *Display.* A prompt and a line of two fill more than a row of the pane, so that a
  line wraps wherever it begins; three Enters scroll it. Seven scancodes are enough
  to insert in the middle of a line, to recall a longer or shorter one, and to
  scroll the line under the cursor; three during the boot to type, move and type
  again between two of its stores. The banner has four lines, the third as wide as the pane, so
  that it is printed, wrapped and scrolled on the last row as well, where a cursor half stored is below the
  pane. A session may stop: the keys are used up, or an
  exception halts the kernel, so deadlock is not checked.
* *Memory.* The maps have whole and partial pages, entries that overlap in both
  orders, an entry that begins beyond the limit, one whose end wraps, one of no
  length, one that cannot be read, an empty map and one with no room for the heap.

Fairness is assumed in `Prompt` only: of the main thread, because a processor
that is not halted executes (a handler ends, so it delays the thread but does not
stop it), and of the timer, because `init_idt` programs it to fire periodically
and unmasks it (`kernel/idt.c:110-142`). Nobody is obliged to press a key. Under
it `EnteredLineRuns` says that an Enter that falls between the test of
`command_ready` and `hlt` is not lost: the loop has no other protection from it
than the next tick. `TruthShell` and `UserMode` state no fairness; that the boot and each command
go on is checked as the absence of deadlock, with the three `hlt` loops as
the only places to wait (`Wait`).

## 4. The properties

*Ledger*: `RingIsWindow` and `ImplementsWindow` (readers), `TransactionEnvelope`
(an event carries a transaction only between its begin and its end, also when an
outer one is restored), `ClosedTransactionsAgree` (ring, table and registry tell
the same story), `ClosedIsFinal`, `RevisionsInOrder`, `RevisionsAccountForChanges`.

*TruthShell*: `LedgerStaysSound` repeats the ledger's promises for the calls the
kernel really makes; `NothingOpenAtPrompt`, `CausesStayInCommand` and
`EffectsFollowPermission` are about the chain `why` prints, across commands and with
the transaction table full; `ConfigMatchesRegistry`, `PolicyRevisionTracked` and
`RevisionRangeIsJournaled` relate two modules' state; `LockoutIsPermanent` and
`NewRuleDecides` are about the order of rules.

*UserMode*: `UserRunsClean` (at CPL 3 the process's own address space is in use, and no
transaction is open but the shell's), `KernelOwnsPrompt` (whatever failed, the shell
goes on in the kernel's address space and with no process active), `CausesStayInDemo`
(`why` leads from the fault back to the command, though a system call neither
restores the current event nor the shell's transaction), `SpacesAreApart` (what a
process reaches at CPL 3 is its own frames and never a table, the kernel or a free frame, also
when some of it was kept by a demo that failed), `IsolationFaultsAreTrue` (a fault is told as one of
isolation exactly if the peer named has that page), and `LedgerStaysSound` again.

*Prompt*: `LineIsStable` (nothing edits a line while a command has pointers into it),
`HistoryIsRecent` and `BrowsingShowsHistory` (the ring's slots, as it wraps),
`ImplementsEditor`, and `EnteredLineRuns`, which is liveness.

*Display*: `LineIsShown` (the cells around the cursor spell the line, wherever it wrapped
or scrolled, so that keys act on what the user sees), `PromptIsShown` (the prompt
stands before it and nothing after it), `FrameStays` (what is printed never writes on the
frame, whatever the handler did to the cursor meanwhile, nor does what is typed), and in `TypeOK`
that the cursor is in the pane.
`PromptIsShown` holds only until a redraw begins off the old line's end (`skewed`), which
the code does in three cases: a character inserted in the middle (the line
moves one cell left, over the prompt), a recalled line whose redraw starts too far
to the right or too near (what was longer is left standing), and keys typed during the boot. No document says
what the screen must show then, so these are limits of the property and no
findings. So is the limit of `FrameStays`: a key of the boot may erase a cell of the frame if it finds
the cursor more than a step off the pane (`AtPane`). There are two ways to that, and TLC finds
both when the limit is left out. Keys typed between the stores of
`vga_draw_window` leave the cursor anywhere until the first character is printed. And with one
of the two stores of a wrap or a newline made on the pane's last row, or with a key drawn between
them, the cursor is on the row below the pane and right of its first column, and
the next key erases from there. No key of the loop is excepted, and nothing that is printed.

*Memory*: `UsableIsRam` compares the marking of pages with a byte-by-byte
definition; `PagesAccounted` has every usable page free, held or the heap's, and no
page two of these; `LowestRunIsGranted` is first fit, with no run overlooked;
`BlocksAreApart` that blocks have the size asked for and do not overlap.

## 5. The proofs

**The ledger.** `LedgerProofs` proves, for every capacity, every set of names, reports and
owners the assumptions allow, and any number of events up to `MaxSeq`, that all eight
properties of the `ledger` run hold:

* `LedgerTypeCorrect` (`TypeOK`), `RingIsAlwaysWindow` (`RingIsWindow`) and
  `LedgerImplementsWindow` (`ImplementsWindow`, the refinement of `EventWindow`), from
  `LedgerInvariantHolds`;
* `TransactionsAreEnveloped` (`TransactionEnvelope`) and `ClosedStaysFinal` (`ClosedIsFinal`), from
  `BooksInvariantHolds`;
* `RevisionsStayInOrder` (`RevisionsInOrder`), `RevisionsAlwaysAccount`
  (`RevisionsAccountForChanges`) and `ClosedTransactionsAlwaysAgree` (`ClosedTransactionsAgree`).

The argument goes through the API: `LedgerApiProofs` holds
lemmas about the calls of `LedgerApi`, over any ledger and for any caller, and `LedgerProofs`
has one step per action of `Next` that cites them.

* The ring: a ledger is `Sound` if it is `Consecutive` and `Recorded`, that is the current
  event and the end of every transaction are numbers of events already recorded.
  `Kept(l, m)` says that a call from a sound ledger `l` left a sound ledger `m` whose
  window is `l`'s or has one more event. `RingIsWindow` alone is inductive with the types,
  but the refinement is not provable from it: `EventWindow` promises that an event's
  cause precedes it, the cause of a commit is the transaction's end, and that of
  a state update the current event, so both have to be known to be recorded. The lemmas
  rest on others about the slots of the ring (`%`), the minimum in `SelectInSeq`, and the
  sequences the window is.
* The transactions: `Books(l)` says that the id of a transaction is the number of its begin
  event, that no two have the same one, that the transaction in force is in the table, and
  of each retained event that it lies between the begin and the end of its transaction. The
  envelope alone is not inductive: an event recorded while another transaction is in force
  is told from the others by the ids being distinct. `RecordShifts` and `RecordKeepsBooks`
  carry this through one recorded event, and all calls are made of those.
* The registry: the id of an object is its place in the table and its retained events show its
  revisions in order (`OrderedById`); no two objects have the same name, and each is one the
  kernel registers or that of a transaction (`Agreement`). So closing one transaction cannot
  change what another shows.

Assumptions used: `CapacityAssumption` (the ring has at least one slot; the other
capacities are natural numbers), `OperationAssumption`, `NameAssumption` (what the
kernel registers has names that are no numbers and no transaction's),
`CallerAssumption`.

**The shell.** `TruthShellProofs` proves, for every base policy, every set of command lines,
every size of the tables and every ring:

* `ShellTypesAreCorrect` (`TypeOK`), `ShellKeepsLedgerSound` (`LedgerStaysSound`),
  `PromptIsIdle` (`NothingOpenAtPrompt`), `ConfigAlwaysMatches` (`ConfigMatchesRegistry`) and
  `PolicyRevisionAlwaysTracked` (`PolicyRevisionTracked`), from `ShellInvariantHolds`;
* `LockoutStays` (`LockoutIsPermanent`) and `NewRuleAlwaysDecides` (`NewRuleDecides`), about steps;
* `EffectsAlwaysFollowPermission` (`EffectsFollowPermission`) and `CausesAlwaysStayInCommand`
  (`CausesStayInCommand`), from `CauseInvariantHolds`;
* `RevisionRangeAlwaysJournaled` (`RevisionRangeIsJournaled`), from `TallyInvariantHolds`.

`ShellInvariant` is the conjunction of `LedgerPart` (the ledger is `Whole`, all of the above
at once; between commands nothing is open, and in one only its own transaction),
`PolicyPart` (the policy's object has been updated as often as a rule was added),
`ConfigPart` (what the objects of the two keys show) and `ShellPart` (the locals of the loop).
`LedgerStaysSound` is not inductive by itself: that the next `Commit` leaves a sound ledger
depends on what the shell holds in `job`, hence `Busy`; and no command may restore a
transaction that is not its own.

The last part of `LedgerApiProofs` restates each call as what it does to the whole ledger (`Goes`: nothing changes but the
objects named, the open transactions stay, the new events are in the transaction in
force), so that a command is a chain of calls: `Under` says the same of a whole command body, and
there is one lemma per command. A list of registrations in the boot is a recursive function; that
it exists and satisfies its equation on the list's domain is proved by the least
counterexample.

`CauseInvariant` adds `CausePart` (each event since the shell registered itself is caused by an
event of its own command, and an effect by its permission, as far as the ring still
holds the cause) and `TurnPart` (since this command began no other has, and all it recorded is in
its transaction). Neither of the two properties is inductive: they speak of retained
events only, and a new event's cause is found among them only because of what
`current` and `job.event` were when the command began.

`TallyInvariant` adds `TallyPart`, what the transactions claim. The property counts events in the
ring, and the ring forgets them, so the invariant keeps a set of numbers instead: `Tallied` says that
there is a set of events after a transaction's begin, as many as the revisions it spans, of which
the ring holds exactly those that journal a change of its target. When the ring still holds the
begin event it holds all that came after it, and the set is what the property counts
(`TalliedIsRetained`). `Spans` says of every call that the revisions it adds to an object
are journaled, and `RevisesTarget` of every command that one that fails has not changed its
target: an abort undoes nothing, so this is what keeps an aborted transaction's range empty.
The open transaction is `Unrevised` when its command starts and `Ripe` when it ends.

Assumptions used beside the ledger's: `PolicyAssumption`, `PolicyWordAssumption`, `LineAssumption`,
`LineWordAssumption` and `BootWordAssumption` (the words of the code are among those the
constants list, the capability of a rule is not named like a configuration key) and
`BootCapacityAssumption` (the registry has room for the eight objects the boot registers up
to the policy's; it has 128 places). The bound of the model is assumed to let a command
record its begin (`CommandCost >= 2`). The type of `config` names the keys the code has
and not `STRING`, of which none of the provers can show that a literal is an element.

**The prompt.** `PromptProofs`, with the lemmas about the keys in `KeyboardProofs`, proves, for every capacity of the line and of the history and any letters:

* `PromptTypeCorrect`: `Spec => []TypeOK`. The line with its final zero, the cursor, the
  entries and slots of the history stay inside their arrays.
* `LineIsAlwaysStable` and `PromptAlwaysBeginsEmpty`: the two properties of the hand-over
  between the thread and the handler.

The invariant is `PromptInvariant == TypeOK /\ Control`. `Control` says for each step of the main
thread what is known of the interrupt flag and of the line: the two properties are
about one step each, and hold there because of what the steps before did with interrupts
masked, or because the line is ready. Each key is shown once to keep a keyboard
well formed (the ...Formed lemmas), over any keyboard; `HandleFormed` adds that a
line that is ready is not touched. Assumption used: `KeyboardAssumption` (both
capacities are positive).

It also proves, from the same and `LetterAssumption` (no letter is a control key):

* `HistoryIsAlwaysRecent` (`HistoryIsRecent`) and `BrowsingAlwaysShowsHistory` (`BrowsingShowsHistory`);
* `PromptImplementsEditor`: `Spec => ImplementsEditor`, the refinement of `LineEditor`;
* `EditorInvariantHolds`, the invariant they rest on: `PromptInvariant`, the list read out of
  the ring is the newest of the lines entered, and a line that is browsed is
  the entry its number names. The list is needed because the ring forgets which slot
  is which: a remembered line moves the newest slot, and the old ones are then read
  at other distances from it (the lemmas on slots).
  `KeyEffect` says what each key does to the line, and with that which step of the editor
  it is; the main thread's steps are `Begin` or stutters.

**Memory.** `MemoryProofs` proves, for every size of page, memory and heap, every firmware map and
every set of ranges the kernel reserves:

* `MemoryTypeCorrect`, `UsableIsAlwaysRam` (`UsableIsRam`), `PagesAlwaysAccounted`
  (`PagesAccounted`), `BlocksAlwaysApart` (`BlocksAreApart`) and `LowestRunIsAlwaysGranted`
  (`LowestRunIsGranted`): all properties of the `memory` run;
* `MemoryInvariantHolds`, with `MemoryInvariant == TypeOK /\ Accounts /\ Heaped /\ BlocksAreApart`.
  `Accounts` says where every page is: not usable means used, the heap's pages are used and not
  held, and `total` counts the usable pages once and for all. `PagesAccounted` is not
  inductive without the first of these: first fit looks at `used` only.
  `Heaped` keeps the heap's pointer a multiple of 16, without which the next block is not aligned.

`UsableIsWhole` and `ReservedIsTouched` are the arithmetic of the marking: rounding
inward gives the pages all of whose bytes are in a range, rounding outward those that some byte is in,
also when the range is cut at the limit. `RoundingUp` says that `malloc`'s rounding
does not wrap for the sizes it lets pass. Assumption used: `MemoryAssumption` (a page is a multiple of
`malloc`'s unit, the memory fits a word, the reserved ranges lie in the memory).

**User mode.** `UserModeProofs` proves, for every number of processes and of free pages, every image that
may be loaded and every base policy, all properties of the `user` run:

* `UserTypesAreCorrect` (`UserTypeOK`), `UserKeepsLedgerSound` (`LedgerStaysSound`),
  `UserAlwaysRunsClean` (`UserRunsClean`), `KernelAlwaysOwnsPrompt` (`KernelOwnsPrompt`),
  `CausesAlwaysStayInDemo` (`CausesStayInDemo`) and `SpacesStayApart` (`SpacesAreApart`);
* `IsolationFaultsAreAlwaysTrue` (`IsolationFaultsAreTrue`), about steps;
* `UserInvariantHolds`, the invariant they rest on, `UserInvariant == ShellSide /\ CauseSide /\
  MemorySide /\ DemoSide`. TLC has checked its parts on the `user` run's instance.

`ShellSide` is `ShellInvariant` outside `userdemo`. Inside it that is false: a system call puts the
shell's transaction out of force and leaves its own event the current one
(`syscall_finish`, `user.c:245-254`). What is left, `DemoLedger`, is that the ledger is whole, the shell's
transaction is the only one open, and the current event is not before the command; that is
enough for `Finish` to close the command, after which `ShellInvariant` holds again.
`CauseSide` is the property of the causes over the ring as a set. `MemorySide` says where every
frame is: free, a table, or the frame of one area of one process (`Apart`); it is needed
because a demo that fails keeps the pages it took, and `SpacesAreApart` alone, which looks
only at what is reached, would let the next demo be given one of them. `DemoSide` says for
each part of the demo what runs, in which space, and that the last process reaches its
private page and nothing else (`Probed`), without which a fault could not be laid to it.

The proofs follow the code's layers. `Works(l, m, from)` says that calls begun in ledger `l`
keep it whole, touch none of the objects the shell's invariant names and record causes
no earlier than the event `from`; it is a preorder, so an operation is a chain of it. `Operates` adds
the pages and processes, and there is a lemma for each of `page_alloc`, `memory_map_process_page`,
`memory_create_address_space`, `create_process` and `load_executable`, over any machine.
`Serves` is the same for a system call whose transaction is closed again, also when there
was none to be had.

Assumptions used beside the shell's: `UserAssumption` (`build_name` makes names of no other object;
an image is a sequence of steps that ends in one that stops it) and `UserWordAssumption` (the words
of `user.c` and `memory.c` are among those the constants list).

**The screen.** `DisplayProofs` proves, for every size of the screen and of the pane, every
capacity, every banner and output, any order of the boot's stores and any keys between them:

* `DisplayTypeIsCorrect` (`TypeOK`) and `FrameAlwaysStays` (`FrameStays`), from
  `DisplayInvariantHolds`.
* `LineAlwaysShown` (`LineIsShown`) and `PromptAlwaysShown` (`PromptIsShown`), from
  `ShownInvariantHolds`.

`DisplayInvariant` adds to the types that the keyboard is well formed (`Formed`, from
`KeyboardProofs`), which mode the screen is in and what is not stored at each step (`Modes`), what of the
banner is left to print (`Printing`), where the main thread's copy of the cursor is (`Placed`): in the pane, one
column or row beyond it, or somewhere a key left it; and that a coordinate that is stored and
was in the pane's rows or columns when it was is still in them (`Follows`), because no key takes it out of
them (`Stays`), also where the other one is off the pane. That is why nothing that is printed needs
an exception: `print_char` writes a cell only after it has taken both coordinates of its copy to the pane. `TypeOK`
is not inductive, since it says nothing of the cursor during the boot, where it may stand beyond the
pane's edge and a key may come. The loops of the drawing (`LeftBy`, `EraseBy`,
`PutAll` ...) are recursive functions; `UpTo` and `StepsExist` give them their equation and the induction
over their numbers of steps, and `Stays` says of each that it starts and ends in the pane and leaves the
cells outside it alone.

What is seen is argued about in reading order: `Place` is where the cursor stands among the
pane's places, `View` what is read at each of them, and each drawing operation is shown
once to move the place and change the view (`Stands`), a scroll by lifting the view by a row
(`Risen`). `ShownInvariant` adds to `DisplayInvariant`:

* `Readied`, `Measured`: the shell runs only a line that is ready, and `rendered_length` is the
  length of the line being edited;
* `LineShown`: the line is spelled around the cursor. It needs nothing of what was on the
  screen before, since `redraw_line` writes the whole line from wherever it begins and comes back
  (`LineRedrawn`);
* unless `skewed`, `PromptShown`, that the prompt stands before the line and nothing behind
  it, and `Coming`, that between lines the pane is bare from the cursor on, or will be
  once the main thread has stored its copy (`Stored`, `Agreed`) and done what it is in the middle of. A redraw that begins at
  the end of what was drawn erases exactly the line (`PromptRedrawn`).

That a prompt and a full line never scroll out of the pane is `RoomAssumption`: 129 characters and
18 rows of 76 in the kernel.

Assumptions used: `KeyboardAssumption`, `LetterAssumption`, `ScreenAssumption`, `DisplayAssumption`,
`BannerAssumption` (the banner begins with a character) and `RoomAssumption`.

Only model-checked: liveness (`EnteredLineRuns`), which is outside the prover's reach.

## 6. What the code does and the documents do not say

* `unjournaled_policy`: after 32 transactions `transaction_begin` returns 0 and commands
  run under no transaction, policy changes included
  (`docs/contracts/POLICY-GRAMMAR-v1.md:9`).
* `denied_commits`: `meminfo`, `ls`, `cat` and `run` commit after a denial; every other
  command aborts, which is what `tests/policy_deny_test.py:101-102` expects of one.
* `stale_capability`: a rule that repeats an earlier one's subject, operation and object
  does not change the capability object (`docs/contracts/EXPAND-v1.md:3`).
* `closing_revision`: a commit or abort event shows the revision its object had before
  (`docs/contracts/OBJECT-MODEL-v1.md:5`).
* `unchecked_processes`: `userdemo` creates its processes before anything is asked of
  the policy, and reports them as allowed (`README.md:9`).

## 7. Not modelled, and the plan

Left out for good: the serial port, the loaders and processor tables, the registers a
trap saves, the texts that are printed, colours and the hardware cursor, time stamps,
the parser of `base.policy` (data that never changes), `memory_map_user_page` (called by nothing).

Known and without a property: the prefix 0xE0 that the shift codes do not clear
(`kernel/keyboard.c:200`), and the registers a fault of a user program leaves to the code
behind `user_enter_ring3` (`kernel/isr.asm:236`); `PROJECT.json` says why.

Every safety and action property the runs check is now proved. Planned, most important first:

1. What a whole command promises, as an abstract specification that `TruthShell` implements: a
   line is accepted, decided, and done or refused, and the prompt comes back.
2. The safety half of `EnteredLineRuns`: a line that is ready stays as it is until the main
   thread copies it.
