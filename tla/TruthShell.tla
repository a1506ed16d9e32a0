----------------------------- MODULE TruthShell -----------------------------
(***************************************************************************)
(* The kernel's main thread, kernel_main of src/kernel/main.c: the boot    *)
(* sequence, then the shell, which runs each line as a transaction of the  *)
(* ledger whose effects the policy has allowed.  It composes LedgerApi,    *)
(* Policy, the configuration store (config.c) and the file table           *)
(* (ramfs.c).  The body of userdemo is in UserMode.tla.                    *)
(*                                                                         *)
(* The thread is the only one to touch this state: interrupt handlers fill *)
(* the line buffer (Prompt.tla) and count ticks.  A line is taken apart by *)
(* Accept, its body run by the action of its verb, and its transaction     *)
(* closed by Finish.                                                       *)
(***************************************************************************)
EXTENDS Policy

CONSTANTS
  Lines,        \* the lines typed at the shell
  TestVerbs,    \* the commands test builds add: some of "fault", "deny-policy"
  CommandCost   \* bound of the model: a command records at most this many events

Line == [verb : STRING, arg : STRING,  \* the argument, a key or a policy verb; "" for none
         value : STRING,               \* what follows the key of set; "" for none
         rule : Seq(Rules),            \* the rule of policy allow and deny, if complete
         tx : Nat]                     \* N of "why tx N", whose arg is "tx "

ASSUME LineAssumption ==
  /\ Lines \subseteq Line
  /\ TestVerbs \subseteq {"fault", "deny-policy"}
  /\ CommandCost \in Nat /\ CommandCost >= 2
  /\ MaxSeq >= 2

NoLine == [verb |-> "", arg |-> "", value |-> "", rule |-> << >>, tx |-> 0]
NoJob == [line |-> NoLine, tx |-> 0, event |-> 0, ok |-> FALSE]

\* The configuration store's keys (config.c) and the file table (ramfs.c).
FirstConfig == [key \in {"/config/theme", "/config/prompt"} |->
                  IF key = "/config/theme" THEN "light" ELSE ">"]

Modules == {"/modules/ABOUT.MOD", "/modules/MEMORY.MOD"}
Files == {"/README.TXT", "/bin/hello"} \cup Modules

\* What a line's command event and transaction name as their target.
Target(line) ==
  IF line.verb = "policy" THEN ThePolicy
  ELSE IF line.verb = "userdemo" THEN "scheduler"
  ELSE IF line.verb = "why" /\ line.arg = "tx " THEN TxName(line.tx)
  ELSE IF line.arg = "" THEN line.verb ELSE line.arg

\* What the lines say is among what the constants of the ledger list, and so are
\* the capabilities of the rules they add; their names begin with "capability/".
ASSUME LineWordAssumption ==
  /\ \A line \in Lines :
       /\ {line.verb, line.arg, Target(line)} \subseteq Labels
       /\ line.value \in States \cup {""}
       /\ \A i \in DOMAIN line.rule : CapabilityName(line.rule[i]) \in Names \ DOMAIN FirstConfig
  /\ \A i \in DOMAIN BaseRules : CapabilityName(BaseRules[i]) \notin DOMAIN FirstConfig
  /\ \A allow \in BOOLEAN, number \in 1..RuleCap,
       revision \in BaseRevision..(BaseRevision + RuleCap - Len(BaseRules)) :
         CapabilityState(allow, number, revision) \in States

\* The words of main.c, memory.c, ramfs.c, config.c and user.c's start.
ASSUME BootWordAssumption ==
  /\ {"system", "boot", "memory", "interrupts", "ramfs", "shell", "events",
      "page_allocator", "heap", "/config", "scheduler", "user_transition"}
       \cup Files \cup DOMAIN FirstConfig \subseteq Names
  /\ {"kernel", "config", "window", "cpu"} \subseteq Labels
  /\ {"booting", "entered kernel", "initializing", "pending", "recording", "ready",
      "read-only", "light", ">", "cooperative", "scaffold-ready"} \subseteq States
  /\ {"enter", "allocate", "allocate_pages", "parse_multiboot", "initialize", "command",
      "clear", "redraw", "inspect", "list", "lookup", "read", "type_check", "get", "set",
      "policy_show", "expand", "why", "history", "reboot", "fault_injection",
      "exception"} \subseteq Operations

\* The registry has room for the objects of EnterKernel and for the policy.
ASSUME BootCapacityAssumption == ObjCap >= 8

VARIABLES ledger, policy, config,
          phase,   \* the boot step or the part of the shell loop to come
          job      \* the locals of one turn of the loop: the line, the transaction,
                   \* the command event, and transaction_ok

vars == <<ledger, policy, config, phase, job>>

BootPhases == {"enter", "policy", "memory", "ramfs", "config", "user", "interrupts",
               "shell"}

TypeOK ==
  /\ ledger \in LedgerType
  /\ policy \in [rules : Seq(Rules), revision : Nat]
  /\ config \in [DOMAIN FirstConfig -> States]
  /\ phase \in BootPhases \cup {"prompt", "execute", "finish", "panicked", "halted"}
  /\ job \in [line : Lines \cup {NoLine}, tx : Nat, event : Nat, ok : BOOLEAN]

Init ==
  /\ ledger = EmptyLedger
  /\ policy = [rules |-> << >>, revision |-> 0]
  /\ config = FirstConfig
  /\ phase = "enter"
  /\ job = NoJob

(***************************************************************************)
(* Boot.  Each action is one call of kernel_main and the ready state it    *)
(* gives; event 1 is the current event throughout.                         *)
(***************************************************************************)
Announce(l, actor, target, op, result) ==
  Record(l, Report(actor, target, op, result, l.current, "action"))

EnterKernel ==
  /\ phase = "enter" /\ phase' = "policy"
  /\ LET entered == SetCurrent(Announce(ledger, "boot", "kernel", "enter", "ok"), 1)
     IN  ledger' = RegisterAll(Register(entered, "system", 0, "booting", 1), 1,
                     << <<"boot", "entered kernel">>, <<"memory", "initializing">>,
                        <<"interrupts", "pending">>, <<"ramfs", "pending">>,
                        <<"shell", "pending">>, <<"events", "recording">> >>)
  /\ UNCHANGED <<policy, config, job>>

LoadPolicy ==
  /\ phase = "policy" /\ phase' = "memory"
  /\ ledger' = PolicyInit(ledger)
  /\ policy' = BasePolicy
  /\ UNCHANGED <<config, job>>

RegisterMemory(l) ==
  RegisterAll(l, ObjectId(l, "memory"),
              << <<"page_allocator", "initializing">>, <<"heap", "initializing">> >>)

StartMemory ==
  /\ phase = "memory" /\ phase' = "ramfs"
  /\ LET granted == Announce(RegisterMemory(ledger), "memory", "page_allocator",
                             "allocate", "ok")
         ready == UpdateState(UpdateState(granted, "page_allocator", "ready"),
                              "heap", "ready")
         heap == Announce(ready, "memory", "heap", "allocate_pages", "ok")
         map == Announce(heap, "memory", "memory", "parse_multiboot", "ok")
     IN  ledger' = UpdateState(map, "memory", "ready")
  /\ UNCHANGED <<policy, config, job>>

\* memory_init finds no memory map, a bad entry, or no room for the heap: ASSERT.
FailMemory ==
  /\ phase = "memory" /\ phase' = "panicked"
  /\ \/ ledger' = Announce(ledger, "memory", "memory", "parse_multiboot", "fault")
     \/ ledger' = Announce(RegisterMemory(ledger), "memory", "memory",
                           "parse_multiboot", "fault")
     \/ ledger' = Announce(Announce(RegisterMemory(ledger), "memory", "page_allocator",
                                    "allocate", "denied"),
                           "memory", "heap", "allocate_pages", "fault")
  /\ UNCHANGED <<policy, config, job>>

\* ramfs_init refuses no file: the table is part of the image.
StartRamfs ==
  /\ phase = "ramfs" /\ phase' = "config"
  /\ LET listed == RegisterAll(ledger, ObjectId(ledger, "ramfs"),
                     << <<"/README.TXT", "read-only">>,
                        <<"/modules/ABOUT.MOD", "read-only">>,
                        <<"/modules/MEMORY.MOD", "read-only">>,
                        <<"/bin/hello", "read-only">> >>)
     IN  ledger' = UpdateState(Announce(listed, "ramfs", "ramfs", "initialize", "ok"),
                               "ramfs", "ready")
  /\ UNCHANGED <<policy, config, job>>

StartConfig ==
  /\ phase = "config" /\ phase' = "user"
  /\ LET named == Register(ledger, "/config", ObjectId(ledger, "system"), "ready",
                           ledger.current)
         keyed == RegisterAll(named, ObjectId(named, "/config"),
                    << <<"/config/theme", config["/config/theme"]>>,
                       <<"/config/prompt", config["/config/prompt"]>> >>)
     IN  ledger' = Announce(keyed, "config", "/config", "initialize", "ok")
  /\ UNCHANGED <<policy, config, job>>

StartUser ==
  /\ phase = "user" /\ phase' = "interrupts"
  /\ LET scheduler == Register(ledger, "scheduler", ObjectId(ledger, "system"),
                               "cooperative", ledger.current)
         ready == Register(scheduler, "user_transition", ObjectId(scheduler, "scheduler"),
                           "scaffold-ready", ledger.current)
     IN  ledger' = Record(ready, Report("scheduler", "scheduler", "initialize", "ok",
                                        ledger.current, "state"))
  /\ UNCHANGED <<policy, config, job>>

StartInterrupts ==
  /\ phase = "interrupts" /\ phase' = "shell"
  /\ ledger' = Announce(UpdateState(ledger, "interrupts", "ready"),
                        "boot", "interrupts", "initialize", "ok")
  /\ UNCHANGED <<policy, config, job>>

StartShell ==
  /\ phase = "shell" /\ phase' = "prompt"
  /\ ledger' = UpdateState(ledger, "shell", "ready")
  /\ UNCHANGED <<policy, config, job>>

Boot == \/ EnterKernel \/ LoadPolicy \/ StartMemory \/ FailMemory \/ StartRamfs
        \/ StartConfig \/ StartUser \/ StartInterrupts \/ StartShell

(***************************************************************************)
(* A turn of the shell loop: the command event and its transaction.        *)
(***************************************************************************)
Accept ==
  /\ phase = "prompt" /\ phase' = "execute"
  /\ ledger.next + CommandCost <= MaxSeq + 1
  /\ \E line \in Lines :
       LET command == ledger.next
           noted == Record(ledger, Report("shell", Target(line), "command", "ok",
                                          ledger.current, "command"))
           tx == BeginResult(noted)
           begun == Begin(noted, "shell", Target(line), command)
       IN  /\ ledger' = SetTx(SetCurrent(begun, IF tx = 0 THEN command ELSE tx), tx)
           /\ job' = [line |-> line, tx |-> tx, event |-> command, ok |-> tx # 0]
  /\ UNCHANGED <<policy, config>>

\* Seeded faults: the ledger keeps the closed transaction; keeps its event as the
\* current one; a command that failed leaves its transaction open.
CloseJobLate(l, tx, ok) == SetCurrent(IF ok THEN Commit(l, tx) ELSE Abort(l, tx), 1)
CloseJobLinked(l, tx, ok) == SetTx(IF ok THEN Commit(l, tx) ELSE Abort(l, tx), 0)
CloseJobOpen(l, tx, ok) == SetCurrent(SetTx(IF ok THEN Commit(l, tx) ELSE l, 0), 1)

\* The end of the turn; transaction_commit and transaction_abort find no
\* transaction 0, which the code does not ask them to close.
CloseJob(l, tx, ok) ==
  SetCurrent(SetTx(IF ok THEN Commit(l, tx) ELSE Abort(l, tx), 0), 1)

Finish ==
  /\ phase = "finish" /\ phase' = "prompt"
  /\ ledger' = CloseJob(ledger, job.tx, job.ok)
  /\ job' = NoJob
  /\ UNCHANGED <<policy, config>>

(***************************************************************************)
(* The bodies of the commands.                                             *)
(***************************************************************************)
Running(verb) == phase = "execute" /\ job.line.verb = verb

Completes(l, ok) ==
  /\ ledger' = l
  /\ phase' = "finish"
  /\ job' = [job EXCEPT !.ok = @ /\ ok]

Permitted(target, operation) == Allowed(policy, "shell", target, operation)
Check(l, target, operation) == PolicyCheck(policy, l, "shell", target, operation)

\* Seeded fault: the effect is recorded whatever was decided.
CheckedAlways(l, target, operation, actor, op, kind) ==
  Record(Check(l, target, operation), Report(actor, target, op, "ok", l.next, kind))

\* A policy check and, if it allows, the effect it is the cause of.
Checked(l, target, operation, actor, op, kind) ==
  LET decided == Check(l, target, operation)
  IN  IF Permitted(target, operation)
      THEN Record(decided, Report(actor, target, op, "ok", l.next, kind))
      ELSE decided

\* help, time and events report and leave no trace.
Tell ==
  /\ phase = "execute" /\ job.line.verb \in {"help", "time", "events"}
  /\ Completes(ledger, TRUE)
  /\ UNCHANGED <<policy, config>>

\* clear and window.
Draw ==
  /\ \/ /\ Running("clear")
        /\ Completes(Checked(ledger, "window", "ui:clear", "shell", "clear", "state"),
                     Permitted("window", "ui:clear"))
     \/ /\ Running("window")
        /\ Completes(Checked(ledger, "window", "ui:redraw", "shell", "redraw", "state"),
                     Permitted("window", "ui:redraw"))
  /\ UNCHANGED <<policy, config>>

\* show_meminfo, which a module may run too.
ShowMeminfo(l) == Checked(l, "memory", "memory:inspect", "memory", "inspect", "state")

\* The functions of meminfo, ls, cat and run return nothing: these commands
\* commit even when they were denied or found nothing.
Meminfo ==
  /\ Running("meminfo")
  /\ Completes(ShowMeminfo(ledger), TRUE)
  /\ UNCHANGED <<policy, config>>

ListFiles ==
  /\ Running("ls")
  /\ Completes(Checked(ledger, "ramfs", "filesystem:list", "ramfs", "list", "state"), TRUE)
  /\ UNCHANGED <<policy, config>>

\* ramfs_lookup, caused by the decision that allowed it.
Lookup(l, path, decision) ==
  Record(l, Report("ramfs", path, "lookup",
                   IF path \in Files THEN "ok" ELSE "denied", decision, "state"))

Fetch(path, operation, Use(_)) ==
  LET decided == Check(ledger, path, operation)
      looked == Lookup(decided, path, ledger.next)
  IN  IF ~Permitted(path, operation) THEN decided
      ELSE IF path \in Files THEN Use(looked) ELSE looked

\* print_file.
Cat ==
  /\ Running("cat") /\ job.line.arg # ""
  /\ LET path == job.line.arg
         read(l) == Record(l, Report("ramfs", path, "read", "ok", ledger.next, "state"))
     IN  Completes(Fetch(path, "filesystem:read", read), TRUE)
  /\ UNCHANGED <<policy, config>>

\* run_module; of the modules in the image only MEMORY.MOD runs a command that
\* the ledger sees, and none is too large.
RunModule ==
  /\ Running("run") /\ job.line.arg # ""
  /\ LET path == job.line.arg
         say(l, op, result, kind) ==
           Record(l, Report("ramfs", path, op, result, ledger.next, kind))
         load(l) ==
           IF path \notin Modules THEN say(l, "type_check", "denied", "policy")
           ELSE IF path = "/modules/MEMORY.MOD"
           THEN ShowMeminfo(say(l, "read", "ok", "state"))
           ELSE say(l, "read", "ok", "state")
     IN  Completes(Fetch(path, "module:load", load), TRUE)
  /\ UNCHANGED <<policy, config>>

\* show_config.
ShowConfig ==
  /\ Running("get") /\ job.line.arg # ""
  /\ LET key == job.line.arg
         found == key \in DOMAIN config
         got == Report("config", key, "get", IF found THEN "ok" ELSE "denied",
                       ledger.next, "state")
         decided == Check(ledger, key, "config:get")
     IN  IF Permitted(key, "config:get")
         THEN Completes(Record(decided, got), found)
         ELSE Completes(decided, FALSE)
  /\ UNCHANGED <<policy, config>>

\* Seeded fault: the stored value changes and its object does not.
ConfigureQuietly(l, key, value, decision) ==
  Record(l, Report("config", key, "set",
                   IF key \in DOMAIN config THEN "ok" ELSE "denied", decision, "state"))

\* config_set and the event of set_config, caused by the decision.
Configure(l, key, value, decision) ==
  LET said(result) == Report("config", key, "set", result, decision, "state")
      updated == UpdateState(SetCurrent(l, decision), key, value)
  IN  IF key \in DOMAIN config
      THEN Record(SetCurrent(updated, l.current), said("ok"))
      ELSE Record(l, said("denied"))

\* set_config; without a value it only prints its usage.
SetConfig ==
  /\ Running("set") /\ job.line.arg # ""
  /\ LET key == job.line.arg
         value == job.line.value
         decided == Check(ledger, key, "config:set")
         stored == value # "" /\ Permitted(key, "config:set") /\ key \in DOMAIN config
     IN  /\ config' = IF stored THEN [config EXCEPT ![key] = value] ELSE config
         /\ Completes(IF value = "" THEN ledger
                      ELSE IF Permitted(key, "config:set")
                      THEN Configure(decided, key, value, ledger.next)
                      ELSE decided, stored)
  /\ UNCHANGED policy

\* run_policy_command: show.
ShowPolicy ==
  /\ Running("policy") /\ job.line.arg = "show"
  /\ Completes(Checked(ledger, ThePolicy, "policy:show", "shell", "policy_show", "query"),
               Permitted(ThePolicy, "policy:show"))
  /\ UNCHANGED <<policy, config>>

\* run_policy_command: no operation, an unknown one, or an incomplete rule.
MisusePolicy ==
  /\ Running("policy") /\ job.line.arg # "show" /\ job.line.rule = << >>
  /\ Completes(ledger, FALSE)
  /\ UNCHANGED <<policy, config>>

\* Seeded fault: a change needs no permission.
MayChangeAlways == TRUE

MayChange == Permitted(ThePolicy, "policy:change")

\* run_policy_command: allow and deny with a rule.
ChangePolicy ==
  /\ Running("policy") /\ job.line.rule # << >>
  /\ LET rule == job.line.rule[1]
         decided == Check(ledger, ThePolicy, "policy:change")
         changed == ChangeRule(policy, SetCurrent(decided, ledger.next), rule)
     IN  IF MayChange
         THEN /\ policy' = ChangedPolicy(policy, rule)
              /\ Completes(SetCurrent(changed, decided.current), RoomForRule(policy))
         ELSE policy' = policy /\ Completes(decided, FALSE)
  /\ UNCHANGED config

QueryVerbs == {"inspect", "expand", "why", "history"}

Query ==
  /\ phase = "execute" /\ job.line.verb \in QueryVerbs /\ job.line.arg # ""
  /\ LET verb == job.line.verb
         target == Target(job.line)
     IN  Completes(Checked(ledger, target, verb, "shell", verb, "query"),
                   Permitted(target, verb))
  /\ UNCHANGED <<policy, config>>

\* Test builds: a request no base rule covers, and a fault the kernel halts on.
DenyPolicy ==
  /\ Running("deny-policy") /\ "deny-policy" \in TestVerbs
  /\ Completes(Checked(ledger, "kernel", "kernel:reboot", "shell", "reboot", "state"),
               Permitted("kernel", "kernel:reboot"))
  /\ UNCHANGED <<policy, config>>

Fault ==
  /\ Running("fault") /\ "fault" \in TestVerbs
  /\ phase' = "halted"
  /\ LET injected == Record(ledger, Report("shell", "kernel", "fault_injection", "fault",
                                           job.event, "action"))
     IN  ledger' = Record(injected, Report("cpu", "kernel", "exception", "fault", 0,
                                           "action"))
  /\ UNCHANGED <<policy, config, job>>

\* The commands of the chain of comparisons; some are recognised only with an argument.
Recognised(line) ==
  \/ line.verb \in {"help", "time", "events", "clear", "window", "meminfo", "ls", "policy",
                   "userdemo"}
  \/ line.verb \in {"cat", "run", "get", "set"} \cup QueryVerbs /\ line.arg # ""
  \/ line.verb \in TestVerbs

Unknown ==
  /\ phase = "execute" /\ ~Recognised(job.line)
  /\ Completes(Record(ledger, Report("shell", job.line.verb, "command", "denied",
                                     job.event, "action")), FALSE)
  /\ UNCHANGED <<policy, config>>

Execute == \/ Tell \/ Draw \/ Meminfo \/ ListFiles \/ Cat \/ RunModule \/ ShowConfig
           \/ SetConfig \/ ShowPolicy \/ MisusePolicy \/ ChangePolicy \/ Query
           \/ DenyPolicy \/ Fault \/ Unknown

\* The loops of hlt: at the prompt until a line is ready, in panic_impl and after
\* a CPU exception for ever.  Nowhere else does the thread wait, so a state
\* without a step is a deadlock.
Wait ==
  /\ phase \in {"prompt", "panicked", "halted"}
  /\ UNCHANGED vars

Next == Boot \/ Accept \/ Execute \/ Finish \/ Wait

Spec == Init /\ [][Next]_vars

(***************************************************************************)
(* Properties.                                                             *)
(***************************************************************************)
window == Retained(ledger)

\* Commands come after the last event of the boot, which readies the shell.
BootEnd == ledger.objects[ObjectIndex(ledger, "shell")].last
Commanded(event) == phase \in {"prompt", "execute", "finish", "halted"} /\ event.seq > BootEnd
IsCommand(event) == event.kind = "command"

\* Whatever calls the commands compose, they leave the ring, the transactions
\* and the registry in the agreement the ledger promises a well-behaved caller:
\* the shell and policy_init are such callers (main.c:412-559, policy.c:227-245).
LedgerStaysSound ==
  Consecutive(ledger) /\ Enveloped(ledger) /\ ClosedAgree(ledger) /\ Ordered(ledger)

\* No command leaves anything behind for the next: at the prompt every
\* transaction is closed, and events would belong to none and be caused by the
\* boot (main.c:551-559).
NothingOpenAtPrompt ==
  phase = "prompt" =>
    /\ ledger.tx = 0 /\ ledger.current = 1
    /\ \A k \in DOMAIN ledger.txs : ledger.txs[k].status # "open"

\* An event tells of an effect or of a query only as the child of a decision that
\* allowed it on the same object; a denial found later hangs from it as well
\* (README.md:9; main.c:116-341, 421-527).
EffectsFollowPermission ==
  \A i \in DOMAIN window :
    LET event == window[i]
        effect == \/ event.kind \in {"state", "query"}
                  \/ event.kind = "policy" /\ event.op # "policy_check"
    IN  Commanded(event) /\ effect =>
          \A j \in DOMAIN window :
            window[j].seq = event.parent =>
              /\ window[j].op = "policy_check" /\ window[j].result = "ok"
              /\ window[j].target = event.target

\* The cause of an event is in the same command, also when the table of
\* transactions is full: a command is caused by the boot, and an event of a
\* transaction by another of it or by the command itself (main.c:412-416, 559).
CausesStayInCommand ==
  \A i \in DOMAIN window :
    LET event == window[i]
    IN  Commanded(event) /\ event.op # "exception" =>
          IF IsCommand(event) THEN event.parent = 1
          ELSE \A j \in DOMAIN window :
                 /\ IsCommand(window[j]) /\ window[j].seq < event.seq
                      => window[j].seq <= event.parent
                 /\ window[j].seq = event.parent =>
                      window[j].tx = event.tx \/ IsCommand(window[j])

\* Once the keys are registered, what the store holds is what the registry shows,
\* and every change of a key is a revision of its object (config.c:59-70).
ConfigMatchesRegistry ==
  \A key \in DOMAIN config :
    Known(ledger, key) =>
      LET object == ledger.objects[ObjectIndex(ledger, key)]
      IN  object.state = config[key] /\ (object.rev = 1 => config[key] = FirstConfig[key])

\* The policy's revision, its number of rules and the revision of its object
\* advance together, a full table included (policy.c:271-304).
PolicyRevisionTracked ==
  policy.revision # 0 =>
    /\ policy.revision - BaseRevision = Len(policy.rules) - Len(BaseRules)
    /\ Revision(ledger, ThePolicy) = policy.revision - BaseRevision + 2

\* The revisions a transaction spans are the state updates it journaled on its
\* target: none if it aborted (event.c:183-223, main.c:174-254).
RevisionRangeIsJournaled ==
  \A k \in DOMAIN ledger.txs :
    LET t == ledger.txs[k]
        updates == {i \in DOMAIN window : /\ window[i].tx = t.id
                                           /\ window[i].target = t.target
                                           /\ window[i].op = "state_update"}
    IN  /\ t.status = "aborted" => t.committed = t.started
        /\ t.status = "committed" /\ (\E i \in DOMAIN window : window[i].seq = t.begin) =>
             t.committed = t.started + Cardinality(updates)

\* A shell denied policy:change can never regain it: no later command changes the
\* policy (policy.c:338-360, main.c:243-247).
LockoutIsPermanent ==
  [][ policy.revision # 0 /\ ~Permitted(ThePolicy, "policy:change")
        => policy' = policy ]_vars

\* A rule that is added decides at once the request it spells, whatever the rules
\* before it said, and every other request is decided as before
\* (policy.c:281-288, 346-354).
NewRuleDecides ==
  [][ phase = "execute" /\ policy' # policy =>
        LET rule == policy'.rules[Len(policy'.rules)]
        IN  /\ Allowed(policy', rule.subject, rule.object, rule.operation) = rule.allow
            /\ \A known \in {policy.rules[i] : i \in DOMAIN policy.rules} :
                 ~Covers(rule, known.subject, known.object, known.operation) =>
                   Allowed(policy', known.subject, known.object, known.operation)
                     = Allowed(policy, known.subject, known.object, known.operation) ]_vars

(***************************************************************************)
(* What the documents and the tests say, and the code does not do.         *)
(***************************************************************************)
\* POLICY-GRAMMAR-v1.md:9: the policy changes only through a journaled transaction.
PolicyChangesAreJournaled ==
  [][ phase = "execute" /\ policy' # policy => ledger.tx # 0 ]_vars

\* tests/policy_deny_test.py:101-102: a denied request aborts its transaction.
DeniedCommandsAbort ==
  \A i \in DOMAIN window, k \in DOMAIN ledger.txs :
    LET event == window[i]
    IN  event.op = "policy_check" /\ event.result = "denied" /\ event.tx = ledger.txs[k].id
          => ledger.txs[k].status # "committed"

\* EXPAND-v1.md:3: an object shows its current state.  A capability's is the effect
\* and the number of the rule that last granted or withdrew it.
CapabilityShowsItsRule ==
  \A i \in DOMAIN policy.rules :
    LET name == CapabilityName(policy.rules[i])
        last == \A j \in (i + 1)..Len(policy.rules) : CapabilityName(policy.rules[j]) # name
    IN  last /\ Known(ledger, name) =>
          \E revision \in 1..policy.revision :
            ledger.objects[ObjectIndex(ledger, name)].state =
              CapabilityState(policy.rules[i].allow, i, revision)

\* OBJECT-MODEL-v1.md:5: an event records the revision it gives an object.
ClosingEventShowsRevision ==
  \A i \in DOMAIN window :
    window[i].op \in {"commit", "abort"} =>
      window[i].rev = Revision(ledger, window[i].target)
=============================================================================
