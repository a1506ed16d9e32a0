---------------------------- MODULE MCTruthShell ----------------------------
(* The kernel's own base policy, and lines that exercise every command, its *)
(* denials and its misuse.                                                  *)
EXTENDS TruthShell

Rule(allow, subject, operation, object) ==
  [allow |-> allow, subject |-> subject, operation |-> operation, object |-> object]

\* policy/base.policy.
MCBaseRules ==
  << Rule(TRUE, "boot", "enter", "kernel"), Rule(TRUE, "kernel", "initialize", "interrupts"),
     Rule(FALSE, "cpu", "exception", "kernel"), Rule(TRUE, "shell", "inspect", "*"),
     Rule(TRUE, "shell", "expand", "*"), Rule(TRUE, "shell", "history", "*"),
     Rule(TRUE, "shell", "why", "*"), Rule(TRUE, "shell", "filesystem:list", "ramfs"),
     Rule(TRUE, "shell", "filesystem:lookup", "*"), Rule(TRUE, "shell", "filesystem:read", "*"),
     Rule(TRUE, "shell", "module:load", "*"), Rule(TRUE, "shell", "memory:inspect", "memory"),
     Rule(TRUE, "shell", "ui:clear", "window"), Rule(TRUE, "shell", "ui:redraw", "window"),
     Rule(TRUE, "shell", "config:get", "*"), Rule(TRUE, "shell", "config:set", "*"),
     Rule(TRUE, "shell", "policy:show", "policy/base.policy"),
     Rule(TRUE, "shell", "policy:change", "policy/base.policy"),
     Rule(TRUE, "shell", "process:load", "/bin/hello"),
     Rule(TRUE, "*", "syscall:inspect", "*"), Rule(TRUE, "*", "syscall:yield", "*"),
     Rule(TRUE, "*", "syscall:config_get", "*") >>

NewRules ==
  { Rule(TRUE, "shell", "kernel:reboot", "kernel"),
    Rule(FALSE, "shell", "memory:inspect", "memory"),
    Rule(FALSE, "shell", "*", "policy/base.policy") }

\* An attempt to regain what the last rule above withdraws.
Regain == Rule(TRUE, "*", "policy:change", "*")

MCCapabilityName(rule) ==
  "capability/" \o rule.subject \o "/" \o rule.operation \o "/" \o rule.object
MCCapabilityState(allow, number, revision) ==
  (IF allow THEN "allow rule " ELSE "deny rule ") \o ToString(number)
    \o " rev " \o ToString(revision)

Say(verb) == [NoLine EXCEPT !.verb = verb]
SayOf(verb, arg) == [NoLine EXCEPT !.verb = verb, !.arg = arg]

MCLines ==
  { Say(verb) : verb \in {"", "help", "clear", "window", "meminfo", "ls", "cat",
                          "deny-policy", "fault"} }
  \cup { SayOf("cat", "/none"), SayOf("cat", "/README.TXT"), SayOf("run", "/bin/hello"),
         SayOf("run", "/modules/MEMORY.MOD"), SayOf("get", "/none"),
         SayOf("get", "/config/theme"), SayOf("set", "/config/theme"),
         SayOf("policy", "show"), SayOf("policy", "allow"), SayOf("inspect", "22") }
  \cup { [SayOf("set", key) EXCEPT !.value = "dark"] : key \in {"/config/theme", "/none"} }
  \cup { [SayOf("policy", IF rule.allow THEN "allow" ELSE "deny") EXCEPT !.rule = <<rule>>]
           : rule \in NewRules }
  \cup { [SayOf("why", "tx ") EXCEPT !.tx = 2] }

\* Only the lines that change or ask the policy, for longer sequences of them.
PolicyLines ==
  { line \in MCLines : \/ line.rule # << >>
                       \/ line.verb \in {"deny-policy", "meminfo"}
                       \/ line.arg = "show" }
  \cup { [SayOf("policy", "allow") EXCEPT !.rule = <<Regain>>] }

MCTxName(id) == "transaction/" \o ToString(id)
MCParseId(query) == IF query = "22" THEN 22 ELSE 0

MCNames ==
  {"system", "boot", "memory", "interrupts", "ramfs", "shell", "events", ThePolicy,
   "page_allocator", "heap", "/config", "scheduler", "user_transition"}
  \cup Files \cup DOMAIN FirstConfig
  \cup { MCCapabilityName(rule) : rule \in Range(MCBaseRules) \cup NewRules \cup {Regain} }

MCQueries ==
  {"boot", "kernel", "shell", "policy", "config", "cpu", "object", "window"}
  \cup { line.verb : line \in MCLines } \cup { line.arg : line \in MCLines }

MCStates ==
  {"booting", "entered kernel", "initializing", "pending", "recording", "ready",
   "loading", "loaded", "allow-added", "deny-added", "read-only", "cooperative",
   "scaffold-ready", "light", "dark", ">"}
  \cup { MCCapabilityState(allow, number, revision) :
           allow \in BOOLEAN, number \in 1..25, revision \in 1..4 }

MCOperations ==
  {"enter", "begin", "commit", "abort", "state_update", "policy_check", "load",
   "allocate", "allocate_pages", "parse_multiboot", "initialize", "command", "clear",
   "redraw", "inspect", "list", "lookup", "read", "type_check", "get", "set", "policy_show",
   "allow", "deny", "expand", "why", "history", "reboot", "fault_injection",
   "exception"}
=============================================================================
