----------------------------- MODULE MCUserMode -----------------------------
(* userdemo under the kernel's own base policy and the rules that matter to  *)
(* it, with as many free pages as none, each part's worth, and plenty.       *)
EXTENDS MCTruthShell, UserMode

UserRules ==
  { Rule(FALSE, "shell", "process:load", "/bin/hello"),
    Rule(FALSE, "*", "syscall:yield", "*") }

MCUserLines ==
  { Say("userdemo") }
  \cup { [SayOf("policy", IF rule.allow THEN "allow" ELSE "deny") EXCEPT !.rule = <<rule>>]
           : rule \in UserRules }

MCProcessName(pid) == "process/" \o ToString(pid)
MCThreadName(pid) == "thread/" \o ToString(pid)
MCSpaceName(pid) == "address_space/" \o ToString(pid)

\* A failed lookup, an unknown call, faults on the kernel's memory and on a write to
\* the code, and an exception that is none.
MCOtherPrograms ==
  { << Step("config_get", "kernel"), Step("unknown", "kernel"), Step("read", "kernel") >>,
    << Step("write", "stack"), Step("write", "code") >>,
    << Step("read", "code"), Step("exception", "kernel") >> }

\* A demo takes 16 pages: 5 for each space, 2 for the image, 2 for its tables, 1
\* for the probe and 1 for its table.  One count for each that may be the one
\* missing, one that ends in the next demo, and plenty.
MCFrameCounts == {9, 11, 12, 13, 14, 15, 40}

MCUserNames ==
  MCNames \cup { MCCapabilityName(rule) : rule \in UserRules }
  \cup UNION { {MCProcessName(pid), MCThreadName(pid), MCSpaceName(pid)}
                 : pid \in 1..ProcessCap }

MCUserQueries == MCQueries \cup {"page_tables", "userdemo"}

MCUserStates == MCStates \cup {"created", "runnable"}

MCUserOperations ==
  MCOperations
  \cup {"address_space_create", "map_virtual", "process_create", "thread_create",
        "user_transition_scaffold", "load_executable", "map_private_page", "switch_cr3",
        "enter_cpl3", "cpl3_trap", "yield", "schedule", "config_get", "config_set",
        "unknown_syscall", "page_fault", "isolation_fault"}
=============================================================================
