------------------------------ MODULE MCLedger ------------------------------
(* A ledger small enough that its ring wraps and its tables fill.          *)
EXTENDS Ledger, TLC

MCTxName(id) == "transaction/" \o ToString(id)
MCParseId(query) == IF query = "2" THEN 2 ELSE 0
MCQueries == {"boot", "kernel", "shell", "2"}
MCOperations == {"enter", "begin", "commit", "abort", "state_update", "inspect"}
MCNames == {"events", "theme"}
MCStates == {"recording"}
MCReports == {[actor |-> "shell", target |-> "2", op |-> "inspect",
               result |-> "ok", kind |-> "query"]}
MCOwners == {[actor |-> "shell", target |-> "theme"]}
=============================================================================
