----------------------------- MODULE MCProcTable -----------------------------
(* Instances of ProcTable for TLC.                                           *)
EXTENDS ProcTable

Processes == {"fork", "exit", "wait"}
Threads == {"fork", "clone", "exit", "texit", "wait", "tsleep"}
=============================================================================
