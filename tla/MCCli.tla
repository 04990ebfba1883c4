------------------------------- MODULE MCCli -------------------------------
(* Model-checking instances of a CLI process and another client driving *)
(* the daemon.                                                           *)
EXTENDS Cli

HealthyDisk == {"ok"}
FailingDisk == {"ok", "failed"}

\* Every request the HTTP mux routes.
AllRequests == {"init", "unlock", "lock", "list", "get", "put", "delete", "stop"}

\* The requests whose handlers hold s.mu.Lock for their whole body.
ExclusiveRequests == AllRequests \ {"list"}

\* Every command main dispatches that changes state.
AllCommands == {"init", "unlock", "lock", "get", "set", "list", "delete", "stop"}
=============================================================================
