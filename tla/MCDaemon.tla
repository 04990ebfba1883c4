------------------------------ MODULE MCDaemon ------------------------------
(* Model-checking instances of the daemon over a one-secret store. *)
EXTENDS Daemon

HealthyDisk == {"ok"}
FailingDisk == {"ok", "failed"}
TearingDisk == {"ok", "failed", "torn"}

\* Every request the HTTP mux routes.
AllRequests == {"init", "unlock", "lock", "list", "get", "put", "delete", "stop"}

\* The requests whose handlers hold s.mu.Lock for their whole body.
ExclusiveRequests == AllRequests \ {"list"}

\* A daemon started beside a vault an earlier run created and left locked:
\* vault.meta for one of the passwords under the first salt, vault.enc
\* holding no secret.
ExistingPassword == CHOOSE pw \in Passwords : TRUE
ExistingMeta ==
  [salt |-> 1,
   verification |-> Store!CreateVerificationBlob(Store!DeriveKey(ExistingPassword, 1))]
ExistingVault ==
  /\ metaFile = ExistingMeta
  /\ dataFile = Store!EmptyData
  /\ meta = None /\ crypto = None /\ data = None /\ dirty = FALSE
  /\ now = 0 /\ nextSalt = 1
  /\ timers = [t \in Slots |-> IdleTimer] /\ handle = 0
  /\ sinceReset = AutoLockDuration
  /\ pc = [c \in Clients |-> "idle"]
  /\ sd = [g \in ShutdownCallers |-> "idle"]
  /\ exited = FALSE /\ listening = TRUE
ExistingVaultSpec == ExistingVault /\ [][Next]_vars /\ Fairness
=============================================================================
