------------------------------- MODULE Vault -------------------------------
(***************************************************************************)
(* What the encrypted store promises its callers (spec sections 4.3, 7,   *)
(* 8): a vault that is absent, locked or unlocked, protected by one master *)
(* password, holding a map from secret path to value.  Secret operations  *)
(* need the vault unlocked; unlock needs the current password; a password  *)
(* change keeps every secret and replaces the password.                    *)
(***************************************************************************)
CONSTANTS
  Passwords,    \* candidate master passwords
  Paths,        \* secret paths
  Values,       \* secret values
  Missing,      \* no secret stored at a path
  NoPassword    \* the password of a vault that does not exist

ASSUME Missing \notin Values /\ NoPassword \notin Passwords

VARIABLES vaultState, password, secrets

vars == <<vaultState, password, secrets>>

NoSecrets == [p \in Paths |-> Missing]

TypeOK ==
  /\ vaultState \in {"absent", "locked", "unlocked"}
  /\ password \in Passwords \cup {NoPassword}
  /\ secrets \in [Paths -> Values \cup {Missing}]

Init ==
  /\ vaultState = "absent"
  /\ password = NoPassword
  /\ secrets = NoSecrets

Initialize(pw) ==
  /\ vaultState = "absent"
  /\ vaultState' = "unlocked"
  /\ password' = pw
  /\ secrets' = NoSecrets

Unlock(pw) ==
  /\ vaultState = "locked"
  /\ pw = password
  /\ vaultState' = "unlocked"
  /\ UNCHANGED <<password, secrets>>

Lock ==
  /\ vaultState = "unlocked"
  /\ vaultState' = "locked"
  /\ UNCHANGED <<password, secrets>>

Set(p, v) ==
  /\ vaultState = "unlocked"
  /\ secrets' = [secrets EXCEPT ![p] = v]
  /\ UNCHANGED <<vaultState, password>>

Delete(p) ==
  /\ vaultState = "unlocked"
  /\ secrets' = [secrets EXCEPT ![p] = Missing]
  /\ UNCHANGED <<vaultState, password>>

ChangePassword(old, new) ==
  /\ vaultState = "unlocked"
  /\ old = password
  /\ password' = new
  /\ UNCHANGED <<vaultState, secrets>>

Next ==
  \/ \E pw \in Passwords : Initialize(pw) \/ Unlock(pw)
  \/ Lock
  \/ \E p \in Paths : Delete(p) \/ \E v \in Values : Set(p, v)
  \/ \E old, new \in Passwords : ChangePassword(old, new)

Spec == Init /\ [][Next]_vars
=============================================================================
