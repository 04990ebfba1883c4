-------------------------- MODULE MCEncryptedStore --------------------------
(* Model-checking instance of EncryptedStore. *)
EXTENDS EncryptedStore

\* The write outcomes of a healthy disk, and of one that can fail.
HealthyDisk == {"ok"}
FailingDisk == {"ok", "failed"}
TearingDisk == {"ok", "failed", "torn"}
=============================================================================
