---------------------------- MODULE StoreCrypto ----------------------------
(***************************************************************************)
(* The cryptographic envelope of internal/store/crypto.go, abstracted to   *)
(* what the store's correctness depends on.                                *)
(*                                                                         *)
(*  - Argon2id is deterministic: the key derived from a password and a     *)
(*    salt is the pair <<password, salt>> (params are always the default  *)
(*    ones, so they are left out).                                         *)
(*  - AES-256-GCM is authenticated: a ciphertext remembers the key it was  *)
(*    sealed under and its plaintext, and opens only under that key.       *)
(*    Nonces are not modelled: no property here is about ciphertext        *)
(*    equality.                                                            *)
(*  - A verification blob is the magic string sealed under the key.        *)
(***************************************************************************)
EXTENDS Naturals

CONSTANTS
  Passwords,          \* candidate master passwords (model values)
  MaxSalt,            \* bound on the number of fresh salts drawn
  VerificationMagic   \* the constant "omnivault-v1"

Salts == 1..MaxSalt
Keys  == Passwords \X Salts

\* (*Crypto).DeriveKey: argon2.IDKey(password, salt, params...).
DeriveKey(password, salt) == <<password, salt>>

\* NewCrypto(salt, params): a session on the salt, holding no key yet.  Its
\* error paths (rand.Read failing, a salt shorter than 16 bytes) are not
\* reachable with the salts the store draws or stores.
NewCrypto(salt) == [salt |-> salt]

\* (*Crypto).Unlock: keep the key derived from the password and the salt.
CryptoUnlock(c, password) == [salt |-> c.salt, key |-> DeriveKey(password, c.salt)]

\* (*Crypto).Encrypt: seal plaintext under the session key.
Encrypt(key, plaintext) == [key |-> key, pt |-> plaintext]

\* (*Crypto).Decrypt succeeds exactly when the blob was sealed under key;
\* gcm.Open fails otherwise.
CanDecrypt(key, blob) == blob.key = key
Decrypt(key, blob)    == blob.pt

\* (*Crypto).CreateVerificationBlob.
CreateVerificationBlob(key) == Encrypt(key, VerificationMagic)

\* (*Crypto).VerifyPassword: derive a temporary key from the candidate
\* password and the session salt, open the blob, compare to the magic.
\* The temporary key is zeroed by the deferred loop, so it leaves no trace.
VerifyPassword(password, salt, blob) ==
  LET key == DeriveKey(password, salt)
  IN  CanDecrypt(key, blob) /\ Decrypt(key, blob) = VerificationMagic
=============================================================================
