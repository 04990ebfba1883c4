--------------------------- MODULE EncryptedStore ---------------------------
(***************************************************************************)
(* internal/store: EncryptedStore (store.go) with its Crypto session.     *)
(*                                                                         *)
(* Every exported method runs entirely under s.mu (Lock or RLock), so each *)
(* call is one atomic step here.  The read-only methods (Get, Exists,      *)
(* List, SecretCount, IsLocked) change no state and are operators, not     *)
(* actions.  Disk writes (os.WriteFile) may fail before truncating the     *)
(* file ("failed": file unchanged) or after ("torn": a partial file that   *)
(* no longer parses); the outcomes the model may pick are WriteOutcomes.  *)
(* A Crash wipes process memory and leaves the disk as it is.             *)
(***************************************************************************)
EXTENDS Naturals, FiniteSets, StoreCrypto

CONSTANTS
  Paths,          \* secret paths
  Values,         \* secret values (Secret.Value)
  MaxTime,        \* bound on vault.Now() stamps, i.e. on the number of Sets
  WriteOutcomes,  \* subset of {"ok", "failed", "torn"}
  None,           \* a nil pointer (s.crypto, s.meta, s.data)
  NoFile,         \* a file that does not exist
  Torn,           \* a file left half-written by a failed os.WriteFile
  Missing,        \* no entry for a path in VaultData.Secrets
  NoTime,         \* a nil Metadata.CreatedAt
  NoPassword,     \* the password of a vault that does not exist
  Unreadable      \* a stored secret the current key cannot open

ASSUME WriteOutcomes \subseteq {"ok", "failed", "torn"} /\ "ok" \in WriteOutcomes
ASSUME MaxTime \in Nat /\ MaxSalt \in Nat

VARIABLES
  metaFile,    \* vault.meta on disk: a VaultMeta, NoFile or Torn
  dataFile,    \* vault.enc on disk: a VaultData.Secrets map, NoFile or Torn
  meta,        \* s.meta
  crypto,      \* s.crypto: None or [salt, key]; a non-nil one always has a key
  data,        \* s.data.Secrets, or None
  dirty,       \* s.dirty
  now,         \* the last vault.Now() stamp handed out
  nextSalt     \* number of random salts drawn so far

vars == <<metaFile, dataFile, meta, crypto, data, dirty, now, nextSalt>>

Stamps     == 1..MaxTime
Plaintexts == [value : Values, created : Stamps]
Blobs      == [key : Keys, pt : Plaintexts]
DataMaps   == [Paths -> Blobs \cup {Missing}]
MetaRecs   == [salt : Salts, verification : [key : Keys, pt : {VerificationMagic}]]

EmptyData == [p \in Paths |-> Missing]

\* The file content after os.WriteFile(path, new) with the given outcome.
Written(old, new, outcome) ==
  CASE outcome = "ok"     -> new
    [] outcome = "failed" -> old
    [] outcome = "torn"   -> Torn

\* saveData: write s.data; s.dirty is cleared only when the write succeeded.
SaveData(d, dirtyBefore) ==
  \E o \in WriteOutcomes :
    /\ dataFile' = Written(dataFile, d, o)
    /\ dirty' = IF o = "ok" THEN FALSE ELSE dirtyBefore

\* s.crypto = c without calling s.crypto.Lock() first (key buffers and
\* their zeroing are not modelled).
ReplaceCrypto(c) == crypto' = c

\* Memory of a process that has just started (NewEncryptedStore).
FreshMemory ==
  /\ meta' = None
  /\ crypto' = None
  /\ data' = None
  /\ dirty' = FALSE

TypeOK ==
  /\ metaFile \in MetaRecs \cup {NoFile, Torn}
  /\ dataFile \in DataMaps \cup {NoFile, Torn}
  /\ meta \in MetaRecs \cup {None}
  /\ crypto \in [salt : Salts, key : Keys] \cup {None}
  /\ data \in DataMaps \cup {None}
  /\ dirty \in BOOLEAN
  /\ now \in 0..MaxTime
  /\ nextSalt \in 0..MaxSalt

Init ==
  /\ metaFile = NoFile
  /\ dataFile = NoFile
  /\ meta = None
  /\ crypto = None
  /\ data = None
  /\ dirty = FALSE
  /\ now = 0
  /\ nextSalt = 0
-----------------------------------------------------------------------------
(* Operations *)

\* Initialize: refused when vault.meta exists.  A fresh salt and key; the
\* metadata and an empty data map are saved, metadata first.  The store is
\* left unlocked even when a save fails.
Initialize(pw) ==
  /\ metaFile = NoFile
  /\ nextSalt < MaxSalt
  /\ LET salt == nextSalt + 1
         key  == DeriveKey(pw, salt)
         m    == [salt |-> salt, verification |-> CreateVerificationBlob(key)]
     IN /\ nextSalt' = salt
        /\ meta' = m
        /\ data' = EmptyData
        /\ ReplaceCrypto(CryptoUnlock(NewCrypto(salt), pw))
        /\ \E mo \in WriteOutcomes :
             /\ metaFile' = Written(metaFile, m, mo)
             /\ IF mo = "ok" THEN SaveData(EmptyData, dirty)
                             ELSE UNCHANGED <<dataFile, dirty>>
  /\ UNCHANGED now

\* Unlock with a password the stored verification blob rejects: loadMeta
\* has already replaced s.meta; nothing else changes.
UnlockInvalidPassword(pw) ==
  /\ metaFile \notin {NoFile, Torn}
  /\ ~VerifyPassword(pw, metaFile.salt, metaFile.verification)
  /\ meta' = metaFile
  /\ UNCHANGED <<metaFile, dataFile, crypto, data, dirty, now, nextSalt>>

\* Variant of Unlock that skips VerifyPassword.
UnlockNoVerify(pw) ==
  /\ metaFile \notin {NoFile, Torn}
  /\ dataFile # Torn
  /\ meta' = metaFile
  /\ ReplaceCrypto(CryptoUnlock(NewCrypto(metaFile.salt), pw))
  /\ data' = IF dataFile = NoFile THEN EmptyData ELSE dataFile
  /\ UNCHANGED <<metaFile, dataFile, dirty, now, nextSalt>>

\* Unlock with the right password: s.crypto is replaced by a session on
\* the stored salt and vault.enc is loaded (an absent file is an empty
\* vault).  s.dirty is left as it was.
Unlock(pw) ==
  /\ metaFile \notin {NoFile, Torn}
  /\ VerifyPassword(pw, metaFile.salt, metaFile.verification)
  /\ dataFile # Torn
  /\ meta' = metaFile
  /\ ReplaceCrypto(CryptoUnlock(NewCrypto(metaFile.salt), pw))
  /\ data' = IF dataFile = NoFile THEN EmptyData ELSE dataFile
  /\ UNCHANGED <<metaFile, dataFile, dirty, now, nextSalt>>

\* Unlock whose loadData fails on an unparsable vault.enc: the new session
\* is locked and dropped, s.data keeps whatever it held.
UnlockLoadDataFails(pw) ==
  /\ metaFile \notin {NoFile, Torn}
  /\ VerifyPassword(pw, metaFile.salt, metaFile.verification)
  /\ dataFile = Torn
  /\ meta' = metaFile
  /\ ReplaceCrypto(None)
  /\ UNCHANGED <<metaFile, dataFile, data, dirty, now, nextSalt>>

\* Lock: a dirty map is saved first; then the key is zeroed and the
\* decrypted state dropped.  Locking a locked store is a no-op.
Lock ==
  /\ crypto # None
  /\ \/ ~dirty /\ UNCHANGED dataFile
     \/ dirty /\ dataFile' = data
  /\ crypto' = None
  /\ data' = None
  /\ dirty' = FALSE
  /\ UNCHANGED <<metaFile, meta, now, nextSalt>>

\* Variant of LockSaveFails that ignores the save error and locks anyway.
LockIgnoringSaveError ==
  /\ crypto # None
  /\ dirty
  /\ \E o \in WriteOutcomes \ {"ok"} : dataFile' = Written(dataFile, data, o)
  /\ crypto' = None
  /\ data' = None
  /\ dirty' = FALSE
  /\ UNCHANGED <<metaFile, meta, now, nextSalt>>

\* Lock whose save of the dirty map fails: it returns the error and the
\* store stays unlocked.
LockSaveFails ==
  /\ crypto # None
  /\ dirty
  /\ \E o \in WriteOutcomes \ {"ok"} : dataFile' = Written(dataFile, data, o)
  /\ UNCHANGED <<metaFile, meta, crypto, data, dirty, now, nextSalt>>

\* Metadata.CreatedAt the caller may hand to Set for path p: nil (what the
\* daemon always passes) or the one read back from the stored secret.
CallerCreatedAt(p) ==
  {NoTime} \cup
    IF crypto # None /\ data[p] # Missing /\ CanDecrypt(crypto.key, data[p])
    THEN {Decrypt(crypto.key, data[p]).created} ELSE {}

\* Set: stamp CreatedAt when the caller left it nil, encrypt under the
\* session key, store, mark dirty and auto-save.
Set(p, v, c) ==
  /\ crypto # None
  /\ now < MaxTime
  /\ LET stamp   == now + 1
         created == IF c = NoTime THEN stamp ELSE c
         d       == [data EXCEPT ![p] = Encrypt(crypto.key,
                                         [value |-> v, created |-> created])]
     IN /\ now' = stamp
        /\ data' = d
        /\ SaveData(d, TRUE)
  /\ UNCHANGED <<metaFile, meta, crypto, nextSalt>>

\* Variant of Delete that drops the entry but never calls autoSave.
DeleteNoSave(p) ==
  /\ crypto # None
  /\ data' = [data EXCEPT ![p] = Missing]
  /\ UNCHANGED <<metaFile, dataFile, meta, crypto, dirty, now, nextSalt>>

\* Delete: drop the entry (a missing one is fine), mark dirty, auto-save.
Delete(p) ==
  /\ crypto # None
  /\ LET d == [data EXCEPT ![p] = Missing]
     IN /\ data' = d
        /\ SaveData(d, TRUE)
  /\ UNCHANGED <<metaFile, meta, crypto, now, nextSalt>>

\* ChangePassword on an unlocked store whose current session cannot open
\* some stored secret: the new session is locked and the error returned.
ChangePasswordDecryptFails(old, new) ==
  /\ crypto # None
  /\ VerifyPassword(old, crypto.salt, meta.verification)
  /\ nextSalt < MaxSalt
  /\ \E p \in Paths : data[p] # Missing /\ ~CanDecrypt(crypto.key, data[p])
  /\ nextSalt' = nextSalt + 1
  /\ UNCHANGED <<metaFile, dataFile, meta, crypto, data, dirty, now>>

\* Variant of ChangePassword that re-encrypts the secrets under the old key.
ChangePasswordOldKeyData(old, new) ==
  /\ crypto # None
  /\ VerifyPassword(old, crypto.salt, meta.verification)
  /\ nextSalt < MaxSalt
  /\ \A p \in Paths : data[p] # Missing => CanDecrypt(crypto.key, data[p])
  /\ LET salt   == nextSalt + 1
         newKey == DeriveKey(new, salt)
         m      == [salt |-> salt, verification |-> CreateVerificationBlob(newKey)]
         d      == [p \in Paths |-> IF data[p] = Missing THEN Missing
                                    ELSE Encrypt(crypto.key, Decrypt(crypto.key, data[p]))]
     IN /\ nextSalt' = salt
        /\ meta' = m
        /\ data' = d
        /\ crypto' = CryptoUnlock(NewCrypto(salt), new)
        /\ \E mo \in WriteOutcomes :
             /\ metaFile' = Written(metaFile, m, mo)
             /\ IF mo = "ok" THEN SaveData(d, dirty)
                             ELSE UNCHANGED <<dataFile, dirty>>
  /\ UNCHANGED <<now>>

\* ChangePassword: verify the old password against s.meta with the current
\* session, re-encrypt every secret under a key from a fresh salt, switch
\* s.meta, s.data and s.crypto (the old key is zeroed), then save the
\* metadata and, if that worked, the data.
ChangePassword(old, new) ==
  /\ crypto # None
  /\ VerifyPassword(old, crypto.salt, meta.verification)
  /\ nextSalt < MaxSalt
  /\ \A p \in Paths : data[p] # Missing => CanDecrypt(crypto.key, data[p])
  /\ LET salt   == nextSalt + 1
         newKey == DeriveKey(new, salt)
         m      == [salt |-> salt, verification |-> CreateVerificationBlob(newKey)]
         d      == [p \in Paths |-> IF data[p] = Missing THEN Missing
                                    ELSE Encrypt(newKey, Decrypt(crypto.key, data[p]))]
     IN /\ nextSalt' = salt
        /\ meta' = m
        /\ data' = d
        /\ crypto' = CryptoUnlock(NewCrypto(salt), new)
        /\ \E mo \in WriteOutcomes :
             /\ metaFile' = Written(metaFile, m, mo)
             /\ IF mo = "ok" THEN SaveData(d, dirty)
                             ELSE UNCHANGED <<dataFile, dirty>>
  /\ UNCHANGED <<now>>

\* ChangePassword on a store with no session: s.crypto.VerifyPassword
\* dereferences the nil *Crypto and the process dies of the panic.
ChangePasswordWhileLocked ==
  /\ crypto = None
  /\ FreshMemory
  /\ UNCHANGED <<metaFile, dataFile, now, nextSalt>>

\* The process is killed; memory is gone, the files stay.
Crash ==
  /\ FreshMemory
  /\ UNCHANGED <<metaFile, dataFile, now, nextSalt>>

Next ==
  \/ \E pw \in Passwords :
       \/ Initialize(pw)
       \/ UnlockInvalidPassword(pw)
       \/ Unlock(pw)
       \/ UnlockLoadDataFails(pw)
  \/ Lock
  \/ LockSaveFails
  \/ \E p \in Paths :
       \/ Delete(p)
       \/ \E v \in Values, c \in CallerCreatedAt(p) : Set(p, v, c)
  \/ \E old, new \in Passwords :
       \/ ChangePassword(old, new)
       \/ ChangePasswordDecryptFails(old, new)
  \/ ChangePasswordWhileLocked
  \/ Crash

Spec == Init /\ [][Next]_vars
-----------------------------------------------------------------------------
(* Refinement: the store implements the abstract Vault.  The abstract     *)
(* password is the one the on-disk verification blob accepts; the secrets *)
(* are what Get would return: from s.data under the session key while     *)
(* unlocked, and what the next Unlock would load from vault.enc while      *)
(* locked.                                                                 *)

DiskKey  == metaFile.verification.key
DiskData == IF dataFile = NoFile THEN EmptyData ELSE dataFile

\* Get(p) for every path of map d opened with key.
ViewOf(d, key) ==
  [p \in Paths |-> IF d[p] = Missing THEN Missing
                   ELSE IF CanDecrypt(key, d[p]) THEN Decrypt(key, d[p]).value
                   ELSE Unreadable]

AbsState ==
  IF metaFile = NoFile THEN "absent"
  ELSE IF crypto = None THEN "locked" ELSE "unlocked"

AbsPassword ==
  IF metaFile \in {NoFile, Torn} THEN NoPassword ELSE DiskKey[1]

AbsSecrets ==
  IF crypto # None THEN ViewOf(data, crypto.key)
  ELSE IF metaFile \in {NoFile, Torn} THEN EmptyData
  ELSE IF dataFile = Torn THEN [p \in Paths |-> Unreadable]
  ELSE ViewOf(DiskData, DiskKey)

AbsVault == INSTANCE Vault WITH
  vaultState <- AbsState, password <- AbsPassword, secrets <- AbsSecrets
-----------------------------------------------------------------------------
(* Properties *)

\* Every secret in vault.enc opens under the key that vault.meta's
\* verification blob accepts: whoever can unlock the vault can read all of
\* it.  ChangePassword rewrites both files with two separate saves
\* (store.go ChangePassword), so this is what a half-done re-key breaks.
DiskDecryptable ==
  (metaFile \in MetaRecs /\ dataFile \in DataMaps) =>
    \A p \in Paths : dataFile[p] # Missing => CanDecrypt(DiskKey, dataFile[p])

\* The store implements the abstract Vault: unlock takes exactly the
\* current password, secrets change only by Set and Delete, and a password
\* change, a lock, a crash and a restart keep every secret readable.
RefinesVault == AbsVault!Spec

\* Writes that are not on disk yet (s.dirty) are only ever held by an
\* unlocked store, whose next Set, Delete or Lock saves them again (spec
\* section 5: "auto-save will retry on next successful mutation or at
\* lock").  A locked store never saves, so dirty data there is lost.
DirtyOnlyWhileUnlocked == dirty => crypto # None

\* s.dirty is cleared only by a step that wrote the map it guarded to
\* vault.enc, or by the process dying with its memory.  A save that fails
\* or tears (saveData's os.WriteFile in Set, Delete, Lock, Initialize and
\* ChangePassword) leaves the writes pending, and Lock returns the error
\* instead of zeroing the session (store.go Lock, saveData).
LockKeepsPendingWrites ==
  [][dirty /\ ~dirty' => dataFile' \in {data, data'} \/ meta' = None]_vars
======================================================================================================================================================
