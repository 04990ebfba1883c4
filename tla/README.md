# TLA+ models of omnivault

These are TLA+ models of the omnivault secret store, checked with TLC. The
models cover:
- the encrypted local vault (`internal/store`);
- its crypto session (`internal/store/crypto.go`);
- the daemon that serves the vault over a Unix socket (`internal/daemon`,
  `src/unnamed/part_003`);
- the daemon's process lifecycle as the CLI starts and stops it
  (`cmd/omnivault/daemon.go`);
- the CLI commands that drive the daemon (`cmd/omnivault`);
- the library: the client facade, the resolver of `scheme://path#field`
  references, and the memory, env and file providers.

Every action is translated from the Go source. `PROJECT.json` maps each
definition to the lines it models, lists the runs and their mutants, and
records the findings and hazards.

## The system

| Part | Source | State | Operations |
|---|---|---|---|
| Crypto session | `src/internal/store/crypto.go` | a salt, the derived key (zeroed by `Lock`) | `NewCrypto`, `DeriveKey`/`Unlock`, `Lock`, `Encrypt`, `Decrypt`, `VerifyPassword`, `CreateVerificationBlob` |
| Encrypted store | `src/unnamed/part_002` (store.go) | the files `vault.meta` and `vault.enc`; in memory `s.meta`, `s.crypto`, `s.data`, `s.dirty`, all under `s.mu` (RWMutex) | `Initialize`, `Unlock`, `Lock`/`Close`, `Get`, `Set`, `Delete`, `List`, `Exists`, `ChangePassword`, `saveMeta`/`loadMeta`/`saveData`/`loadData` |
| Daemon | `src/unnamed/part_003` (server.go) | `s.mu` (RWMutex), `s.autoLockTimer`, the HTTP server and listener, the store | the handlers for `/status`, `/init`, `/unlock`, `/lock`, `/secrets`, `/secret/*` (GET, PUT, DELETE) and `/stop`; `resetAutoLock` and its `time.AfterFunc` callback; `Run`; `Shutdown` |
| CLI | `src/cmd/omnivault` | none of its own; the socket file and PID file it reads | `daemon start/stop/status` (spawn, `POST /stop`, kill by PID); `init`, `unlock`, `lock`, `get`, `set`, `list`, `delete`: a running check, a status check, a prompt and one HTTP call |
| Library | `src/client.go`, `src/resolver.go`, `src/providers/*`, `src/vault`, parts 008/010 | the memory provider's map and `closed` flag, the process environment, the file provider's directory, the resolver's `providers` map under `r.mu` | `NewClient`, `Client.Get/Set/Delete/Exists/List/Close` and their convenience forms, `Resolver.Register/Unregister/Close/Resolve*`, `copySecret` |

How the parts interact:
- The daemon owns one store.
- Every HTTP request runs on its own goroutine. It takes `s.mu`: shared for
  `/status` and `/secrets`, exclusive for everything else.
- It then calls the store, which takes its own `s.mu`.
- Each successful request re-arms the auto-lock timer (`resetAutoLock`). When
  the timer fires, its callback runs on another goroutine, takes `s.mu` and
  locks the store.
- `Shutdown` is called without `s.mu`, and from two goroutines:
  - from `Run`, on a signal, context cancel or `Serve` returning;
  - from the goroutine `handleStop` starts.

What makes this hard to test:
- **Disk writes.** They are plain `os.WriteFile`, so a write can fail or
  leave a truncated file.
- **Password change.** It writes two files one after the other.
- **Timer callbacks.** A callback that has already fired cannot be cancelled
  by `Stop`.
- **The secrets list.** `/secrets` re-arms the timer under a shared lock.
- **Shutdown.** It runs concurrently with request handlers.

## Modules

- **`StoreCrypto`** (crypto.go). Keys and ciphertexts are modelled by what
  they do:
  - a key is `<<password, salt>>` (Argon2id is deterministic in both);
  - a ciphertext is `[key, pt]`, and AES-GCM opens it only under the key that
    sealed it;
  - the verification blob is the magic string sealed under the key;
  - `VerifyPassword` derives a key and tries to open the blob.
  - a session is `[salt, key]`: `NewCrypto` gives the salt and
    `CryptoUnlock` (`Crypto.Unlock`) the key, as Initialize, Unlock and
    ChangePassword build `s.crypto`.
- **`Vault`** is the abstract specification: what the store promises (spec
  sections 4.3, 7 and 8). The vault is absent, locked or unlocked. It has one
  password and a map from path to value. Unlock takes exactly the current
  password. Only Set and Delete change secrets.
- **`EncryptedStore`** (store.go) models the store; each public method is one
  action because it holds `s.mu` throughout.
  - **Variables:**
    - `metaFile` and `dataFile` are the files, which may also be `NoFile` or
      `Torn`;
    - `meta`, `crypto`, `data` and `dirty` are the fields of the store;
    - `now` is the last `vault.Now()` stamp;
    - `nextSalt` counts the random salts drawn.
  - **Actions:**
    - `Initialize` and `Lock`;
    - the three outcomes of `Unlock`: `UnlockInvalidPassword`, `Unlock` and
      `UnlockLoadDataFails`;
    - `LockSaveFails`, `Set` and `Delete`;
    - `ChangePassword` and its failure paths: `ChangePasswordDecryptFails`,
      and `ChangePasswordWhileLocked`, which is the nil-pointer panic and
      ends the process;
    - `Crash`.
  - **Disk writes:** every write takes an outcome from `WriteOutcomes`:
    - `ok`;
    - `failed`: the file is unchanged;
    - `torn`: the file was truncated and then the write failed.

  The store refines `Vault` through `AbsVault == INSTANCE Vault WITH ...`:
  - **Password:** the abstract password is the one that opens the verification
    blob on disk.
  - **Secrets, unlocked:** the abstract secrets are what `Get` returns from
    `s.data`.
  - **Secrets, locked:** they are what the next `Unlock` would load from
    `vault.enc`.
- **`Daemon`** (server.go) composes the store (`Store == INSTANCE
  EncryptedStore`, over the same variables) with the server.
  - **Exclusive handlers.** A handler that holds `s.mu.Lock` for its whole
    body is one action:
    - `HandleInit`, `HandleUnlock` and `HandleLock`;
    - `HandleGet`, `HandlePut` and `HandleDelete`, for `/secret/*`.
  - **`/secrets`.** It holds only `s.mu.RLock`. Its `resetAutoLock` is
    therefore split into steps:
    - `ListBegin`: the reads;
    - `ListStop`: stop the old timer;
    - `ListArm`: arm a new timer and write `s.autoLockTimer`.
  - **Timers** live in `MaxTimers` slots. A slot is `idle`, `armed` (with the
    ticks left) or `fired` (the callback goroutine waits for `s.mu`).
    - `Tick` advances time.
    - `Fire` starts the callback of a timer that has run out.
    - `AutoLock` is the callback itself: `s.mu.Lock` and `store.Lock`.
    - `handle` is `s.autoLockTimer`.
    - `sinceReset` is a ghost variable: the ticks since the last
      `resetAutoLock`.
  - **Shutdown.** It has one program counter per calling goroutine (`sd`):
    - `Signal` and `ServeReturns` wake `Run`;
    - `HandleStop` and `StopGoroutineWakes` start the `/stop` goroutine
      (after its 100 ms sleep);
    - each goroutine then steps through `ShutdownStopTimer`,
      `ShutdownLockStore`, `ShutdownServer` (close the listener) and
      `ShutdownExit` (wait for handlers in flight, then exit the process).
- **`DaemonLifecycle`** (daemon.go, `Server.Run`/`Shutdown`,
  `Paths.CleanupSocket`). Variables: `proc` (each daemon process's life
  stage), `socketFile` and `pidFile` (which process made the file at the
  path, or `None`), `cli` (each CLI invocation's command and step).
  - daemon steps: `RunCleanup` (remove whatever is at the socket path),
    `RunListen` (bind, or fail because a file is there), `RunWritePID`,
    `RunNotify`, `Signal`, `Shutdown` (removes both paths), `Crash`;
  - CLI steps: `Invoke`, `Check` (the `IsDaemonRunning` early return),
    `Spawn` (`cmd.Start` without waiting), `Stop` (`POST /stop`, else
    `killDaemonByPID`).
- **`Cli`** (init.go, secrets.go, `daemonStop`) composes the CLI with
  the daemon (`D == INSTANCE Daemon`). `cli[u]` is the command, step and
  argument of CLI process `u`; `acked[p]` is a ghost: what the last
  `omnivault set`/`delete` of `p` reported as done (`Unknown` once a
  write's save failed or before any write).
  - CLI steps: `Invoke` (main's dispatch and the `IsDaemonRunning` early
    return), `Status` (the `GetStatus` call, then `InitProceeds` or
    `UnlockProceeds`: no vault yet for `init`, a locked vault for
    `unlock`), `Prompt` (which the user may abandon; `ReadPassword` for
    `init`/`unlock`, `Confirm` for the `[y/N]` of `delete`), then one `Send*` per command: the daemon handler it
    reaches, the error reply (`Rejected`) or a refused connection
    (`Refused`); `SendStop` falls back to `killDaemonByPID` (a signal).
    `ListBegin`/`ListStop`/`ListReply` are `/secrets` for any client.
  - `OtherRequest(c)` is any other client's single request: the steps a
    CLI takes before its request only read, so another CLI is one request.
- **`SecretRef`** (part_010): `Scheme`, `Path`, `Fragment`, `IsSecretRef`,
  `GetField` and `String` as operators over strings (sequences of
  characters), translated loop for loop: `Path` cuts at the first `#`,
  `Fragment` at the last.
- **`GoHeap`**: the Go heap of `map[string]string` values: `Alloc` of a new
  map, and `Collect`, the garbage collector freeing maps no root reaches.
  Maps are references, so two `*Secret`s can share one.
- **`MemoryProvider`**, **`EnvProvider`**, **`FileProvider`**
  (`providers/*`): each provider method that changes state is an action;
  the memory provider's `copySecret` allocates fresh `Fields` maps. The
  boolean config options (`AllowWrite`, JSON format, `ReadOnly`) are
  variables fixed in Init, so that `Library` can substitute its own.
- **`Library`** composes the three providers (one instance each, shared by
  the client `NewClient` built and by the resolver schemes it is registered
  under) with callers. A caller holds one `*Secret` (`owned`) and may write
  its `Fields` at any time. Each resolve is `ResolveBegin`, then per input
  `ResolveLookup` (the map read under `r.mu`) and `ResolveGet` (the
  unlocked `v.Get`), then `ResolveReturn` or `Fail`; `ResolveMap` takes its
  inputs in every order, as Go map iteration may. `stored` is a ghost: the
  `Fields` contents each memory `Set` stored.
- **`MCEncryptedStore`**, **`MCLibrary`**, **`MCDaemon`** and **`MCCli`** define the disk models and the
  request sets for the cfgs:
  - disk models: `HealthyDisk`, `FailingDisk` and `TearingDisk`;
  - request sets: `AllRequests`, and `ExclusiveRequests`, which leaves out
    `/secrets`.

## Runs

| Run | Disk, requests | Checks | Result |
|---|---|---|---|
| store_healthy | ok; 2 paths, 2 values, 3 salts, 3 stamps; crashes | DiskDecryptable, RefinesVault | holds |
| store_faulty_disk | ok/failed/torn; 1 value; crashes | LockKeepsPendingWrites (and reaches every load-failure path) | holds |
| store_rekey_split | ok/failed | DiskDecryptable | **violated**: ChangePassword's second save fails, leaving vault.meta on the new key and vault.enc on the old one |
| store_torn_unlock | ok/failed/torn | DirtyOnlyWhileUnlocked | **violated**: a failed Unlock locks a store holding unsaved writes |
| cli_healthy | ok; one CLI running every command, another client's exclusive requests | AckedWritesHold, AutoLockEventually | holds (332k states) |
| cli_init_fails | ok/failed; one CLI | AckedWritesHold | **violated**: `omnivault init` fails writing vault.meta but leaves the daemon unlocked; a later `omnivault set` is reported saved and is gone once `omnivault lock` runs |
| daemon_stale_callback | ok; exclusive requests | NoEarlyAutoLock | **violated**: a fired callback locks right after a reset |
| daemon_list_race | ok; all requests | SingleArmedTimer | **violated**: two `/secrets` orphan an armed timer |
| daemon_shutdown_race | ok; all requests | ShutdownLocks | **violated**: `/init` or `/unlock` served between Shutdown's lock and listener close |
| daemon_autolock_fails | ok/failed; exclusive requests; starts over an existing locked vault | AutoLockEventually | **violated**: after an unlock and writes whose saves fail, `/lock` stops the timer, `store.Lock` fails, and the vault stays unlocked forever |
| lib_healthy | one caller; all three providers; two provider configs; 3 heap maps | MemoryIsolation | holds |
| daemon_double_start | 2 daemon processes, 2 CLI invocations | SingleInstance | **violated**: two `daemon start` both find no daemon; the second daemon's `CleanupSocket` deletes the first's live socket and both end up listening |

What the properties say:
- **DiskDecryptable:** whoever can unlock the vault can read every secret on
  disk.
- **RefinesVault:** the store behaves as the abstract Vault. This covers
  crashes and restarts, an unlock with a wrong password, and a password
  change.
- **DirtyOnlyWhileUnlocked:** unsaved writes are always retried.
- **LockKeepsPendingWrites** (action property): `s.dirty` is cleared only
  by a step that wrote the map to vault.enc, or by the process dying. A
  failed or torn save keeps the writes pending, and a `Lock` whose save
  fails returns the error with the session intact. It holds on the
  tearing disk, where every durability promise above is broken by one of
  the findings.
- **AutoLockEventually** (liveness): once unlocked and idle for the auto-lock
  duration, the vault is locked, unless a request resets the timer or the
  daemon exits.
- **NoEarlyAutoLock:** an auto-lock only happens after a full idle period.
- **SingleArmedTimer:** the only armed timer is `s.autoLockTimer`. It is
  checked only in daemon_list_race: with exclusive requests alone it would
  restate `resetAutoLock`'s Stop-then-arm.
- **ShutdownLocks:** the process exits with the vault locked.
- **MemoryIsolation:** what the memory provider holds at a path is what the
  last `Set` stored, whatever callers do afterwards to the `Fields` maps of
  the secrets they passed in or got back (`copySecret`'s deep copy).
- **SingleInstance:** at most one daemon process is listening.
- **AckedWritesHold:** what `omnivault set`/`delete` reported as done is
  what the vault (unlocked, or as the next unlock would read it from disk)
  holds at that path, until the next write of the path.

Each property of a passing run has a mutant in `PROJECT.json`: a variant of
the code that TLC must then find violating it. Examples:
- `Unlock` without `VerifyPassword` breaks RefinesVault;
- `ChangePassword` that re-encrypts under the old key breaks DiskDecryptable;
- `Lock` that ignores a failed save and locks anyway breaks
  LockKeepsPendingWrites;
- `handleUnlock` without `resetAutoLock` breaks AutoLockEventually;
- `copySecret` that shares the `Fields` map breaks MemoryIsolation;
- `Delete` without its auto-save breaks AckedWritesHold.

## Bounds

**Store runs.**
- 2 paths and 2 values let secrets be distinguished and one be deleted while
  another stays.
- 3 salts allow Initialize plus two password changes, or a change that fails
  and then a retry.
- 3 stamps allow a Set, an overwrite and a third write.
- The faulty-disk run uses 1 value to stay small (34,833 states). Values matter to the
  properties only through their identity.

**Daemon runs.**
- There are 2 clients, so two `/secrets` can interleave.
- There is 1 path and 1 value.
- There is one salt: a single Initialize. The daemon has no password change.
- `AutoLockDuration = 2` ticks, so a timer can be reset while partly run down.
- Live timers:
  - `MaxTimers = 2` in the passing runs;
  - 3 in the violation runs, enough for an armed timer, a fired one and an
    orphan.

  Timer slots are reused, so the number of requests is unbounded. A request
  that would need a third live timer in the passing runs is not served.
- daemon_autolock_fails starts from a vault an earlier run left on disk
  and locked (`ExistingVaultSpec` in `MCDaemon`), so a failed `/init`
  cannot be what leaves the vault without a timer: the trace shows the
  `/lock` path.
- The daemon cfgs set `CHECK_DEADLOCK FALSE` because the process really
  stops: once exited, nothing is enabled.

**Library run.**
- One caller. A second caller makes the state space exceed TLC's reach in
  minutes; the interleavings it would add (a resolve racing `Unregister`, a
  read between the file provider's truncate and write) are listed as
  hazards without a property.
- One scheme, one path, one field name, one value: enough to tell a stored
  map from a shared one, and a reference with a field from one without.
- The inputs: a batch of a reference with a field and a non-reference, and
  a reference without a field. Texts that `IsSecretRef` accepts but are no
  reference (`localhost:8080`, here `m:aaa`), and paths containing '#',
  are left out: with `m:aaa` TLC shows `ResolveString` resolving the text
  instead of returning it unchanged, as quickstart.md promises. That is
  recorded as a hazard: no run slot is free for its violation run.
- Two configs: (env writable, JSON files, writable) and (env read-only,
  plain files, read-only), so every error path of the env and file
  providers is reached.
- 3 heap references, with a garbage collector so they are reused.
- A `VIEW` leaves out `ret` and the caller's finished-call record, which no
  guard or property reads; `SYMMETRY` over heap references is sound because
  references are only compared for equality.

**CLI runs.**
- One CLI process is followed step by step, and a second client sends
  single requests. Two full CLI processes exceed 5 million states. The
  second client stands for every other CLI, whose steps before its request
  only read the daemon.
- The other client sends only the requests that hold `s.mu` exclusively:
  two concurrent `/secrets` already break SingleArmedTimer (daemon_list_race),
  so with them no timer property of the passing run could hold.
- The passing run has a healthy disk. On a failing disk AckedWritesHold is
  broken by the Initialize bug that cli_init_fails shows, and
  AutoLockEventually by the failed lock that daemon_autolock_fails shows.
- AutoLockEventually is checked here, with the daemon's fairness, rather
  than in a daemon-only run: the CLI's `list` still lets a `/secrets`
  reader hold `s.mu` against the auto-lock callback. Two concurrent
  readers starving the callback are not in a passing run.
- The other bounds are those of the daemon runs (1 path, 1 value, 2
  passwords so an unlock can be wrong).

**Lifecycle run.** Two daemon processes and two CLI invocations: the
smallest instance with two starts.

## Fairness

`Daemon.Spec` assumes:
- weak fairness of `Tick` (time passes);
- weak fairness of `Fire` (the Go runtime runs a due timer);
- strong fairness of `AutoLock`: the callback waits for `s.mu`, which
  `/secrets` readers take intermittently, and Go's `sync.Mutex` starvation
  mode eventually hands it over;
- weak fairness of the later steps of `/secrets` and of every Shutdown step
  (goroutines that have started run on);
- weak fairness of `ServeReturns`: `Serve` returns once the listener is
  closed.

Clients, CLI processes and signals get no fairness: nobody has to send a
request, and a CLI waits for a person at its prompt.

## Not modelled

**Left out, and why:**
- **Read-only operations.** `handleStatus`, and every error reply that changes
  no state, are stutter steps.
- **Shutdown inside a handler.** A handler is one step even when it makes
  several store calls. `Shutdown`'s `store.Lock` does not take the daemon's
  `s.mu`, so it could fall between `IsLocked` and `Set`. That would only turn
  a 403 into a 500.
- **Initialize retries.** A failed Initialize cannot be retried in the daemon
  runs (one salt).
- **Two `/stop` requests.** A second `/stop` while the first sleeps (a second
  `/stop` goroutine) is left out.
- **Crypto details.** Argon2 parameters, nonces, base64 and JSON layout are
  abstracted away.
- **Other code.**
  - CLI argument parsing, output formatting and `cmdStatus` (read-only);
    the Windows process helpers (`setSysProcAttr`, `signalProcess`).
  - `vault/errors.go`: the sentinel errors are model values (`ErrClosed`,
    `ErrSecretNotFound`, `ErrReadOnly`, ...). `VaultError` only adds the
    operation, path and provider name to the message. No code under `src/`
    tests a wrapped error with `errors.Is`, so the wrapper changes nothing a
    property can observe.
  - `constants.go`: only the `env`, `file` and `memory` provider names are
    used (`EnvP`, `FileP`, `MemP`). The other names have no provider under
    `src/`.
  - The crypto getters (`Salt`, `Params`, `IsUnlocked`), the default Argon2
    parameters, and `Crypto.Lock`'s zeroing of the key bytes.
  - The resolver's config-path helpers are path arithmetic.
  - `Metadata.Extra` and the timestamp pointers that `copySecret` shares are
    not in the heap model; `ValueBytes` is never set in the library run.
- **ChangePassword's panic.** ChangePassword on a locked store panics on a nil
  session. The model keeps that path as an action, but no property is spent
  on it: one call shows it.

## Plan

1. **Done:** crypto, the encrypted store with its refinement to `Vault`, the
   daemon with its timers and shutdown, the daemon lifecycle, the CLI
   commands over the daemon, and the
   library (providers, client facade, resolver).
2. **Open, for want of a run slot:** all twelve runs are in use, and each
   violation run backs a finding. The hazards listed without a property need
   a run of their own:
   - RefinesVault on a failing disk without ChangePassword, which would catch
     `Unlock` of an unlocked store discarding writes whose save failed;
   - a recoverability property for a torn `vault.meta`;
   - `ResolveString` on a text `IsSecretRef` wrongly takes for a
     reference, and a reference whose path contains '#';
   - a second library caller under tighter bounds, for the resolver and
     file-write interleavings;
   - the CLI over a failing disk once the Initialize bug is fixed.
