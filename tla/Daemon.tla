------------------------------- MODULE Daemon -------------------------------
(***************************************************************************)
(* internal/daemon: the Server (server.go) that owns one EncryptedStore,   *)
(* serves HTTP requests on concurrent goroutines, auto-locks the store     *)
(* with a time.AfterFunc timer and shuts down on a signal or /stop.        *)
(*                                                                         *)
(* The store is the EncryptedStore module over the same variables; each    *)
(* store call is one of its actions.  Handlers that hold s.mu.Lock for     *)
(* their whole body are one atomic step.  handleSecrets holds only         *)
(* s.mu.RLock, so its resetAutoLock interleaves with other lists: it is    *)
(* three steps (begin, stop the old timer, arm a new one).  Shutdown and   *)
(* the timer goroutines run concurrently with everything.                  *)
(*                                                                         *)
(* Time is abstract: Tick counts the remaining ticks of every armed timer  *)
(* down and the ticks since the last resetAutoLock up (saturating at the   *)
(* auto-lock duration).  Requests that need no state change (status, and   *)
(* every error reply that changes nothing) are stutter steps and omitted.  *)
(***************************************************************************)
EXTENDS Naturals, Sequences, FiniteSets

CONSTANTS
  Passwords, MaxSalt, VerificationMagic, Paths, Values, MaxTime,
  WriteOutcomes, None, NoFile, Torn, Missing, NoTime, NoPassword, Unreadable,
  Clients,           \* client processes, each with one request at a time
  Requests,          \* the requests clients may send
  AutoLockDuration,  \* autoLockDuration, in ticks
  MaxTimers          \* bound on the timers alive (armed or fired) at once

ASSUME Requests \subseteq {"init", "unlock", "lock", "list", "get", "put",
                           "delete", "stop"}
ASSUME AutoLockDuration \in Nat \ {0} /\ MaxTimers \in Nat

VARIABLES
  metaFile, dataFile, meta, crypto, data, dirty, now, nextSalt,
  timers,      \* timer slots: [rem : ticks left, status]; a slot whose
               \* timer was stopped or has run is "idle" and reused
  handle,      \* s.autoLockTimer: a slot, 0 for nil
  sinceReset,  \* ticks since the last resetAutoLock (ghost)
  pc,          \* per client: "idle" or where its handleSecrets is
  sd,          \* per goroutine that may call Shutdown ("run": Run's
               \* select, "stop": handleStop's goroutine): where it is
  exited,      \* the process has exited
  listening    \* the HTTP server still accepts requests

storeVars == <<metaFile, dataFile, meta, crypto, data, dirty, now, nextSalt>>
timerVars == <<timers, handle, sinceReset>>
procVars == <<sd, exited, listening>>
vars == <<storeVars, timerVars, pc, procVars>>

Store == INSTANCE EncryptedStore

ShutdownCallers == {"run", "stop"}

TimerStatus == {"idle", "armed", "fired"}

Slots == 1..MaxTimers

IdleTimer == [rem |-> 0, status |-> "idle"]

TypeOK ==
  /\ Store!TypeOK
  /\ timers \in [Slots -> [rem : 0..AutoLockDuration, status : TimerStatus]]
  /\ handle \in 0..MaxTimers
  /\ sinceReset \in 0..AutoLockDuration
  /\ pc \in [Clients -> {"idle", "listStop", "listArm"}]
  /\ sd \in [ShutdownCallers -> {"idle", "sleeping", "stopTimer", "lockStore",
                                  "serverShutdown", "waitIdle", "done"}]
  /\ exited \in BOOLEAN
  /\ listening \in BOOLEAN

Init ==
  /\ Store!Init
  /\ timers = [t \in Slots |-> IdleTimer]
  /\ handle = 0
  /\ sinceReset = AutoLockDuration
  /\ pc = [c \in Clients |-> "idle"]
  /\ sd = [g \in ShutdownCallers |-> "idle"]
  /\ exited = FALSE
  /\ listening = TRUE
-----------------------------------------------------------------------------
(* The auto-lock timer *)

\* (*time.Timer).Stop: prevents an armed timer from firing; a timer whose
\* function has already been started is not affected.
Stopped(ts, t) ==
  IF t # 0 /\ ts[t].status = "armed" THEN [ts EXCEPT ![t] = IdleTimer] ELSE ts

\* The slots free for a new timer in ts, and the one time.AfterFunc takes.
FreeSlots(ts) == {t \in Slots : ts[t].status = "idle"}
NewSlot(ts) == CHOOSE t \in FreeSlots(ts) : \A u \in FreeSlots(ts) : t <= u

\* ts with a fresh timer armed in slot t.
Armed(ts, t) == [ts EXCEPT ![t] = [rem |-> AutoLockDuration, status |-> "armed"]]

\* resetAutoLock: stop s.autoLockTimer, arm a fresh time.AfterFunc and
\* store it in s.autoLockTimer.  At MaxTimers live timers the model
\* serves no further request that would arm one.
ResetAutoLock ==
  LET ts == Stopped(timers, handle)
  IN /\ FreeSlots(ts) # {}
     /\ timers' = Armed(ts, NewSlot(ts))
     /\ handle' = NewSlot(ts)
     /\ sinceReset' = 0

\* store.Lock() as the daemon calls it: a no-op when already locked.
StoreLock ==
  \/ crypto = None /\ UNCHANGED storeVars
  \/ Store!Lock
  \/ Store!LockSaveFails

\* No goroutine holds s.mu (readers are the clients inside handleSecrets;
\* writers finish within one step).
MuFree == \A c \in Clients : pc[c] = "idle"

\* A request r is read by a handler goroutine.
Accepts(c, r) == r \in Requests /\ listening /\ pc[c] = "idle"
-----------------------------------------------------------------------------
(* Handlers holding s.mu.Lock *)

\* handleInit: 409 when the vault exists; otherwise Initialize and, if it
\* returned nil, resetAutoLock.
HandleInit(c, pw) ==
  /\ Accepts(c, "init") /\ MuFree
  /\ metaFile = NoFile
  /\ Store!Initialize(pw)
  /\ IF metaFile' = meta' /\ dataFile' = Store!EmptyData
     THEN ResetAutoLock ELSE UNCHANGED timerVars
  /\ UNCHANGED <<pc, procVars>>

\* Variant of handleUnlock that does not call resetAutoLock.
HandleUnlockNoReset(c, pw) ==
  /\ Accepts(c, "unlock") /\ MuFree
  /\ metaFile # NoFile
  /\ \/ Store!Unlock(pw) /\ UNCHANGED timerVars
     \/ (Store!UnlockInvalidPassword(pw) \/ Store!UnlockLoadDataFails(pw))
        /\ UNCHANGED timerVars
  /\ UNCHANGED <<pc, procVars>>

\* handleUnlock: 404 without a vault; store.Unlock; resetAutoLock on success.
HandleUnlock(c, pw) ==
  /\ Accepts(c, "unlock") /\ MuFree
  /\ metaFile # NoFile
  /\ \/ Store!Unlock(pw) /\ ResetAutoLock
     \/ (Store!UnlockInvalidPassword(pw) \/ Store!UnlockLoadDataFails(pw))
        /\ UNCHANGED timerVars
  /\ UNCHANGED <<pc, procVars>>

\* handleLock: stop s.autoLockTimer (the handle is kept), then store.Lock.
HandleLock(c) ==
  /\ Accepts(c, "lock") /\ MuFree
  /\ timers' = Stopped(timers, handle)
  /\ StoreLock
  /\ UNCHANGED <<handle, sinceReset, pc, procVars>>

\* handleSecret GET: 403 when locked, 404 for a missing path, 500 when the
\* secret does not decrypt; a secret returned resets the timer.
HandleGet(c, p) ==
  /\ Accepts(c, "get") /\ MuFree
  /\ crypto # None
  /\ data[p] # Missing
  /\ Store!CanDecrypt(crypto.key, data[p])
  /\ ResetAutoLock
  /\ UNCHANGED <<storeVars, pc, procVars>>

\* handleSecret PUT: setSecret builds a fresh vault.Secret (CreatedAt nil)
\* and calls store.Set; resetAutoLock only when Set returned nil.
HandlePut(c, p, v) ==
  /\ Accepts(c, "put") /\ MuFree
  /\ Store!Set(p, v, NoTime)
  /\ IF ~dirty' THEN ResetAutoLock ELSE UNCHANGED timerVars
  /\ UNCHANGED <<pc, procVars>>

\* handleSecret DELETE: store.Delete; resetAutoLock when it returned nil.
HandleDelete(c, p) ==
  /\ Accepts(c, "delete") /\ MuFree
  /\ Store!Delete(p)
  /\ IF ~dirty' THEN ResetAutoLock ELSE UNCHANGED timerVars
  /\ UNCHANGED <<pc, procVars>>
-----------------------------------------------------------------------------
(* handleSecrets, under s.mu.RLock *)

\* RLock, the IsLocked check, List and the Gets (all reads).  A timer is
\* reserved for every list in flight so that none is stuck at the bound.
ListBegin(c) ==
  /\ Accepts(c, "list")
  /\ crypto # None
  /\ Cardinality(FreeSlots(timers)) > Cardinality({d \in Clients : pc[d] # "idle"})
  /\ pc' = [pc EXCEPT ![c] = "listStop"]
  /\ UNCHANGED <<storeVars, timerVars, procVars>>

\* resetAutoLock, first half: Stop whatever s.autoLockTimer holds now.
ListStop(c) ==
  /\ pc[c] = "listStop"
  /\ timers' = Stopped(timers, handle)
  /\ pc' = [pc EXCEPT ![c] = "listArm"]
  /\ UNCHANGED <<storeVars, handle, sinceReset, procVars>>

\* resetAutoLock, second half: arm a new timer, overwrite s.autoLockTimer,
\* write the reply and RUnlock.
ListArm(c) ==
  /\ pc[c] = "listArm"
  /\ timers' = Armed(timers, NewSlot(timers))
  /\ handle' = NewSlot(timers)
  /\ sinceReset' = 0
  /\ pc' = [pc EXCEPT ![c] = "idle"]
  /\ UNCHANGED <<storeVars, procVars>>
-----------------------------------------------------------------------------
(* Timers, time and shutdown *)

\* The runtime starts the AfterFunc goroutine of a timer that ran out.
Fire(t) ==
  /\ ~exited
  /\ timers[t].status = "armed" /\ timers[t].rem = 0
  /\ timers' = [timers EXCEPT ![t].status = "fired"]
  /\ UNCHANGED <<storeVars, handle, sinceReset, pc, procVars>>

\* The AfterFunc goroutine: s.mu.Lock, store.Lock (an error is logged).
AutoLock(t) ==
  /\ ~exited
  /\ timers[t].status = "fired"
  /\ MuFree
  /\ timers' = [timers EXCEPT ![t] = IdleTimer]
  /\ StoreLock
  /\ UNCHANGED <<handle, sinceReset, pc, procVars>>

Tick ==
  /\ ~exited
  /\ timers' = [t \in Slots |->
                  IF timers[t].status = "armed" /\ timers[t].rem > 0
                  THEN [timers[t] EXCEPT !.rem = @ - 1] ELSE timers[t]]
  /\ sinceReset' = IF sinceReset < AutoLockDuration THEN sinceReset + 1
                   ELSE sinceReset
  /\ UNCHANGED <<storeVars, handle, pc, procVars>>

\* Run's select wakes on ctx.Done or SIGINT/SIGTERM and calls Shutdown.
Signal ==
  /\ ~exited
  /\ sd["run"] = "idle"
  /\ sd' = [sd EXCEPT !["run"] = "stopTimer"]
  /\ UNCHANGED <<storeVars, timerVars, pc, exited, listening>>

\* Serve returns http.ErrServerClosed once a Shutdown has closed the
\* listener; Run's select takes it and calls Shutdown as well.
ServeReturns ==
  /\ ~exited
  /\ sd["run"] = "idle"
  /\ ~listening
  /\ sd' = [sd EXCEPT !["run"] = "stopTimer"]
  /\ UNCHANGED <<storeVars, timerVars, pc, exited, listening>>

\* handleStop: reply, then start a goroutine that sleeps 100ms (requests
\* are still served meanwhile) before calling Shutdown.
HandleStop(c) ==
  /\ Accepts(c, "stop")
  /\ sd["stop"] = "idle"
  /\ sd' = [sd EXCEPT !["stop"] = "sleeping"]
  /\ UNCHANGED <<storeVars, timerVars, pc, exited, listening>>

\* The /stop goroutine wakes from its sleep and calls Shutdown.
StopGoroutineWakes ==
  /\ ~exited
  /\ sd["stop"] = "sleeping"
  /\ sd' = [sd EXCEPT !["stop"] = "stopTimer"]
  /\ UNCHANGED <<storeVars, timerVars, pc, exited, listening>>

\* Shutdown, step by step, on goroutine g: stop s.autoLockTimer;
\* store.Lock (an error is logged); server.Shutdown closes the listener and
\* waits for the handlers in flight; remove the socket and PID files and
\* return, after which the process exits (os.Exit(0) on the /stop
\* goroutine, main returning from daemonRun on Run's).
ShutdownStopTimer(g) ==
  /\ ~exited
  /\ sd[g] = "stopTimer"
  /\ timers' = Stopped(timers, handle)
  /\ sd' = [sd EXCEPT ![g] = "lockStore"]
  /\ UNCHANGED <<storeVars, handle, sinceReset, pc, exited, listening>>

ShutdownLockStore(g) ==
  /\ ~exited
  /\ sd[g] = "lockStore"
  /\ StoreLock
  /\ sd' = [sd EXCEPT ![g] = "serverShutdown"]
  /\ UNCHANGED <<timerVars, pc, exited, listening>>

ShutdownServer(g) ==
  /\ ~exited
  /\ sd[g] = "serverShutdown"
  /\ listening' = FALSE
  /\ sd' = [sd EXCEPT ![g] = "waitIdle"]
  /\ UNCHANGED <<storeVars, timerVars, pc, exited>>

ShutdownExit(g) ==
  /\ ~exited
  /\ sd[g] = "waitIdle"
  /\ MuFree
  /\ sd' = [sd EXCEPT ![g] = "done"]
  /\ exited' = TRUE
  /\ UNCHANGED <<storeVars, timerVars, pc, listening>>

Next ==
  \/ \E c \in Clients :
       \/ \E pw \in Passwords : HandleInit(c, pw) \/ HandleUnlock(c, pw)
       \/ HandleLock(c)
       \/ \E p \in Paths :
            \/ HandleGet(c, p)
            \/ HandleDelete(c, p)
            \/ \E v \in Values : HandlePut(c, p, v)
       \/ ListBegin(c) \/ ListStop(c) \/ ListArm(c)
       \/ HandleStop(c)
  \/ \E t \in Slots : Fire(t) \/ AutoLock(t)
  \/ Tick
  \/ ServeReturns
  \/ Signal
  \/ StopGoroutineWakes
  \/ \E g \in ShutdownCallers :
       ShutdownStopTimer(g) \/ ShutdownLockStore(g) \/ ShutdownServer(g)
         \/ ShutdownExit(g)

\* Go's runtime runs due timers and runnable goroutines, time passes, and
\* sync.Mutex's starvation mode lets a waiting Lock in eventually.  Clients
\* and signals owe nothing.
Fairness ==
  /\ WF_vars(Tick)
  /\ \A t \in Slots : WF_vars(Fire(t)) /\ SF_vars(AutoLock(t))
  /\ \A c \in Clients : WF_vars(ListStop(c)) /\ WF_vars(ListArm(c))
  /\ WF_vars(ServeReturns) /\ WF_vars(StopGoroutineWakes)
  /\ \A g \in ShutdownCallers :
       /\ WF_vars(ShutdownStopTimer(g)) /\ WF_vars(ShutdownLockStore(g))
       /\ WF_vars(ShutdownServer(g)) /\ WF_vars(ShutdownExit(g))

Spec == Init /\ [][Next]_vars /\ Fairness
-----------------------------------------------------------------------------
(* Properties *)

\* Once the vault has been unlocked and idle for the auto-lock duration, it
\* is eventually locked, unless a request resets the timer or the daemon
\* exits (spec section 8, property 10; resetAutoLock and its AfterFunc).
AutoLockEventually ==
  (crypto # None /\ sinceReset = AutoLockDuration)
    ~> (crypto = None \/ sinceReset < AutoLockDuration \/ exited)

\* The auto-lock goroutine only locks a vault that has been idle for the
\* whole duration: any successful request resets the deadline to now + T
\* (spec sections 8.10 and 9).
NoEarlyAutoLock ==
  [][\A t \in Slots :
       (timers[t].status = "fired" /\ timers'[t].status = "idle"
        /\ crypto # None /\ crypto' = None)
       => sinceReset = AutoLockDuration]_vars

\* At most one timer is armed, and it is s.autoLockTimer: a reset cancels
\* the prior timer before arming a new one (spec section 5, "never stacks").
SingleArmedTimer ==
  \A t \in Slots : timers[t].status = "armed" => t = handle

\* Graceful shutdown always leaves the store locked (spec sections 1, 4.5).
ShutdownLocks == exited => crypto = None
=============================================================================
