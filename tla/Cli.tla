-------------------------------- MODULE Cli --------------------------------
(***************************************************************************)
(* The omnivault CLI (src/cmd/omnivault: main.go, init.go, secrets.go and  *)
(* daemonStop in daemon.go) driving the daemon of the Daemon module.       *)
(*                                                                         *)
(* Each CLI invocation is a process of its own (a member of Clients, the   *)
(* daemon's HTTP clients).  A command is a sequence of steps: the          *)
(* IsDaemonRunning check, for init and unlock a GetStatus request, a       *)
(* prompt, then one HTTP request that the daemon's handler serves in one   *)
(* step.  Other commands interleave with all of these, and so do the       *)
(* auto-lock timer and shutdown.  A request the handler answers with an    *)
(* error and no state change (403, 404, 409, a refused connection) ends    *)
(* the command here; in the Daemon module alone it is a stutter step.      *)
(*                                                                         *)
(* Output formatting is left out.  Every early return that happens before  *)
(* the command has changed anything (usage errors, a prompt that cannot    *)
(* be read, a password too short or not confirmed, a delete not confirmed) *)
(* is one disjunct that ends the command.                                  *)
(***************************************************************************)
EXTENDS Naturals

CONSTANTS
  Passwords, MaxSalt, VerificationMagic, Paths, Values, MaxTime,
  WriteOutcomes, None, NoFile, Torn, Missing, NoTime, NoPassword, Unreadable,
  Clients, Requests, AutoLockDuration, MaxTimers,
  CliProcs,    \* the clients that are CLI processes followed step by step
  Commands,    \* the commands they may run
  OtherRequests, \* the requests the other clients may send
  Unknown      \* acked: the last write of a path was not acknowledged

VARIABLES
  metaFile, dataFile, meta, crypto, data, dirty, now, nextSalt,
  timers, handle, sinceReset, pc, sd, exited, listening,
  cli,         \* per CLI process: [cmd, pc, arg] of the command it runs
  acked        \* ghost: per path, what the last handled write told its CLI

D == INSTANCE Daemon

daemonVars == <<metaFile, dataFile, meta, crypto, data, dirty, now, nextSalt,
                timers, handle, sinceReset, pc, sd, exited, listening>>
vars == <<daemonVars, cli, acked>>

ASSUME CliProcs \subseteq Clients
ASSUME OtherRequests \subseteq Requests
ASSUME Commands \subseteq {"init", "unlock", "lock", "get", "set", "list",
                           "delete", "stop"}

Idle == [cmd |-> "none", pc |-> "idle", arg |-> None]

\* The arguments a command is invoked with (os.Args[2:]): a path for get
\* and delete, a path and a value for set (from the command line or the
\* prompt that precedes everything else in cmdSet).
Args(cmd) ==
  CASE cmd \in {"get", "delete"} -> Paths
    [] cmd = "set"               -> Paths \X Values
    [] OTHER                     -> {None}

Init ==
  /\ D!Init
  /\ cli = [u \in CliProcs |-> Idle]
  /\ acked = [p \in Paths |-> Unknown]

TypeOK ==
  /\ D!TypeOK
  /\ cli \in [CliProcs -> [cmd : Commands \cup {"none"},
                          pc : {"idle", "status", "prompt", "send",
                                "listing"},
                          arg : Paths \cup (Paths \X Values) \cup Passwords
                                \cup {None}]]
  /\ acked \in [Paths -> Values \cup {Missing, Unknown}]
-----------------------------------------------------------------------------
(* CLI-side steps *)

\* client.IsDaemonRunning (internal/client, spec 4.6): the socket accepts
\* a connection.
IsDaemonRunning == listening

Goto(u, step) == cli' = [cli EXCEPT ![u].pc = step]

\* The command returns (nil or an error; main prints it and exits).
Finish(u) == cli' = [cli EXCEPT ![u] = Idle]

\* main runs the command named by os.Args[1], which first asks
\* IsDaemonRunning and returns at once when it is not.  (cmdStatus only
\* reads and prints, and changes nothing; it is left out.)
Invoke(u, cmd, arg) ==
  /\ cli[u].pc = "idle"
  /\ IsDaemonRunning
  /\ cli' = [cli EXCEPT ![u] = [cmd |-> cmd, arg |-> arg,
                                pc |-> CASE cmd \in {"init", "unlock"} -> "status"
                                         [] cmd = "delete"             -> "prompt"
                                         [] OTHER                      -> "send"]]
  /\ UNCHANGED <<daemonVars, acked>>

\* cmdInit goes on only when status.VaultExists (store.VaultExists: the
\* os.Stat of vault.meta) is false.
InitProceeds == metaFile = NoFile

\* cmdUnlock goes on only when the vault exists and status.Locked (the
\* store holds no session); an unlocked vault ends it at once.
UnlockProceeds == metaFile # NoFile /\ crypto = None

\* cmdInit and cmdUnlock: GetStatus (handleStatus, under s.mu.RLock); a
\* refused connection is an error, and the command then goes on or returns
\* as its check says.
Status(u) ==
  /\ cli[u].pc = "status"
  /\ IF /\ listening
        /\ IF cli[u].cmd = "init" THEN InitProceeds ELSE UnlockProceeds
     THEN Goto(u, "prompt")
     ELSE Finish(u)
  /\ UNCHANGED <<daemonVars, acked>>

\* readPassword, through the terminal or a pipe: some password is read
\* (for init it passed the length and confirmation checks).
ReadPassword(u) ==
  /\ cli[u].cmd \in {"init", "unlock"}
  /\ \E pw \in Passwords : cli' = [cli EXCEPT ![u].pc = "send", ![u].arg = pw]

\* cmdDelete's y/N question answered y or yes.
Confirm(u) ==
  /\ cli[u].cmd = "delete"
  /\ Goto(u, "send")

\* The prompts: the password for init (twice) and unlock, the y/N answer
\* for delete.  A read error, a short or unconfirmed password, or an
\* answer other than y or yes ends the command.
Prompt(u) ==
  /\ cli[u].pc = "prompt"
  /\ Finish(u) \/ ReadPassword(u) \/ Confirm(u)
  /\ UNCHANGED <<daemonVars, acked>>
-----------------------------------------------------------------------------
(* The request, served by the daemon's handler in the same step *)

Sending(u, cmd) == cli[u].pc = "send" /\ cli[u].cmd = cmd

\* The handler answers with an error and changes nothing: the request
\* was read (D!Accepts), took s.mu where the handler takes it exclusively,
\* and met the early return whose condition is cond.
Rejected(u, r, cond) ==
  /\ D!Accepts(u, r)
  /\ r # "list" => D!MuFree
  /\ cond
  /\ Finish(u)
  /\ UNCHANGED <<daemonVars, acked>>

\* The daemon no longer listens: the connection is refused.
Refused(u) ==
  /\ ~listening
  /\ Finish(u)
  /\ UNCHANGED <<daemonVars, acked>>

\* c.Init: handleInit answers 409 when the vault exists.
SendInit(u) ==
  /\ Sending(u, "init")
  /\ \/ D!HandleInit(u, cli[u].arg) /\ Finish(u) /\ UNCHANGED acked
     \/ Rejected(u, "init", metaFile # NoFile)
     \/ Refused(u)

\* c.Unlock: handleUnlock answers 404 when there is no vault; a wrong
\* password or a failed load is an error reply inside D!HandleUnlock.
SendUnlock(u) ==
  /\ Sending(u, "unlock")
  /\ \/ D!HandleUnlock(u, cli[u].arg) /\ Finish(u) /\ UNCHANGED acked
     \/ Rejected(u, "unlock", metaFile = NoFile)
     \/ Refused(u)

\* c.Lock.
SendLock(u) ==
  /\ Sending(u, "lock")
  /\ \/ D!HandleLock(u) /\ Finish(u) /\ UNCHANGED acked
     \/ Refused(u)

\* c.GetSecret: handleSecret answers 403 when locked, 404 for a missing
\* path, 500 for a secret the session cannot open.
SendGet(u) ==
  /\ Sending(u, "get")
  /\ LET p == cli[u].arg
     IN \/ D!HandleGet(u, p) /\ Finish(u) /\ UNCHANGED acked
        \/ Rejected(u, "get", IF crypto = None \/ data[p] = Missing THEN TRUE
                              ELSE ~D!Store!CanDecrypt(crypto.key, data[p]))
        \/ Refused(u)

\* What the CLI was told of a write of path p that the store handled: the
\* new content when the auto-save succeeded (200), Unknown when it failed
\* and setSecret or deleteSecret answered 500.
Told(p, content) ==
  acked' = [acked EXCEPT ![p] = IF dirty' THEN Unknown ELSE content]

\* c.SetSecret(path, value, nil, nil): 403 when locked.
SendSet(u) ==
  /\ Sending(u, "set")
  /\ LET p == cli[u].arg[1]
         v == cli[u].arg[2]
     IN \/ D!HandlePut(u, p, v) /\ Finish(u) /\ Told(p, v)
        \/ Rejected(u, "put", crypto = None)
        \/ Refused(u)

\* c.DeleteSecret: 403 when locked.
SendDelete(u) ==
  /\ Sending(u, "delete")
  /\ LET p == cli[u].arg
     IN \/ D!HandleDelete(u, p) /\ Finish(u) /\ Told(p, Missing)
        \/ Rejected(u, "delete", crypto = None)
        \/ Refused(u)

\* c.ListSecrets: handleSecrets answers 403 when locked; otherwise see
\* ListBegin.
SendList(u) ==
  /\ Sending(u, "list")
  /\ \/ Rejected(u, "list", crypto = None)
     \/ Refused(u)

\* daemonStop: c.Stop (POST /stop); when it fails, killDaemonByPID sends
\* SIGTERM to the daemon, which is shutting down already or gone.
SendStop(u) ==
  /\ Sending(u, "stop")
  /\ \/ D!HandleStop(u) /\ Finish(u) /\ UNCHANGED acked
     \/ /\ ~listening
        /\ IF ~exited /\ sd["run"] = "idle" THEN D!Signal
           ELSE UNCHANGED daemonVars
        /\ Finish(u)
        /\ UNCHANGED acked
-----------------------------------------------------------------------------
(* The daemon's other clients: any request, served in one step.  Such a  *)
(* client stands for every other CLI process: what one does before its   *)
(* request only reads.                                                   *)

OtherRequest(c) ==
  \/ "init" \in OtherRequests /\ \E pw \in Passwords :
       D!HandleInit(c, pw) /\ UNCHANGED <<cli, acked>>
  \/ "unlock" \in OtherRequests /\ \E pw \in Passwords :
       D!HandleUnlock(c, pw) /\ UNCHANGED <<cli, acked>>
  \/ "lock" \in OtherRequests /\ D!HandleLock(c) /\ UNCHANGED <<cli, acked>>
  \/ "get" \in OtherRequests /\ \E p \in Paths :
       D!HandleGet(c, p) /\ UNCHANGED <<cli, acked>>
  \/ "delete" \in OtherRequests /\ \E p \in Paths :
       D!HandleDelete(c, p) /\ Told(p, Missing) /\ UNCHANGED cli
  \/ "put" \in OtherRequests /\ \E p \in Paths, v \in Values :
       D!HandlePut(c, p, v) /\ Told(p, v) /\ UNCHANGED cli
  \/ "stop" \in OtherRequests /\ D!HandleStop(c) /\ UNCHANGED <<cli, acked>>

(* handleSecrets, for a CLI process (c.ListSecrets, which waits for the  *)
(* reply) and for another client alike.                                  *)

ListBegin(c) ==
  /\ IF c \in CliProcs THEN Sending(c, "list") ELSE "list" \in OtherRequests
  /\ D!ListBegin(c)
  /\ cli' = IF c \in CliProcs THEN [cli EXCEPT ![c].pc = "listing"] ELSE cli
  /\ UNCHANGED acked

ListStop(c) ==
  /\ D!ListStop(c)
  /\ UNCHANGED <<cli, acked>>

\* resetAutoLock's second half writes the reply the CLI prints.
ListReply(c) ==
  /\ D!ListArm(c)
  /\ cli' = IF c \in CliProcs THEN [cli EXCEPT ![c] = Idle] ELSE cli
  /\ UNCHANGED acked

-----------------------------------------------------------------------------
(* The daemon's own steps: timers, signals and shutdown *)

DaemonStep ==
  /\ \/ \E t \in D!Slots : D!Fire(t) \/ D!AutoLock(t)
     \/ D!Tick
     \/ D!ServeReturns
     \/ D!Signal
     \/ D!StopGoroutineWakes
     \/ \E g \in D!ShutdownCallers :
          \/ D!ShutdownStopTimer(g) \/ D!ShutdownLockStore(g)
          \/ D!ShutdownServer(g) \/ D!ShutdownExit(g)
  /\ UNCHANGED <<cli, acked>>

Next ==
  \/ \E u \in CliProcs :
       \/ \E cmd \in Commands : \E arg \in Args(cmd) : Invoke(u, cmd, arg)
       \/ Status(u) \/ Prompt(u)
       \/ SendInit(u) \/ SendUnlock(u) \/ SendLock(u) \/ SendGet(u)
       \/ SendSet(u) \/ SendDelete(u) \/ SendList(u) \/ SendStop(u)
  \/ \E c \in Clients \ CliProcs : OtherRequest(c)
  \/ \E c \in Clients : ListBegin(c) \/ ListStop(c) \/ ListReply(c)
  \/ DaemonStep

\* The daemon's fairness (D!Fairness); a CLI process owes nothing, since
\* it waits for a person at its prompts.
Spec == Init /\ [][Next]_vars /\ D!Fairness
-----------------------------------------------------------------------------
(* Properties *)

\* What a CLI was told holds: a secret that `omnivault set` reported saved
\* (or `omnivault delete` reported deleted) is what the vault holds for
\* that path, locked or unlocked, through auto-locks, unlocks by other
\* CLIs and a daemon shutdown, until the next write of the path.
AckedWritesHold ==
  \A p \in Paths : acked[p] # Unknown => D!Store!AbsSecrets[p] = acked[p]

\* The daemon's auto-lock promise (Daemon!AutoLockEventually) with a CLI
\* process among its clients: an unlocked vault left idle for the auto-lock
\* duration is eventually locked by the resetAutoLock timer, unless a
\* request resets it or the daemon exits.
AutoLockEventually == D!AutoLockEventually
=============================================================================
