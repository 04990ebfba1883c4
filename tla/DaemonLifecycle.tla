-------------------------- MODULE DaemonLifecycle --------------------------
(***************************************************************************)
(* Daemon processes and the CLI commands that start and stop them          *)
(* (src/cmd/omnivault/daemon.go), with the two files that stand for "a     *)
(* daemon is running": the Unix socket and the PID file (Server.Run and    *)
(* Server.Shutdown, src/unnamed/part_003; Paths.CleanupSocket,             *)
(* src/resolver.go).                                                       *)
(*                                                                         *)
(* What a daemon does with its store and timer while serving is the        *)
(* Daemon module; here a daemon is only where it is in its life.  Each     *)
(* file records the process that created it.  A Unix socket file belongs   *)
(* to the listener bound to it: removing the file leaves that listener     *)
(* listening but unreachable, and Listen fails while any file is at the    *)
(* path, stale or not.  A CLI command is a separate process; each of its   *)
(* system calls or HTTP requests is a step.                                *)
(***************************************************************************)
EXTENDS Naturals, FiniteSets

CONSTANTS
    Procs,      \* daemon processes `daemon start` may spawn
    CLIs,       \* concurrent invocations of the CLI
    None        \* no file at that path

VARIABLES
    proc,       \* Procs -> life stage of that daemon process
    socketFile, \* the process whose listener made the socket file, or None
    pidFile,    \* the process whose PID the PID file holds, or None
    cli         \* CLIs -> the command in progress and its next step

vars == <<proc, socketFile, pidFile, cli>>

\* Life stages: not spawned; spawned, before CleanupSocket; socket removed,
\* before Listen; listening, before the PID file; PID file written, before
\* signal.Notify; serving; shutting down (a signal or /stop arrived); gone.
Stages == {"unborn", "spawned", "cleaned", "listening", "pidwritten",
           "serving", "stopping", "exited"}
Alive == {"spawned", "cleaned", "listening", "pidwritten", "serving",
          "stopping"}
Listening == {"listening", "pidwritten", "serving", "stopping"}

Idle == [op |-> "idle"]

Init ==
    /\ proc = [d \in Procs |-> "unborn"]
    /\ socketFile = None
    /\ pidFile = None
    /\ cli = [u \in CLIs |-> Idle]

-----------------------------------------------------------------------------
(* client.IsDaemonRunning (internal/client, spec 4.6): the socket file is  *)
(* there and a dial to it connects, that is, a live listener owns it.      *)
IsDaemonRunning ==
    socketFile # None /\ proc[socketFile] \in Listening

-----------------------------------------------------------------------------
(* The daemon process: Server.Run (part_003 70-126) and Server.Shutdown    *)
(* (part_003 129-157).                                                     *)

\* EnsureConfigDir (resolver.go 259-261, assumed to succeed), then
\* CleanupSocket (resolver.go 270-275): os.Remove of whatever is at the
\* path, its error ignored.
RunCleanup(d) ==
    /\ proc[d] = "spawned"
    /\ proc' = [proc EXCEPT ![d] = "cleaned"]
    /\ socketFile' = None
    /\ UNCHANGED <<pidFile, cli>>

\* createListener (part_003 160-168): net.Listen("unix", path) binds a new
\* socket file, or fails because a file is already there and Run returns.
RunListen(d) ==
    /\ proc[d] = "cleaned"
    /\ IF socketFile = None
       THEN /\ proc' = [proc EXCEPT ![d] = "listening"]
            /\ socketFile' = d
       ELSE /\ proc' = [proc EXCEPT ![d] = "exited"]
            /\ UNCHANGED socketFile
    /\ UNCHANGED <<pidFile, cli>>

\* writePIDFile (part_003 482-485): os.WriteFile replaces the PID file.
RunWritePID(d) ==
    /\ proc[d] = "listening"
    /\ proc' = [proc EXCEPT ![d] = "pidwritten"]
    /\ pidFile' = d
    /\ UNCHANGED <<socketFile, cli>>

\* signal.Notify (part_003 106-107), then Serve and the select.
RunNotify(d) ==
    /\ proc[d] = "pidwritten"
    /\ proc' = [proc EXCEPT ![d] = "serving"]
    /\ UNCHANGED <<socketFile, pidFile, cli>>

\* The stage a SIGINT or SIGTERM moves a live process to: Run's select
\* wakes once signal.Notify has run; before that the default action ends
\* the process on the spot, leaving its files.
AfterSigterm(stage) ==
    CASE stage \in {"serving", "stopping"} -> "stopping"
      [] OTHER                             -> "exited"

\* A signal from outside the CLI (Ctrl-C, kill).
Signal(d) ==
    /\ proc[d] \in Alive \ {"stopping"}
    /\ proc' = [proc EXCEPT ![d] = AfterSigterm(@)]
    /\ UNCHANGED <<socketFile, pidFile, cli>>

\* Shutdown's last steps: CleanupSocket and os.Remove(PIDFile) remove the
\* files at the two paths, whichever process made them; then the process
\* ends.
Shutdown(d) ==
    /\ proc[d] = "stopping"
    /\ proc' = [proc EXCEPT ![d] = "exited"]
    /\ socketFile' = None
    /\ pidFile' = None
    /\ UNCHANGED cli

\* The process dies without Shutdown (SIGKILL, a crash): both files stay.
Crash(d) ==
    /\ proc[d] \in Alive
    /\ proc' = [proc EXCEPT ![d] = "exited"]
    /\ UNCHANGED <<socketFile, pidFile, cli>>

-----------------------------------------------------------------------------
(* The CLI: cmdDaemon (daemon.go 16-35) dispatches to daemonStart,         *)
(* daemonStop or daemonStatus.  Status only reads and prints.              *)

Invoke(u, op) ==
    /\ cli[u] = Idle
    /\ cli' = [cli EXCEPT ![u] = [op |-> op, pc |-> "check"]]
    /\ UNCHANGED <<proc, socketFile, pidFile>>

Finish(u) == cli' = [cli EXCEPT ![u] = Idle]

\* daemonStart, daemonStop and daemonStatus first ask IsDaemonRunning and
\* return at once when the answer makes the command pointless.
Returns(op) ==
    CASE op = "start"  -> IsDaemonRunning
      [] op = "stop"   -> ~IsDaemonRunning
      [] op = "status" -> TRUE

Check(u) ==
    /\ cli[u] # Idle
    /\ cli[u].pc = "check"
    /\ IF Returns(cli[u].op)
       THEN Finish(u)
       ELSE cli' = [cli EXCEPT ![u].pc = "act"]
    /\ UNCHANGED <<proc, socketFile, pidFile>>

\* daemonStart (daemon.go 37-71): exec.Command(exe, "daemon", "run") and
\* cmd.Start, without waiting; the child runs daemonRun (124-132).  Start
\* may fail, and does when no process is left to spawn.
Spawn(u) ==
    /\ cli[u] # Idle
    /\ cli[u].op = "start" /\ cli[u].pc = "act"
    /\ \/ \E d \in Procs :
             /\ proc[d] = "unborn"
             /\ proc' = [proc EXCEPT ![d] = "spawned"]
       \/ UNCHANGED proc
    /\ Finish(u)
    /\ UNCHANGED <<socketFile, pidFile>>

\* killDaemonByPID (daemon.go 134-161): read the PID file, SIGTERM that
\* process, remove the PID file.  A missing file, or a process that is
\* gone, is an error returned before the removal.
KillByPID ==
    IF pidFile # None /\ proc[pidFile] \in Alive
    THEN /\ proc' = [proc EXCEPT ![pidFile] = AfterSigterm(@)]
         /\ pidFile' = None
    ELSE UNCHANGED <<proc, pidFile>>

\* daemonStop (daemon.go 73-90): POST /stop through the socket; the daemon
\* that owns it answers and shuts down (handleStop).  When the request
\* fails, killDaemonByPID.
Stop(u) ==
    /\ cli[u] # Idle
    /\ cli[u].op = "stop" /\ cli[u].pc = "act"
    /\ IF IsDaemonRunning
       THEN /\ proc' = [proc EXCEPT ![socketFile] = "stopping"]
            /\ UNCHANGED pidFile
       ELSE KillByPID
    /\ Finish(u)
    /\ UNCHANGED socketFile

-----------------------------------------------------------------------------
Next ==
    \/ \E u \in CLIs :
          \/ \E op \in {"start", "stop", "status"} : Invoke(u, op)
          \/ Check(u)
          \/ Spawn(u)
          \/ Stop(u)
    \/ \E d \in Procs :
          \/ RunCleanup(d)
          \/ RunListen(d)
          \/ RunWritePID(d)
          \/ RunNotify(d)
          \/ Signal(d)
          \/ Shutdown(d)
          \/ Crash(d)

Spec == Init /\ [][Next]_vars

-----------------------------------------------------------------------------
TypeOK ==
    /\ proc \in [Procs -> Stages]
    /\ socketFile \in Procs \cup {None}
    /\ pidFile \in Procs \cup {None}

(* Single-owner process (spec 4.5, and "the PID file is the single-       *)
(* instance marker"): at most one daemon process is listening.  Two       *)
(* `daemon start` commands that both find no daemon, or a second start    *)
(* before the first daemon has bound its socket, spawn two daemons; the   *)
(* second one's CleanupSocket deletes the first one's live socket, and    *)
(* nothing in Run consults the PID file.                                  *)
SingleInstance ==
    Cardinality({d \in Procs : proc[d] \in Listening}) <= 1
=============================================================================
