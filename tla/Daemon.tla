------------------------------ MODULE Daemon -------------------------------
(***************************************************************************)
(* How jardd comes up and goes away, and how the jard commands find, start *)
(* and stop it: Serve of internal/daemon/serve.go, Connect, Start and Stop *)
(* of connect.go.  Daemons and commands are processes that share three     *)
(* things: the socket's path, the pidfile and the port of the egress       *)
(* proxy.  All of them use the default paths and the default proxy port.   *)
(***************************************************************************)
CONSTANTS
  Daemons,      \* process ids a daemon can have
  Commands,     \* jard processes, each running one command after another
  NoOne,        \* no file, nobody's port, no pid
  Faults        \* what may go wrong: "crash" of a daemon, "write" of its pidfile

ASSUME NoOneAssumption == NoOne \notin Daemons
ASSUME FaultsAssumption == Faults \subseteq {"crash", "write"}

VARIABLES
  phase,        \* daemon -> its next step in Serve, or "absent"
  signalled,    \* daemon -> a SIGTERM has been delivered to it
  sessions,     \* daemon -> it has sessions in flight
  socket,       \* whose listener the file at the socket's path belongs to
  pidFile,      \* the process the pidfile names
  port,         \* who has the egress proxy's port
  step,         \* command -> its next step, or "idle"
  readPid       \* command -> the pid Stop has read

daemonVars == <<phase, signalled, sessions, socket, pidFile, port>>
commandVars == <<step, readPid>>
vars == <<daemonVars, commandVars>>

Phases == {"absent", "checkAlive", "clearSocket", "bindProxy", "writePid", "listen",
           "serving", "draining", "rmSocket", "rmPid", "stopProxy"}
CommandSteps == {"idle", "start", "wait", "findPid", "signal", "waitQuiet"}

TypeOK ==
  /\ phase \in [Daemons -> Phases]
  /\ signalled \in [Daemons -> BOOLEAN]
  /\ sessions \in [Daemons -> BOOLEAN]
  /\ {socket, pidFile, port} \subseteq Daemons \cup {NoOne}
  /\ step \in [Commands -> CommandSteps]
  /\ readPid \in [Commands -> Daemons \cup {NoOne}]
  /\ \A k \in Commands : step[k] = "signal" => readPid[k] \in Daemons

Init ==
  /\ phase = [d \in Daemons |-> "absent"]
  /\ signalled = [d \in Daemons |-> FALSE]
  /\ sessions = [d \in Daemons |-> FALSE]
  /\ socket = NoOne /\ pidFile = NoOne /\ port = NoOne
  /\ step = [k \in Commands |-> "idle"]
  /\ readPid = [k \in Commands |-> NoOne]

\* A connection to the socket's path succeeds: the file there is the socket of
\* a process that still listens.  A file left by a dead one refuses.
Answers(d) == socket = d /\ phase[d] = "serving"
Alive == \E d \in Daemons : Answers(d)
-----------------------------------------------------------------------------
(***************************************************************************)
(* The daemon.  A return before the end of Serve runs the deferred calls   *)
(* registered so far, last first: socket, pidfile, proxy.                  *)
(***************************************************************************)
Enter(d, next) == phase' = [phase EXCEPT ![d] = next]

CheckAlive(d) ==
  /\ phase[d] = "checkAlive"
  /\ Enter(d, IF Alive THEN "absent" ELSE "clearSocket")
  /\ UNCHANGED <<signalled, sessions, socket, pidFile, port>>

ClearSocket(d) ==
  /\ phase[d] = "clearSocket"
  /\ socket' = NoOne
  /\ Enter(d, "bindProxy")
  /\ UNCHANGED <<signalled, sessions, pidFile, port>>

\* Mutant: the proxy listens on a port of its own choosing.
BindAnyPort(d) ==
  /\ phase[d] = "bindProxy"
  /\ port' = d
  /\ Enter(d, "writePid")
  /\ UNCHANGED <<signalled, sessions, socket, pidFile>>

BindProxy(d) ==
  /\ phase[d] = "bindProxy"
  /\ port = NoOne
  /\ port' = d
  /\ Enter(d, "writePid")
  /\ UNCHANGED <<signalled, sessions, socket, pidFile>>

BindProxyFails(d) ==
  /\ phase[d] = "bindProxy"
  /\ port # NoOne
  /\ Enter(d, "absent")
  /\ UNCHANGED <<signalled, sessions, socket, pidFile, port>>

\* Mutant: the pidfile is not written over one that is there.
KeepOldPid(d) ==
  /\ phase[d] = "writePid"
  /\ pidFile' = IF pidFile = NoOne THEN d ELSE pidFile
  /\ Enter(d, "listen")
  /\ UNCHANGED <<signalled, sessions, socket, port>>

WritePid(d) ==
  /\ phase[d] = "writePid"
  /\ pidFile' = d
  /\ Enter(d, "listen")
  /\ UNCHANGED <<signalled, sessions, socket, port>>

WritePidFails(d) ==
  /\ "write" \in Faults
  /\ phase[d] = "writePid"
  /\ Enter(d, "stopProxy")
  /\ UNCHANGED <<signalled, sessions, socket, pidFile, port>>

\* From here on the kernel accepts connections for the daemon.
Listen(d) ==
  /\ phase[d] = "listen"
  /\ socket = NoOne
  /\ socket' = d
  /\ Enter(d, "serving")
  /\ UNCHANGED <<signalled, sessions, pidFile, port>>

ListenFails(d) ==
  /\ phase[d] = "listen"
  /\ socket # NoOne
  /\ Enter(d, "rmPid")
  /\ UNCHANGED <<signalled, sessions, socket, pidFile, port>>

\* Mutant: a stopping daemon still takes new sessions.
OpenSessionWhileDraining(d) ==
  /\ phase[d] \in {"serving", "draining"}
  /\ sessions' = [sessions EXCEPT ![d] = TRUE]
  /\ UNCHANGED <<phase, signalled, socket, pidFile, port>>

OpenSession(d) ==
  /\ Answers(d)
  /\ sessions' = [sessions EXCEPT ![d] = TRUE]
  /\ UNCHANGED <<phase, signalled, socket, pidFile, port>>

CloseSession(d) ==
  /\ sessions[d]
  /\ sessions' = [sessions EXCEPT ![d] = FALSE]
  /\ UNCHANGED <<phase, signalled, socket, pidFile, port>>

\* GracefulStop closes the listener first, and closing a unix listener unlinks
\* its path, whatever is there by now; then it waits for the sessions.
GracefulStop(d) ==
  /\ phase[d] = "serving" /\ signalled[d]
  /\ socket' = NoOne
  /\ Enter(d, "draining")
  /\ UNCHANGED <<signalled, sessions, pidFile, port>>

\* Mutant: the proxy is stopped before the files are removed.
DrainedAndUnbound(d) ==
  /\ phase[d] = "draining"
  /\ ~sessions[d]
  /\ port' = NoOne
  /\ Enter(d, "rmSocket")
  /\ UNCHANGED <<signalled, sessions, socket, pidFile>>

Drained(d) ==
  /\ phase[d] = "draining"
  /\ ~sessions[d]
  /\ Enter(d, "rmSocket")
  /\ UNCHANGED <<signalled, sessions, socket, pidFile, port>>

RemoveSocket(d) ==
  /\ phase[d] = "rmSocket"
  /\ socket' = NoOne
  /\ Enter(d, "rmPid")
  /\ UNCHANGED <<signalled, sessions, pidFile, port>>

RemovePid(d) ==
  /\ phase[d] = "rmPid"
  /\ pidFile' = NoOne
  /\ Enter(d, "stopProxy")
  /\ UNCHANGED <<signalled, sessions, socket, port>>

StopProxy(d) ==
  /\ phase[d] = "stopProxy"
  /\ port' = NoOne
  /\ Enter(d, "absent")
  /\ UNCHANGED <<signalled, sessions, socket, pidFile>>

\* Killed: the files stay, the kernel takes back the rest.
Crash(d) ==
  /\ "crash" \in Faults
  /\ phase[d] # "absent"
  /\ Enter(d, "absent")
  /\ sessions' = [sessions EXCEPT ![d] = FALSE]
  /\ port' = IF port = d THEN NoOne ELSE port
  /\ UNCHANGED <<signalled, socket, pidFile>>

Serve(d) ==
  \/ CheckAlive(d) \/ ClearSocket(d)
  \/ BindProxy(d) \/ BindProxyFails(d)
  \/ WritePid(d) \/ WritePidFails(d)
  \/ Listen(d) \/ ListenFails(d)
  \/ GracefulStop(d) \/ Drained(d) \/ RemoveSocket(d) \/ RemovePid(d) \/ StopProxy(d)
-----------------------------------------------------------------------------
(***************************************************************************)
(* The commands.                                                           *)
(***************************************************************************)
\* Connect returns, with a client or with an error.
Connected(k) ==
  /\ step' = [step EXCEPT ![k] = "idle"]
  /\ UNCHANGED readPid

\* Stop returns, with an error or without one.
Stopped(k) ==
  /\ step' = [step EXCEPT ![k] = "idle"]
  /\ readPid' = [readPid EXCEPT ![k] = NoOne]

Proceed(k, next) ==
  /\ step' = [step EXCEPT ![k] = next]
  /\ UNCHANGED readPid

Connect(k) ==
  /\ step[k] = "idle"
  /\ IF Alive THEN Connected(k) ELSE Proceed(k, "start")
  /\ UNCHANGED daemonVars

\* Start looks again, and takes a daemon that has come up since for an error.
StartRefuses(k) ==
  /\ step[k] = "start"
  /\ Alive
  /\ Connected(k)
  /\ UNCHANGED daemonVars

\* A process id is not given out again while a file still names it.
Start(k) ==
  /\ step[k] = "start"
  /\ ~Alive
  /\ \E d \in Daemons :
       /\ phase[d] = "absent" /\ d \notin {socket, pidFile}
       /\ \A j \in Commands : readPid[j] # d
       /\ Enter(d, "checkAlive")
       /\ signalled' = [signalled EXCEPT ![d] = FALSE]
  /\ Proceed(k, "wait")
  /\ UNCHANGED <<sessions, socket, pidFile, port>>

SocketAnswers(k) ==
  /\ step[k] = "wait"
  /\ Alive
  /\ Connected(k)
  /\ UNCHANGED daemonVars

\* A daemon that has nothing left to do but to serve, or to wait for sessions.
Settled(d) ==
  \/ phase[d] = "absent"
  \/ phase[d] = "serving" /\ ~signalled[d]
  \/ phase[d] = "draining" /\ sessions[d]

\* The ten seconds are over.  Only a session lasts longer than that.
StartTimesOut(k) ==
  /\ step[k] = "wait"
  /\ ~Alive
  /\ \A d \in Daemons : Settled(d)
  /\ Connected(k)
  /\ UNCHANGED daemonVars

Stop(k) ==
  /\ step[k] = "idle"
  /\ IF Alive THEN Proceed(k, "findPid") ELSE Stopped(k)
  /\ UNCHANGED daemonVars

\* Mutant: Stop does not check that it found a pid.
FindPidUnchecked(k) ==
  /\ step[k] = "findPid"
  /\ step' = [step EXCEPT ![k] = "signal"]
  /\ readPid' = [readPid EXCEPT ![k] = pidFile]
  /\ UNCHANGED daemonVars

FindPid(k) ==
  /\ step[k] = "findPid"
  /\ IF pidFile = NoOne
     THEN Stopped(k)
     ELSE /\ step' = [step EXCEPT ![k] = "signal"]
          /\ readPid' = [readPid EXCEPT ![k] = pidFile]
  /\ UNCHANGED daemonVars

Signal(k) ==
  /\ step[k] = "signal"
  /\ phase[readPid[k]] # "absent"
  /\ signalled' = [signalled EXCEPT ![readPid[k]] = TRUE]
  /\ Proceed(k, "waitQuiet")
  /\ UNCHANGED <<phase, sessions, socket, pidFile, port>>

SignalFails(k) ==
  /\ step[k] = "signal"
  /\ phase[readPid[k]] = "absent"
  /\ Stopped(k)
  /\ UNCHANGED daemonVars

\* The socket has gone quiet, or the ten seconds are over.
Quiet(k) ==
  /\ step[k] = "waitQuiet"
  /\ Stopped(k)
  /\ UNCHANGED daemonVars

Command(k) ==
  \/ Connect(k) \/ StartRefuses(k) \/ Start(k) \/ SocketAnswers(k) \/ StartTimesOut(k)
  \/ Stop(k) \/ FindPid(k) \/ Signal(k) \/ SignalFails(k) \/ Quiet(k)

Next ==
  \/ \E d \in Daemons :
       (Serve(d) \/ OpenSession(d) \/ CloseSession(d) \/ Crash(d)) /\ UNCHANGED commandVars
  \/ \E k \in Commands : Command(k)

\* A running process goes on, and no session lasts for ever.  Nobody has to
\* run a command, to open a session or to kill a daemon.
Fairness == \A d \in Daemons : WF_vars(Serve(d) /\ UNCHANGED commandVars)
                            /\ WF_vars(CloseSession(d) /\ UNCHANGED commandVars)

Spec == Init /\ [][Next]_vars
FairSpec == Spec /\ Fairness
-----------------------------------------------------------------------------
(***************************************************************************)
(* Properties.                                                             *)
(***************************************************************************)
\* From the bind of the proxy's port to its release.
HoldsPort(d) ==
  phase[d] \in {"writePid", "listen", "serving", "draining", "rmSocket", "rmPid", "stopProxy"}

\* However many daemons are started at once, one at most gets past the proxy:
\* two never serve the same store.
OneDaemonPastTheProxy == \A d, e \in Daemons : HoldsPort(d) /\ HoldsPort(e) => d = e

\* Anything that finds the socket answering can rely on the pidfile naming the
\* daemon that answers, also after crashes and while another is going away.
AnsweringPidIsOnRecord == \A d \in Daemons : Answers(d) => pidFile = d

\* A daemon on its way out takes away nothing of the next one: no other daemon
\* answers, or is named by the pidfile, while one still has files to remove.
LeaversOwnTheFiles ==
  \A d, e \in Daemons :
    phase[d] \in {"serving", "draining", "rmSocket", "rmPid"} /\ d # e =>
      ~Answers(e) /\ pidFile # e

\* A daemon that has been told to stop is gone once its sessions are over.
SignalledDaemonExits == \A d \in Daemons : signalled[d] ~> (phase[d] = "absent")

\* The file a daemon clears as a corpse is one: nobody answers on it.
OnlyCorpsesAreCleared ==
  [][\A d \in Daemons : phase[d] = "clearSocket" /\ phase'[d] = "bindProxy" => ~Alive]_vars
=============================================================================
